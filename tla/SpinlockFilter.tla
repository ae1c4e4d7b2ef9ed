---------------------------- MODULE SpinlockFilter ----------------------------
(***************************************************************************)
(* Spinlock fast forward in the receiving thread of the tracer: records of *)
(* the warps of a kernel come interleaved, and of an instruction of a      *)
(* spinlock loop only the first iterations are written.                    *)
(***************************************************************************)
EXTENDS Integers, Sequences, SequencesExt, FiniteSets

CONSTANTS
  Warps,      \* warps of a kernel, by block and number
  Instrs,     \* instruction indices of a kernel
  Spinlocks,  \* spinlock_instr_map: the indices of the kernels that run, in order
  Keep,       \* spinlock_iter_to_keep
  MaxRecords  \* bound: records of one kernel

ASSUME SpinlockAssumption ==
  /\ Spinlocks \in Seq(SUBSET Instrs) \ {<<>>} /\ Keep \in Nat /\ MaxRecords \in Nat

VARIABLES
  kernel,   \* the kernel that runs
  counters, \* warp_counter_map
  trace,    \* the file of the kernel: records of warp and instruction
  executed  \* history: the records that came

spinVars == <<kernel, counters, trace, executed>>

Spin == Spinlocks[kernel]

\* create_counter
Zero == [i \in Spin |-> 0]

\* The counters of a warp; it gets them with its first record.
Counter(w) == IF w \in DOMAIN counters THEN counters[w] ELSE Zero

With(w, c) == [v \in DOMAIN counters \cup {w} |-> IF v = w THEN c ELSE counters[v]]

SpinInit ==
  /\ kernel = 1 /\ counters = [w \in {} |-> Zero]
  /\ trace = <<>> /\ executed = <<>>

\* One more in a spinlock; any other instruction ends the loop.
Counted(c, i) == IF i \in Spin THEN [c EXCEPT ![i] = @ + 1] ELSE Zero

Skipped(c, i) == i \in Spin /\ c[i] > Keep

Record ==
  \E w \in Warps, i \in Instrs :
    /\ Len(executed) < MaxRecords
    /\ LET c == Counted(Counter(w), i) IN
         /\ counters' = With(w, c)
         /\ trace' = IF Skipped(c, i) THEN trace ELSE Append(trace, <<w, i>>)
    /\ executed' = Append(executed, <<w, i>>)
    /\ UNCHANGED kernel

\* The counters go on into the next kernel.
Cleared_Bug == counters

Cleared == [w \in {} |-> {}]

\* The marker of the end of the kernel, and the next one.
KernelEnds ==
  /\ kernel < Len(Spinlocks) /\ kernel' = kernel + 1
  /\ counters' = Cleared /\ trace' = <<>> /\ executed' = <<>>

SpinNext == Record \/ KernelEnds

SpinSpec == SpinInit /\ [][SpinNext]_spinVars

-----------------------------------------------------------------------------
\* The loop the record p belongs to: what came of its warp since the last
\* instruction outside of a spinlock.
Loop(p) ==
  {q \in 1 .. p : \A r \in q .. p : executed[r][1] = executed[p][1] => executed[r][2] \in Spin}

Kept(p) ==
  \/ executed[p][2] \notin Spin
  \/ Cardinality({q \in Loop(p) : executed[q] = executed[p]}) <= Keep

\* The records at the positions P, in order.
RecordsAt(P) ==
  [n \in 1 .. Cardinality(P) |->
     executed[CHOOSE p \in P : Cardinality({q \in P : q <= p}) = n]]

\* Of every loop of a warp, each instruction keeps its first iterations, and
\* everything outside of loops stays, in order.
FastForwardExact == trace = RecordsAt({p \in DOMAIN executed : Kept(p)})
=============================================================================
