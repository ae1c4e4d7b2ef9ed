----------------------------- MODULE HBFSubarray -----------------------------
(***************************************************************************)
(* A NAND sub-array: one operation at a time with its latency, and the     *)
(* page buffers, filled round robin by read misses and programs.           *)
(*                                                                         *)
(* Whoever starts operations is the environment. With the FTL a page is    *)
(* programmed once between two erases of its block and read when it is     *)
(* written (MediaProgramOnErasedPage and MediaDurability of                *)
(* HBFMedia_proofs), while pages nobody wrote are read in blocks of their  *)
(* own. With direct addressing blocks are never erased and pages are       *)
(* programmed in place.                                                    *)
(***************************************************************************)
EXTENDS Integers

CONSTANTS
  Block,            \* blocks of the sub-array
  Direct,           \* those with the pages that were never written
  PagesPerBlock,    \* hbf_pages_per_block
  NumBuffers,       \* m_buffers.size()
  BufferEnabled,    \* hbf_buffer_enabled
  Latency,          \* of "read", "hit", "program" and "erase"
  Nothing           \* in an invalid slot

Offset == 0 .. PagesPerBlock - 1
Page   == Block \X Offset
Slot   == 0 .. NumBuffers - 1

ASSUME SubarrayAssumption ==
  /\ Direct \subseteq Block /\ Nothing \notin Page
  /\ PagesPerBlock \in Nat /\ NumBuffers \in Nat \ {0}
  /\ BufferEnabled \in BOOLEAN
  /\ Latency \in [{"read", "hit", "program", "erase"} -> Nat]

VARIABLES
  state,     \* m_state
  remaining, \* m_timing_remaining
  buffers,   \* m_buffers: the page each valid slot holds
  bufferNext, \* m_buffer_next
  current,   \* history: slots whose data is what the page holds now
  last,      \* history: the page read or programmed last, until its erase
  written    \* pages programmed since the last erase of their block

subarrayVars == <<state, remaining, buffers, bufferNext, current, last, written>>

SubarrayInit ==
  /\ state = "idle" /\ remaining = 0
  /\ buffers = [i \in Slot |-> Nothing] /\ bufferNext = 0
  /\ current = {} /\ last = Nothing /\ written = {}

Holding(p) == {i \in Slot : buffers[i] = p}

Hit(p) == BufferEnabled /\ Holding(p) # {}

Load(p) ==
  IF BufferEnabled THEN /\ buffers' = [buffers EXCEPT ![bufferNext] = p]
                        /\ bufferNext' = (bufferNext + 1) % NumBuffers
                   ELSE UNCHANGED <<buffers, bufferNext>>

Begin(op, latency) == state = "idle" /\ state' = op /\ remaining' = Latency[latency]

StartRead(p) ==
  /\ Begin("reading", IF Hit(p) THEN "hit" ELSE "read")
  /\ IF Hit(p) THEN UNCHANGED <<buffers, bufferNext, current>>
     ELSE Load(p) /\ current' = current \cup {bufferNext}
  /\ last' = p /\ UNCHANGED written

StartProgram(p) ==
  /\ Begin("programming", "program")
  /\ Load(p)
  /\ current' = (current \ Holding(p)) \cup {bufferNext}
  /\ last' = p /\ written' = written \cup {p}

\* The slots keep the pages of the block.
Dropped_Bug(b) == {}

Dropped(b) == {i \in Slot : buffers[i] # Nothing /\ buffers[i][1] = b}

StartErase(b) ==
  /\ Begin("erasing", "erase")
  /\ buffers' = [i \in Slot |-> IF i \in Dropped(b) THEN Nothing ELSE buffers[i]]
  /\ current' = current \ {i \in Slot : buffers[i] \in {b} \X Offset}
  /\ last' = IF last \in {b} \X Offset THEN Nothing ELSE last
  /\ written' = written \ ({b} \X Offset)
  /\ UNCHANGED bufferNext

\* A latency of 0 also takes one cycle.
Cycle ==
  /\ state # "idle"
  /\ remaining' = IF remaining > 0 THEN remaining - 1 ELSE 0
  /\ state' = IF remaining' = 0 THEN "idle" ELSE state
  /\ UNCHANGED <<buffers, bufferNext, current, last, written>>

FtlNext ==
  \/ \E p \in Page : (p \in written \/ p[1] \in Direct) /\ StartRead(p)
  \/ \E p \in Page : p \notin written /\ p[1] \notin Direct /\ StartProgram(p)
  \/ \E b \in Block \ Direct : StartErase(b)
  \/ Cycle

FtlSpec == SubarrayInit /\ [][FtlNext]_subarrayVars

-----------------------------------------------------------------------------
SubarrayTypeOK ==
  /\ state \in {"idle", "reading", "programming", "erasing"}
  /\ remaining \in Nat
  /\ buffers \in [Slot -> Page \cup {Nothing}] /\ bufferNext \in Slot
  /\ current \subseteq Slot /\ last \in Page \cup {Nothing} /\ written \subseteq Page

\* A hit is served from the data of the page as it is on the media: no slot
\* holds a page from before its program or its block's erase.
RegistersCurrent == \A i \in Slot : buffers[i] # Nothing => i \in current

\* The buffers are used for different pages: a page that is programmed or
\* read is in no slot yet.
OneSlotPerPage ==
  \A i, j \in Slot : buffers[i] = buffers[j] /\ buffers[i] # Nothing => i = j

\* The page that was read or programmed last is a hit until its block is
\* erased (hbf_subarray.h:11-13).
LastPageBuffered == BufferEnabled /\ last # Nothing => Holding(last) # {}

\* Every slot holds a page that can be read; with the three properties above
\* this is inductive.
BuffersReadable ==
  \A i \in Slot : buffers[i] # Nothing =>
    buffers[i] \in written \/ buffers[i][1] \in Direct

SubarrayInv == SubarrayTypeOK /\ RegistersCurrent /\ OneSlotPerPage /\ LastPageBuffered
                 /\ BuffersReadable
=============================================================================
