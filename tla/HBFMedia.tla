------------------------------ MODULE HBFMedia ------------------------------
(***************************************************************************)
(* What the controller promises to the NAND media: the life of one page    *)
(* operation between its admission to the MSHR and its completion, with    *)
(* the FTL reservation, the erase-before-write protocol and the sub-array  *)
(* occupancy, and nothing of the queues, timers and request lists that     *)
(* decide when each step happens. HBFController.tla implements it.         *)
(*                                                                         *)
(* nand is the physical truth the simulator does not keep: the offsets     *)
(* programmed in each block since its last erase. It is written by         *)
(* start_program and start_erase and read by the properties only.          *)
(***************************************************************************)
EXTENDS HBFFtl

VARIABLES
  ftl,      \* the FTL record
  flight,   \* stage of the page operation each page has in the MSHR
  phys,     \* physical address the operation was given at admission
  nand      \* programmed offsets of each block (auxiliary)

mediaVars == <<ftl, flight, phys, nand>>

Stage == {"none", "read", "write", "reading", "erasing", "programming", "done"}

OnMedia(stage) == stage \in {"reading", "erasing", "programming"}
Unwritten(stage) == stage \in {"write", "erasing"}

\* A sub-array performs one operation at a time.
SubarrayIdle(s) ==
  \A q \in Page : SubarrayOf[q] = s => ~OnMedia(flight[q])

MediaInit ==
  /\ ftl = FtlInit
  /\ flight = [p \in Page |-> "none"]
  /\ phys = [p \in Page |-> Unmapped]
  /\ nand = [b \in Block |-> {}]

\* A read miss creates the MSHR entry of its page.
AdmitRead(p) ==
  /\ flight[p] = "none"
  /\ flight' = [flight EXCEPT ![p] = "read"]
  /\ phys' = [phys EXCEPT ![p] = ReadAddr(ftl, p)]
  /\ UNCHANGED <<ftl, nand>>

\* The write joins an operation in flight, which keeps its old address.
AdmitWrite_Bug(p) ==
  /\ ftl' \in FtlWrites(ftl, p)
  /\ flight' = [flight EXCEPT ![p] = IF @ = "none" THEN "write" ELSE @]
  /\ phys' = [phys EXCEPT ![p] = IF flight[p] = "none" THEN ftl'.map[p] ELSE @]
  /\ UNCHANGED nand

\* A flushed write-buffer page becomes an MSHR entry. Without a page to
\* reserve the program terminates, so there is no step.
AdmitWrite(p) ==
  /\ flight[p] = "none"
  /\ ftl' \in FtlWrites(ftl, p)
  /\ flight' = [flight EXCEPT ![p] = "write"]
  /\ phys' = [phys EXCEPT ![p] = ftl'.map[p]]
  /\ UNCHANGED nand

StartRead(p) ==
  /\ flight[p] = "read"
  /\ SubarrayIdle(SubarrayOf[p])
  /\ flight' = [flight EXCEPT ![p] = "reading"]
  /\ UNCHANGED <<ftl, phys, nand>>

\* A page-cache hit completes without touching the media.
CacheHit(p) ==
  /\ flight[p] = "read"
  /\ flight' = [flight EXCEPT ![p] = "done"]
  /\ UNCHANGED <<ftl, phys, nand>>

\* The block is erased without looking at its state.
StartErase_Bug(p) ==
  /\ flight[p] = "write"
  /\ SubarrayIdle(SubarrayOf[p])
  /\ ftl' = MarkBlockErasing(ftl, phys[p].blk)
  /\ flight' = [flight EXCEPT ![p] = "erasing"]
  /\ nand' = [nand EXCEPT ![phys[p].blk] = {}]
  /\ UNCHANGED phys

StartErase(p) ==
  /\ flight[p] = "write"
  /\ SubarrayIdle(SubarrayOf[p])
  /\ ~IsBlockErased(ftl, phys[p].blk)
  /\ ftl' = MarkBlockErasing(ftl, phys[p].blk)
  /\ flight' = [flight EXCEPT ![p] = "erasing"]
  /\ nand' = [nand EXCEPT ![phys[p].blk] = {}]
  /\ UNCHANGED phys

\* The block is erased; its page goes back to the queue to be programmed.
EraseDone(p) ==
  /\ flight[p] = "erasing"
  /\ ftl' = MarkBlockErased(ftl, phys[p].blk)
  /\ flight' = [flight EXCEPT ![p] = "write"]
  /\ UNCHANGED <<phys, nand>>

StartProgram(p) ==
  /\ flight[p] = "write"
  /\ SubarrayIdle(SubarrayOf[p])
  /\ IsBlockErased(ftl, phys[p].blk)
  /\ flight' = [flight EXCEPT ![p] = "programming"]
  /\ nand' = [nand EXCEPT ![phys[p].blk] = @ \cup {phys[p].off}]
  /\ UNCHANGED <<ftl, phys>>

\* A finished read or program frees its sub-array and waits for delivery.
MediaDone(p) ==
  /\ flight[p] \in {"reading", "programming"}
  /\ flight' = [flight EXCEPT ![p] = "done"]
  /\ UNCHANGED <<ftl, phys, nand>>

\* Every coalesced request has been answered: the entry leaves the MSHR.
Retire(p) ==
  /\ flight[p] = "done"
  /\ flight' = [flight EXCEPT ![p] = "none"]
  /\ phys' = [phys EXCEPT ![p] = Unmapped]
  /\ UNCHANGED <<ftl, nand>>

MediaNext ==
  \E p \in Page :
    \/ AdmitRead(p) \/ AdmitWrite(p)
    \/ StartRead(p) \/ CacheHit(p)
    \/ StartErase(p) \/ EraseDone(p) \/ StartProgram(p)
    \/ MediaDone(p) \/ Retire(p)

MediaSpec == MediaInit /\ [][MediaNext]_mediaVars

-----------------------------------------------------------------------------
(***************************************************************************)
(* Types of the state, with the bounds of the block allocator: block ids   *)
(* stay below m_max_blocks and no block is filled past its last page.      *)
(***************************************************************************)
MediaTypeOK ==
  /\ ftl \in FtlState
  /\ flight \in [Page -> Stage]
  /\ phys \in [Page -> Addr]
  /\ nand \in [Block -> SUBSET Nat]

(***************************************************************************)
(* No two logical pages ever share a physical page, even while a block is  *)
(* recycled with reservations still queued on it.                          *)
(***************************************************************************)
MappingInjective ==
  \A p, q \in Page :
    p # q /\ Mapped(ftl, p) => ReadAddr(ftl, p) # ReadAddr(ftl, q)

(***************************************************************************)
(* A block in the free pool holds no mapped page and is the open block of  *)
(* no sub-array, so reuse never discards data (invalidate() decides from   *)
(* the valid_pages counter, not from the mapping).                         *)
(***************************************************************************)
FreePoolHoldsNoData ==
  \A b \in ftl.free :
    /\ \A p \in Page : Mapped(ftl, p) => ftl.map[p].blk # b
    /\ \A s \in Subarray : ftl.active[s] # b

(***************************************************************************)
(* The reverse index and the valid_pages counter agree with the mapping.   *)
(***************************************************************************)
ReverseIndexConsistent ==
  \A b \in Block :
    /\ ftl.rev[b] = {p \in Page : Mapped(ftl, p) /\ ftl.map[p].blk = b}
    /\ ftl.valid[b] = Cardinality(ftl.rev[b])

(***************************************************************************)
(* The translation is done once, at admission, and used much later: an     *)
(* operation in flight still has the address the FTL maps its page to.     *)
(***************************************************************************)
AddressFresh ==
  \A p \in Page : flight[p] # "none" => phys[p] = ReadAddr(ftl, p)

(***************************************************************************)
(* NAND rule: a page about to be programmed in an erased block has not     *)
(* been programmed since that erase.                                       *)
(***************************************************************************)
ProgramOnErasedPage ==
  \A p \in Page :
    flight[p] = "write" /\ IsBlockErased(ftl, phys[p].blk)
      => phys[p].off \notin nand[phys[p].blk]

(***************************************************************************)
(* No written page is lost: a mapped page is on the media unless its own   *)
(* write is still queued. An erase issued for one queued page of a block   *)
(* therefore never destroys another page of it.                            *)
(***************************************************************************)
WrittenPagesDurable ==
  \A p \in Page :
    Mapped(ftl, p) /\ ~Unwritten(flight[p])
      => ftl.map[p].off \in nand[ftl.map[p].blk]

(***************************************************************************)
(* Without garbage collection a block is only released by its last         *)
(* overwrite, so capacity can run out although few pages are live. One     *)
(* block per page and one open block per sub-array are always enough.      *)
(***************************************************************************)
CapacityMargin ==
  MaxBlocks >= NumPages + Cardinality(Subarray)
    => \A p \in Page : FtlWrites(ftl, p) # {}

-----------------------------------------------------------------------------
(***************************************************************************)
(* The inductive invariant behind the properties above. What they lack is  *)
(* why an erase is harmless: a dirty block holds only pages whose writes   *)
(* are still queued, an erased block is blank above its cursor, and the    *)
(* page of an erase in progress keeps its sub-array, hence its block, to   *)
(* itself.                                                                 *)
(***************************************************************************)
WritesAreMapped ==
  \A p \in Page :
    flight[p] \in {"write", "erasing", "programming"} => Mapped(ftl, p)

OneOperationPerSubarray ==
  \A p, q \in Page :
    p # q /\ OnMedia(flight[p]) /\ OnMedia(flight[q])
      => SubarrayOf[p] # SubarrayOf[q]

UnusedBlocksBlank == \A b \in Block : b >= ftl.next => nand[b] = {}

ErasedBlankAboveCursor ==
  \A b \in Block : ftl.erased[b] => \A o \in nand[b] : o < ftl.used[b]

DirtyBlocksUnwritten ==
  \A b \in Block : ~ftl.erased[b] =>
    \A p \in Page :
      Mapped(ftl, p) /\ ftl.map[p].blk = b => Unwritten(flight[p])

ErasingBlocksBlank ==
  \A p \in Page : flight[p] = "erasing" =>
    ~ftl.erased[ftl.map[p].blk] /\ nand[ftl.map[p].blk] = {}

MediaInv ==
  /\ MediaTypeOK /\ FtlInv(ftl)
  /\ AddressFresh /\ WritesAreMapped
  /\ OneOperationPerSubarray
  /\ UnusedBlocksBlank /\ ErasedBlankAboveCursor
  /\ DirtyBlocksUnwritten /\ ErasingBlocksBlank
  /\ ProgramOnErasedPage /\ WrittenPagesDurable
=============================================================================
