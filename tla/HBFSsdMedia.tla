----------------------------- MODULE HBFSsdMedia -----------------------------
(***************************************************************************)
(* The media protocol of HBFMedia.tla on the SSD mode FTL: the controller  *)
(* is the same, but the address an operation was given at its admission    *)
(* can be moved under it by the garbage collection another page starts.    *)
(*                                                                         *)
(* nand, the auxiliary truth, follows what gc() accounts: its copies are   *)
(* programmed at the new place, the victim is blank afterwards.            *)
(***************************************************************************)
EXTENDS HBFMedia, HBFSsdFtl

CONSTANT TPROG  \* hbf_tPROG

ASSUME ProgramTime == TPROG \in Nat \ {0}

VARIABLES
  gcLeft,  \* m_gc_cycles_remaining, positive while m_gc_active
  gcSub    \* m_gc_victim_subarray

gcVars  == <<gcLeft, gcSub>>
ssdVars == <<mediaVars, gcVars>>

SsdInit ==
  /\ MediaInit
  /\ gcLeft = 0 /\ gcSub = CHOOSE s \in Subarray : TRUE

CopiedTo(c, b) ==
  {c.ftl.map[q].off : q \in {p \in Page : c.ftl.map[p] # ftl.map[p] /\ c.ftl.map[p].blk = b}}

SsdAdmitWrite(p) ==
  /\ flight[p] = "none"
  /\ \E c \in Collections(ftl, SubarrayOf[p]) :
       /\ ftl' \in SsdWrites(ftl, c, p)
       /\ nand' = [b \in Block |-> IF b = c.victim /\ ~c.failed THEN {}
                                     ELSE nand[b] \cup CopiedTo(c, b)]
       /\ IF c.copies > 0 /\ ~c.failed
            THEN gcLeft' = c.copies * TPROG /\ gcSub' = c.ftl.owner[c.victim]
            ELSE UNCHANGED gcVars
  /\ flight' = [flight EXCEPT ![p] = "write"]
  /\ phys' = [phys EXCEPT ![p] = ftl'.map[p]]

\* hbf_ftl_t::cycle, once a tick.
FtlCycle ==
  /\ gcLeft > 0
  /\ gcLeft' = gcLeft - 1
  /\ UNCHANGED <<mediaVars, gcSub>>

Operate(p) ==
  /\ \/ AdmitRead(p) \/ StartRead(p) \/ CacheHit(p)
     \/ StartErase(p) \/ EraseDone(p) \/ StartProgram(p)
     \/ MediaDone(p) \/ Retire(p)
  /\ UNCHANGED gcVars

SsdNext == FtlCycle \/ \E p \in Page : SsdAdmitWrite(p) \/ Operate(p)

SsdSpec == SsdInit /\ [][SsdNext]_ssdVars

-----------------------------------------------------------------------------
SsdTypeOK ==
  /\ MediaTypeOK
  /\ gcLeft \in 0 .. NumPages * TPROG /\ gcSub \in Subarray

\* The address an operation has, fresh or stale, is in the sub-array of its
\* page, so that the scheduler's affinity check (hbf_controller.cc:858-864)
\* never ends a run because of a collection.
FlightKeepsAffinity ==
  \A p \in Page : flight[p] # "none" /\ phys[p].blk \in Block =>
    ftl.owner[phys[p].blk] = SubarrayOf[p]

\* The tables never claim less than there is, also when a collection stops
\* half way: a block with a mapped page in it is found by its reverse index
\* and counts as holding data, so that no collection loses it.
IndexCovers ==
  \A b \in Block :
    LET here == {p \in Page : Mapped(ftl, p) /\ ftl.map[p].blk = b}
    IN here \subseteq ftl.rev[b] /\ Cardinality(here) <= ftl.valid[b]

\* Relocation keeps a page in its sub-array, hence its channel, below the
\* cursor of an allocated block, and no free block holds one.
RelocationKeepsAffinity == MappedPagesAllocated(ftl)

\* No two pages are moved to, or left at, the same place.
NoTwoAtOnePlace == MappedPagesDistinct(ftl)

\* Collection never takes the block a sub-array writes to.
OpenBlocksUsable == OpenBlocksHaveRoom(ftl)

\* What gc() relies on in the tables it works on, and leaves behind also when
\* it stops half way for want of a block.
TablesSound == SsdTypeOK /\ IndexCovers /\ NoTwoAtOnePlace /\ OpenBlocksUsable

-----------------------------------------------------------------------------
(***************************************************************************)
(* What comments of the code say of SSD mode, and TLC refutes.             *)
(***************************************************************************)
\* hbf_ftl.cc:300-301: the pages are remapped properly, "fixing the
\* stale-mapping bug". HBFMedia!AddressFresh: an operation in flight has the
\* address its page is mapped to.

\* hbf_ftl.cc:658-660: "The block was empty when selected from the free
\* pool": also while every address is fresh, an ERASE finds in its block only
\* pages waiting for it.
EraseDestroysNothing ==
  AddressFresh =>
    \A p, q \in Page :
      flight[p] = "erasing" /\ Mapped(ftl, q) /\ ftl.map[q].blk = phys[p].blk
        => Unwritten(flight[q])
=============================================================================
