------------------------------- MODULE HBFFtl -------------------------------
(***************************************************************************)
(* The flash translation layer of one HBF cube (hbf_ftl.cc) in HBF media   *)
(* mode: out-of-place page writes, one open block per sub-array, no        *)
(* garbage collection, a block returns to the free pool when its last      *)
(* valid page is overwritten.                                              *)
(*                                                                         *)
(* The FTL is called synchronously by the controller, so this module has   *)
(* no variables: its state is a record that the operators take and return. *)
(* HBFMedia.tla turns them into a state machine.                           *)
(*                                                                         *)
(* Abstractions: erase_count is not kept (with wear leveling any reusable  *)
(* block may be the least worn one); total_pages is PagesPerBlock and      *)
(* free_pages is total_pages - next_free_page, as in every assignment of   *)
(* the code; counters used only by print_stat are left out.                *)
(*                                                                         *)
(* Operators named X_Bug are wrong variants of X that no specification     *)
(* uses: they show which property notices the mistake.                     *)
(***************************************************************************)
EXTENDS Integers, FiniteSets

CONSTANTS
  NumPages,       \* logical pages of the cube, hbf_size / hbf_page_size
  Subarray,       \* the NAND sub-arrays
  SubarrayOf,     \* preferred sub-array of each logical page (static)
  MaxBlocks,      \* m_max_blocks
  PagesPerBlock,  \* hbf_pages_per_block
  WearLeveling    \* hbf_wear_leveling_enabled

Page    == 0 .. NumPages - 1
Block   == 0 .. MaxBlocks - 1
NoBlock == -1

ASSUME FtlAssumption ==
  /\ NumPages \in Nat /\ MaxBlocks \in Nat /\ PagesPerBlock \in Nat \ {0}
  /\ Subarray # {} /\ IsFiniteSet(Subarray) /\ SubarrayOf \in [Page -> Subarray]
  /\ WearLeveling \in BOOLEAN

(***************************************************************************)
(* Physical addresses: a block and an offset in it. Never-written pages    *)
(* are read at a stable pseudo address, whose block number lies above all  *)
(* the blocks the FTL can allocate (kPseudoBlockBit in the code).          *)
(***************************************************************************)
Addr     == [blk : Int, off : Nat]
Unmapped == [blk |-> NoBlock, off |-> 0]

PseudoAddr(p) == [blk |-> MaxBlocks + (p \div PagesPerBlock),
                  off |-> p % PagesPerBlock]

FtlState ==
  [ map    : [Page -> Addr],                  \* m_mapping
    rev    : [Block -> SUBSET Page],          \* m_reverse_map
    next   : 0 .. MaxBlocks,                  \* m_next_block_id
    owner  : [Block -> Subarray],             \* sub-array half of block_key_t
    used   : [Block -> 0 .. PagesPerBlock],   \* next_free_page
    valid  : [Block -> Nat],                  \* valid_pages
    erased : [Block -> BOOLEAN],              \* erased
    free   : SUBSET Block,                    \* m_free_blocks
    active : [Subarray -> Block \cup {NoBlock}] ] \* m_active_blocks

FtlInit ==
  [ map    |-> [p \in Page |-> Unmapped],
    rev    |-> [b \in Block |-> {}],
    next   |-> 0,
    owner  |-> [b \in Block |-> CHOOSE s \in Subarray : TRUE],
    used   |-> [b \in Block |-> 0],
    valid  |-> [b \in Block |-> 0],
    erased |-> [b \in Block |-> FALSE],
    free   |-> {},
    active |-> [s \in Subarray |-> NoBlock] ]

Mapped(f, p) == f.map[p] # Unmapped

\* translate(page, is_write = false): a read never creates a mapping.
ReadAddr(f, p) == IF Mapped(f, p) THEN f.map[p] ELSE PseudoAddr(p)

(***************************************************************************)
(* allocate_block(): only blocks of the requested sub-array are reused,    *)
(* the lowest id first unless wear leveling picks; otherwise a block is    *)
(* created while the capacity allows. The empty set is the capacity error. *)
(***************************************************************************)
Reusable(f, s) == {b \in f.free : f.owner[b] = s}

AllocatableBlocks(f, s) ==
  IF Reusable(f, s) # {}
    THEN {b \in Reusable(f, s) :
            WearLeveling \/ \A c \in Reusable(f, s) : b <= c}
    ELSE {b \in Block : b = f.next}

\* The chosen block becomes the open block of its sub-array. A reused block
\* keeps its erase state, a created one is erased.
OpenBlock(f, s, b) ==
  [f EXCEPT !.next      = IF b = f.next THEN @ + 1 ELSE @,
            !.owner[b]  = s,
            !.used[b]   = 0,
            !.valid[b]  = 0,
            !.erased[b] = (b = f.next) \/ @,
            !.free      = @ \ {b},
            !.active[s] = b]

\* The next page of the open block b; a full block stops being open.
ReservePage(f, s, b) ==
  [f EXCEPT !.used[b]   = @ + 1,
            !.valid[b]  = @ + 1,
            !.active[s] = IF f.used[b] + 1 = PagesPerBlock THEN NoBlock ELSE @]

(***************************************************************************)
(* invalidate(): drop the old mapping; the block whose last valid page is  *)
(* gone is retired dirty to the free pool.                                 *)
(***************************************************************************)
LastValid(f, b) == f.valid[b] = 1 /\ b \notin f.free

\* The retired block is taken for erased.
RetireBlock_Bug(f, b) ==
  LET s == f.owner[b]
  IN [f EXCEPT !.free      = @ \cup {b},
               !.active[s] = IF @ = b THEN NoBlock ELSE @]

\* The retired block does not reach the free pool.
RetireBlock_BugLeak(f, b) ==
  LET s == f.owner[b]
  IN [f EXCEPT !.erased[b] = FALSE,
               !.active[s] = IF @ = b THEN NoBlock ELSE @]

RetireBlock(f, b) ==
  LET s == f.owner[b]
  IN [f EXCEPT !.erased[b] = FALSE,
               !.free      = @ \cup {b},
               !.active[s] = IF @ = b THEN NoBlock ELSE @]

Invalidate(f, p) ==
  LET b == f.map[p].blk
      g == [f EXCEPT !.map[p]   = Unmapped,
                     !.rev[b]   = @ \ {p},
                     !.valid[b] = IF @ > 0 THEN @ - 1 ELSE @]
  IN IF LastValid(f, b) THEN RetireBlock(g, b) ELSE g

\* The overwrite commits after the replacement page is reserved.
CommitMapping(f, p, b, off) ==
  LET g == IF Mapped(f, p) THEN Invalidate(f, p) ELSE f
  IN [g EXCEPT !.map[p] = [blk |-> b, off |-> off],
               !.rev[b] = @ \cup {p}]

(***************************************************************************)
(* translate(page, is_write = true): the FTL states it can lead to, none   *)
(* when the capacity is exhausted (the controller then terminates).        *)
(***************************************************************************)
WriteInto(f, p, b) ==
  CommitMapping(ReservePage(f, SubarrayOf[p], b), p, b, f.used[b])

FtlWrites(f, p) ==
  LET s == SubarrayOf[p]
  IN IF f.active[s] # NoBlock
       THEN {WriteInto(f, p, f.active[s])}
       ELSE {WriteInto(OpenBlock(f, s, b), p, b) : b \in AllocatableBlocks(f, s)}

\* Erase tracking, driven by the controller.
IsBlockErased(f, b)    == b \in Block /\ f.erased[b]
MarkBlockErasing(f, b) == [f EXCEPT !.erased[b] = FALSE]
MarkBlockErased(f, b)  == [f EXCEPT !.erased[b] = TRUE]

(***************************************************************************)
(* The invariant of the FTL tables on which the correctness of writes      *)
(* rests: mapped pages lie below the cursor of an allocated block of their *)
(* own sub-array, no two of them coincide, the reverse index and the       *)
(* valid_pages counter agree with the mapping, the open block has room,    *)
(* and free blocks are dirty and hold nothing.                             *)
(***************************************************************************)
MappedPagesAllocated(f) ==
  \A p \in Page : Mapped(f, p) =>
    LET b == f.map[p].blk
    IN /\ b \in Block /\ b < f.next /\ b \notin f.free
       /\ f.map[p].off < f.used[b]
       /\ f.owner[b] = SubarrayOf[p]

MappedPagesDistinct(f) ==
  \A p, q \in Page : p # q /\ Mapped(f, p) => f.map[p] # f.map[q]

ReverseIndexExact(f) ==
  \A b \in Block :
    /\ f.rev[b] = {p \in Page : Mapped(f, p) /\ f.map[p].blk = b}
    /\ f.valid[b] = Cardinality(f.rev[b])

OpenBlocksHaveRoom(f) ==
  \A s \in Subarray : f.active[s] # NoBlock =>
    LET b == f.active[s]
    IN b < f.next /\ b \notin f.free /\ f.used[b] < PagesPerBlock /\ f.owner[b] = s

FreeBlocksDirty(f) == \A b \in f.free : b < f.next /\ ~f.erased[b]

FtlInv(f) ==
  /\ f \in FtlState
  /\ MappedPagesAllocated(f) /\ MappedPagesDistinct(f) /\ ReverseIndexExact(f)
  /\ OpenBlocksHaveRoom(f) /\ FreeBlocksDirty(f)
=============================================================================
