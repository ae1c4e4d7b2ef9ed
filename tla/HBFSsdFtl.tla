------------------------------ MODULE HBFSsdFtl ------------------------------
(***************************************************************************)
(* The flash translation layer in SSD media mode (hbf_ftl.cc), the         *)
(* comparison baseline of the repository: an overwrite leaves its block    *)
(* alone, and when an allocation finds no free block in its sub-array and  *)
(* few blocks are free, garbage collection moves the valid pages out of a  *)
(* victim block and erases it. The tables are those of HBFFtl.tla.         *)
(*                                                                         *)
(* Abstractions: erase counts are not kept, so with wear leveling any      *)
(* candidate can be the victim; blocks with equally few valid pages are    *)
(* chosen between freely, the code takes the first in key order.           *)
(***************************************************************************)
EXTENDS HBFFtl, FiniteSetsExt

CONSTANT Overprovisioning  \* hbf_overprovisioning, in percent

ASSUME SsdAssumption == Overprovisioning \in Nat

NeedsGc(f) ==
  f.next > 0 /\ 100 * Cardinality(f.free) < Overprovisioning * f.next

\* Neither free nor the open block of a sub-array.
Settled(f) ==
  {b \in Block : b < f.next /\ b \notin f.free /\ f.active[f.owner[b]] # b}

\* Settled blocks without a valid page become free, still to be erased.
Emptied(f) == {b \in Settled(f) : f.valid[b] = 0}

ReleaseEmptied(f) ==
  [f EXCEPT !.erased = [b \in Block |-> @[b] /\ b \notin Emptied(f)],
            !.free   = @ \cup Emptied(f)]

Candidates(f) == Settled(f) \ Emptied(f)
Victims(f) ==
  {b \in Candidates(f) : WearLeveling \/ \A c \in Candidates(f) : f.valid[b] <= f.valid[c]}

(***************************************************************************)
(* allocate_page_for_gc(): the open block of the page's sub-array, a free  *)
(* one of it, or a new one; it never collects itself.                      *)
(***************************************************************************)
\* A free block of any sub-array.
GcBlock_Bug(f, s) ==
  CASE f.active[s] # NoBlock -> f.active[s]
    [] f.active[s] = NoBlock /\ f.free # {} -> Min(f.free)
    [] OTHER -> IF f.next < MaxBlocks THEN f.next ELSE NoBlock

GcBlock(f, s) ==
  CASE f.active[s] # NoBlock -> f.active[s]
    [] f.active[s] = NoBlock /\ Reusable(f, s) # {} -> Min(Reusable(f, s))
    [] OTHER -> IF f.next < MaxBlocks THEN f.next ELSE NoBlock

\* The reverse index of the block the page moves to is forgotten.
Moved_Bug(f, p, b) ==
  [ReservePage(f, SubarrayOf[p], b) EXCEPT !.map[p] = [blk |-> b, off |-> f.used[b]]]

\* Page p goes to the next page of open block b. The tables of the victim
\* are left for the end of gc().
Moved(f, p, b) ==
  [ReservePage(f, SubarrayOf[p], b) EXCEPT
     !.map[p] = [blk |-> b, off |-> f.used[b]], !.rev[b] = @ \cup {p}]

\* The block stays in the free pool.
Opened_Bug(f, s, b) ==
  IF b = f.active[s] THEN f ELSE [OpenBlock(f, s, b) EXCEPT !.free = f.free]

Opened(f, s, b) == IF b = f.active[s] THEN f ELSE OpenBlock(f, s, b)

\* One page of the victim; after a failure nothing more is moved.
Relocate(r, p) ==
  LET s == SubarrayOf[p]
      b == GcBlock(r.ftl, s)
  IN IF r.failed THEN r
     ELSE IF b = NoBlock THEN [r EXCEPT !.failed = TRUE]
     ELSE [r EXCEPT !.ftl = Moved(Opened(r.ftl, s, b), p, b), !.copies = @ + 1]

NoGc(f) == [ftl |-> f, failed |-> FALSE, copies |-> 0, victim |-> NoBlock]

\* The pages that are mapped to the victim, in ascending order.
Relocated(f, v) ==
  LET below[n \in 0 .. NumPages] ==
        IF n = 0 THEN [NoGc(f) EXCEPT !.victim = v]
        ELSE IF n - 1 \in f.rev[v] /\ f.map[n - 1].blk = v THEN Relocate(below[n - 1], n - 1)
        ELSE below[n - 1]
  IN below[NumPages]

\* The victim is erased and free.
EraseVictim(f, v) ==
  [f EXCEPT !.erased[v] = TRUE, !.used[v] = 0, !.valid[v] = 0, !.rev[v] = {},
            !.free      = @ \cup {v}]

\* A collection that fails half way leaves the moved pages where they are and
\* the victim with the others; the capacity error it sets is not looked at.
Collected(r, v) == IF r.failed THEN r ELSE [r EXCEPT !.ftl = EraseVictim(@, v)]

\* gc() with victim v.
Gc(f, v) == Collected(Relocated(f, v), v)

GcOutcomes(f) ==
  LET g == ReleaseEmptied(f)
  IN IF Victims(f) = {} THEN {NoGc(g)} ELSE {Gc(g, v) : v \in Victims(f)}

(***************************************************************************)
(* translate(page, is_write = true). Allocation collects at most once,     *)
(* when its sub-array has no free block.                                   *)
(***************************************************************************)
Collections(f, s) ==
  IF f.active[s] = NoBlock /\ Reusable(f, s) = {} /\ NeedsGc(f)
    THEN GcOutcomes(f) ELSE {NoGc(f)}

\* allocate_block() has taken block b. When the collection opened a block in
\* the same sub-array, m_active_blocks keeps that one and b is left outside
\* both pools, until a later collection finds it empty.
Taken(f, s, b) ==
  LET g == OpenBlock(f, s, b)
  IN IF f.active[s] = NoBlock THEN g ELSE [g EXCEPT !.active[s] = f.active[s]]

\* An overwrite keeps the block, whatever is left in it.
SsdInvalidate(f, p) ==
  LET b == f.map[p].blk
  IN [f EXCEPT !.map[p] = Unmapped, !.rev[b] = @ \ {p},
               !.valid[b] = IF @ > 0 THEN @ - 1 ELSE @]

SsdWriteInto(f, p, b) ==
  LET g == ReservePage(f, SubarrayOf[p], b)
      h == IF Mapped(g, p) THEN SsdInvalidate(g, p) ELSE g
  IN [h EXCEPT !.map[p] = [blk |-> b, off |-> f.used[b]], !.rev[b] = @ \cup {p}]

\* What the FTL can become by the write of p after the collection c; empty
\* when the capacity is exhausted.
SsdWrites(f, c, p) ==
  LET s == SubarrayOf[p]
      g == c.ftl
  IN IF f.active[s] # NoBlock THEN {SsdWriteInto(f, p, f.active[s])}
     ELSE {SsdWriteInto(Taken(g, s, b), p, Taken(g, s, b).active[s]) :
             b \in AllocatableBlocks(g, s)}
=============================================================================
