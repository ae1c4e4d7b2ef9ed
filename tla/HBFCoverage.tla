----------------------------- MODULE HBFCoverage ------------------------------
(***************************************************************************)
(* Which bytes of a NAND page the buffered writes cover, and the byte      *)
(* counters derived from it. A write carries an address, a length and a    *)
(* mask of the bytes of the aligned window around the address; without a   *)
(* mask it covers the range from its address.                              *)
(*                                                                         *)
(* A page leaves the buffer at any time (flush_write_buffer_entry).        *)
(***************************************************************************)
EXTENDS Integers, FiniteSets

CONSTANTS
  PageSize,  \* hbf_page_size
  Window,    \* MAX_MEMORY_ACCESS_SIZE, 128
  Base,      \* hbf_base_addr
  Writes,    \* the writes that may arrive
  MaxBytes   \* bound on n_unique_write_bytes: no push from then on

Byte == 0 .. PageSize - 1

\* L2 sectors: whole windows fill a page, the base starts one, and a write
\* stays within a window.
ASSUME CoverageAssumption ==
  /\ {PageSize, Window} \subseteq Nat \ {0} /\ PageSize % Window = 0
  /\ MaxBytes \in Nat
  /\ Base \in Nat /\ Base % Window = 0
  /\ \A w \in Writes : /\ w.addr \in Nat /\ w.addr >= Base /\ w.size \in Nat
                       /\ w.mask \in SUBSET (0 .. Window - 1)
                       /\ (w.addr % Window) + w.size <= Window

VARIABLES
  covered,  \* m_covered of the buffered pages, as a function of the page
  count,    \* m_covered_bytes of the buffered pages
  unique,   \* n_unique_write_bytes
  flushed,  \* history: write_covered_bytes of the pages that left
  wrote,    \* history: the writes each buffered page has taken
  dead      \* fail_fast was called

coverageVars == <<covered, count, unique, flushed, wrote, dead>>

FromBase(w) == IF w.addr >= Base THEN w.addr - Base ELSE w.addr
WritePage(w) == FromBase(w) \div PageSize
WrittenPage  == {WritePage(w) : w \in Writes}

CoverageInit ==
  /\ covered = [p \in {} |-> {}] /\ count = [p \in {} |-> 0]
  /\ unique = 0 /\ flushed = 0 /\ wrote = [p \in {} |-> {}] /\ dead = FALSE

MaskBase(w) == FromBase(w) - (FromBase(w) % Window)

\* The bits of the mask are taken from the address on.
Bytes_Bug(w) ==
  IF w.mask # {} THEN {(FromBase(w) % PageSize) + i : i \in w.mask}
  ELSE (FromBase(w) % PageSize) .. (FromBase(w) % PageSize) + w.size - 1

\* The offsets in its page that a write covers.
Bytes(w) ==
  IF w.mask # {} THEN {(MaskBase(w) % PageSize) + i : i \in w.mask}
  ELSE (FromBase(w) % PageSize) .. (FromBase(w) % PageSize) + w.size - 1

Valid(w) ==
  /\ Bytes(w) \subseteq Byte
  /\ w.mask # {} => MaskBase(w) \div PageSize = WritePage(w)

\* The bytes no earlier write of the page has covered.
Added(w, before) == Bytes(w) \ before

\* The part of push() about a page's coverage.
PushWrite(w) ==
  LET p      == WritePage(w)
      before == IF p \in DOMAIN covered THEN covered[p] ELSE {}
      n      == IF p \in DOMAIN count THEN count[p] ELSE 0
      put(f, v) == [q \in DOMAIN f \cup {p} |-> IF q = p THEN v ELSE f[q]]
  IN /\ ~dead /\ unique < MaxBytes
     /\ IF Valid(w)
          THEN /\ covered' = put(covered, before \cup Bytes(w))
               /\ count' = put(count, n + Cardinality(Added(w, before)))
               /\ unique' = unique + Cardinality(Added(w, before))
               /\ wrote' = put(wrote, {w} \cup IF p \in DOMAIN wrote THEN wrote[p] ELSE {})
               /\ UNCHANGED <<flushed, dead>>
          ELSE dead' = TRUE /\ UNCHANGED <<covered, count, unique, flushed, wrote>>

\* The coverage of the page goes with it.
Without(f, p) == [q \in DOMAIN f \ {p} |-> f[q]]

Left(p) == Without(count, p)

Flush(p) ==
  /\ ~dead /\ p \in DOMAIN covered
  /\ flushed' = flushed + count[p]
  /\ covered' = Without(covered, p) /\ count' = Left(p)
  /\ wrote' = Without(wrote, p) /\ UNCHANGED <<unique, dead>>

\* full(): the page is flushed as complete.
Full(p) == PageSize # 0 /\ count[p] = PageSize

CoverageNext == (\E w \in Writes : PushWrite(w)) \/ (\E p \in WrittenPage : Flush(p))

CoverageSpec == CoverageInit /\ [][CoverageNext]_coverageVars

-----------------------------------------------------------------------------
\* The bytes a write names by its address.
Target(w) ==
  IF w.mask # {} THEN {w.addr - (w.addr % Window) + i : i \in w.mask}
  ELSE w.addr .. w.addr + w.size - 1

\* A page is taken as complete exactly when its writes named every byte of
\* it, however they overlap (hbf_controller.cc:328, 347).
FullIffAllWritten ==
  \A p \in DOMAIN covered :
    Full(p) <=> UNION {Target(w) : w \in wrote[p]}
                  = Base + p * PageSize .. Base + (p + 1) * PageSize - 1

\* The bytes of the buffered pages, each by its page and a number.
Buffered == UNION {{p} \X (1 .. count[p]) : p \in DOMAIN count}

\* The unique bytes counted so far are those of the buffered pages and of the
\* pages that were flushed: the write amplification derives from both.
UniqueBytesExact == unique = flushed + Cardinality(Buffered)

\* No write of an L2 sector ends the run with a coverage error.
NeverFatal == ~dead
\* Coverage, as pushes overlap, split at the borders of pages and are flushed
\* in between, is what the writes named, and no bookkeeping of it ends a run.
CoverageExact == FullIffAllWritten /\ UniqueBytesExact /\ NeverFatal
=============================================================================
