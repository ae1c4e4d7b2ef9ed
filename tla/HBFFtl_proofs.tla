---------------------------- MODULE HBFFtl_proofs ---------------------------
(***************************************************************************)
(* Lemmas about the FTL operators of HBFFtl.tla: every operation keeps     *)
(* FtlInv, and what a write leaves unchanged. HBFMedia_proofs.tla uses     *)
(* them for the media protocol.                                            *)
(***************************************************************************)
EXTENDS HBFFtl, SequenceLemmas

\* The record made of the tables of f: a record with exactly those fields.
AsRecord(f) ==
  [map |-> f.map, rev |-> f.rev, next |-> f.next, owner |-> f.owner,
   used |-> f.used, valid |-> f.valid, erased |-> f.erased,
   free |-> f.free, active |-> f.active]

LEMMA PagesFinite == IsFiniteSet(Page) /\ \A S \in SUBSET Page : IsFiniteSet(S)
  <1>1. IsFiniteSet(Page)
    BY FS_Interval, FtlAssumption DEF Page
  <1>2. QED
    BY <1>1, FS_Subset

\* A block that holds a page has a positive count of valid pages.
LEMMA ValidCountsPages ==
  ASSUME NEW f, FtlInv(f), NEW b \in Block
  PROVE  /\ f.valid[b] \in Nat
         /\ f.valid[b] = 0 <=> f.rev[b] = {}
         /\ f.valid[b] = 1 <=> \E p : f.rev[b] = {p}
  <1>1. f.rev[b] \in SUBSET Page /\ f.valid[b] = Cardinality(f.rev[b])
    BY DEF FtlInv, FtlState, ReverseIndexExact
  <1>2. IsFiniteSet(f.rev[b])
    BY <1>1, PagesFinite
  <1>3. QED
    BY <1>1, <1>2, FS_CardinalityType, FS_EmptySet, FS_Singleton

LEMMA FtlInitInv == FtlInv(FtlInit)
  <1>1. FtlInit \in FtlState
    BY FtlAssumption DEF FtlInit, FtlState, Unmapped, Addr, NoBlock, Block
  <1>2. ReverseIndexExact(FtlInit)
    BY FS_EmptySet DEF FtlInit, ReverseIndexExact, Mapped
  <1>3. /\ MappedPagesAllocated(FtlInit) /\ MappedPagesDistinct(FtlInit)
        /\ OpenBlocksHaveRoom(FtlInit) /\ FreeBlocksDirty(FtlInit)
    BY DEF FtlInit, MappedPagesAllocated, MappedPagesDistinct,
           OpenBlocksHaveRoom, FreeBlocksDirty, Mapped
  <1>4. QED
    BY <1>1, <1>2, <1>3 DEF FtlInv

-----------------------------------------------------------------------------
(***************************************************************************)
(* Opening a block keeps the invariant and moves no page.                  *)
(***************************************************************************)
OpenFrame(f, s, b, h) ==
  /\ b \in Block /\ h.active[s] = b
  /\ h.map = f.map
  /\ f.next <= h.next
  /\ \A c \in Block : h.erased[c] =>
       (f.erased[c] /\ f.used[c] = h.used[c]) \/ c >= f.next
  /\ \A c \in Block : ~h.erased[c] => ~f.erased[c]

LEMMA OpenBlockInv ==
  ASSUME NEW f, FtlInv(f), NEW s \in Subarray, f.active[s] = NoBlock,
         NEW b \in AllocatableBlocks(f, s),
         NEW h, h = OpenBlock(f, s, b)
  PROVE  FtlInv(h) /\ OpenFrame(f, s, b, h)
  <1>1. f \in FtlState
    BY DEF FtlInv
  <1>2. b \in Block /\ (b = f.next \/ (b \in f.free /\ b < f.next /\ ~f.erased[b]))
    BY <1>1 DEF AllocatableBlocks, Reusable, FtlInv, FreeBlocksDirty, FtlState
  <1>3. /\ h.map = f.map /\ h.rev = f.rev
        /\ h.next = IF b = f.next THEN f.next + 1 ELSE f.next
        /\ h.owner = [f.owner EXCEPT ![b] = s]
        /\ h.used = [f.used EXCEPT ![b] = 0]
        /\ h.valid = [f.valid EXCEPT ![b] = 0]
        /\ h.erased = [f.erased EXCEPT ![b] = (b = f.next) \/ @]
        /\ h.free = f.free \ {b}
        /\ h.active = [f.active EXCEPT ![s] = b]
    BY <1>1 DEF OpenBlock, FtlState
  <1>4. h \in FtlState
    <2>1. /\ h.map \in [Page -> Addr] /\ h.rev \in [Block -> SUBSET Page]
          /\ h.next \in 0 .. MaxBlocks
          /\ h.owner \in [Block -> Subarray]
          /\ h.used \in [Block -> 0 .. PagesPerBlock]
          /\ h.valid \in [Block -> Nat]
          /\ h.free \in SUBSET Block
          /\ h.active \in [Subarray -> Block \cup {NoBlock}]
      <3>1. h.map \in [Page -> Addr] /\ h.rev \in [Block -> SUBSET Page]
        BY <1>1, <1>3 DEF FtlState
      <3>2. h.next \in 0 .. MaxBlocks
        BY <1>1, <1>2, <1>3, FtlAssumption DEF FtlState, Block
      <3>3. 0 \in Nat /\ 0 \in 0 .. PagesPerBlock
        BY FtlAssumption
      <3>4. /\ h.used \in [Block -> 0 .. PagesPerBlock]
            /\ h.valid \in [Block -> Nat]
        BY <1>1, <1>2, <1>3, <3>3 DEF FtlState
      <3>5. h.owner \in [Block -> Subarray] /\ h.free \in SUBSET Block
        BY <1>1, <1>2, <1>3 DEF FtlState
      <3>6. h.active \in [Subarray -> Block \cup {NoBlock}]
        BY <1>1, <1>2, <1>3 DEF FtlState
      <3>7. QED
        BY <3>1, <3>2, <3>4, <3>5, <3>6
    <2>2. h.erased \in [Block -> BOOLEAN]
      BY <1>1, <1>2, <1>3 DEF FtlState
    <2>3. h = AsRecord(h)
      BY <1>1 DEF OpenBlock, FtlState, AsRecord
    <2>4. QED
      BY <2>1, <2>2, <2>3 DEF FtlState, AsRecord
  <1>5. \A p \in Page : Mapped(f, p) => f.map[p].blk # b
    BY <1>1, <1>2 DEF FtlInv, MappedPagesAllocated, FtlState, Block
  <1>6. \A t \in Subarray : f.active[t] # b
    BY <1>1, <1>2 DEF FtlInv, OpenBlocksHaveRoom, FtlState, Block, NoBlock
  <1>7. MappedPagesAllocated(h)
    BY <1>1, <1>2, <1>3, <1>5 DEF FtlInv, MappedPagesAllocated, FtlState, Block, Mapped
  <1>8. MappedPagesDistinct(h)
    BY <1>3 DEF FtlInv, MappedPagesDistinct, Mapped
  <1>9. ReverseIndexExact(h)
    <2>1. f.rev[b] = {}
      BY <1>2, <1>5 DEF FtlInv, ReverseIndexExact
    <2>2. h.valid[b] = Cardinality(h.rev[b])
      BY <1>1, <1>2, <1>3, <2>1, FS_EmptySet DEF FtlState
    <2>3. \A c \in Block : h.valid[c] = Cardinality(h.rev[c])
      BY <1>1, <1>2, <1>3, <2>2 DEF FtlInv, ReverseIndexExact, FtlState
    <2>4. QED
      BY <1>3, <2>3 DEF FtlInv, ReverseIndexExact, Mapped
  <1>10. OpenBlocksHaveRoom(h)
    <2>1. ASSUME NEW t \in Subarray, h.active[t] # NoBlock
          PROVE  LET c == h.active[t]
                 IN /\ c < h.next /\ c \notin h.free
                    /\ h.used[c] < PagesPerBlock /\ h.owner[c] = t
      <3>1. CASE t = s
        <4>1. h.active[t] = b /\ h.used[b] = 0 /\ h.owner[b] = s /\ b \notin h.free
          BY <1>1, <1>2, <1>3, <3>1 DEF FtlState
        <4>2. b < h.next /\ 0 < PagesPerBlock
          BY <1>1, <1>2, <1>3, FtlAssumption DEF FtlState, Block
        <4>3. QED
          BY <3>1, <4>1, <4>2
      <3>2. CASE t # s
        <4> DEFINE c == f.active[t]
        <4>1. h.active[t] = c /\ c # NoBlock /\ c # b /\ c \in Block
          BY <1>1, <1>3, <1>6, <2>1, <3>2 DEF FtlState
        <4>2. /\ c < f.next /\ c \notin f.free
              /\ f.used[c] < PagesPerBlock /\ f.owner[c] = t
          BY <4>1 DEF FtlInv, OpenBlocksHaveRoom
        <4>3. h.used[c] = f.used[c] /\ h.owner[c] = f.owner[c] /\ c \notin h.free
          BY <1>1, <1>3, <4>1, <4>2 DEF FtlState
        <4>4. c < h.next
          BY <1>1, <1>3, <4>1, <4>2, FtlAssumption DEF FtlState, Block
        <4>5. QED
          BY <4>1, <4>2, <4>3, <4>4
      <3>3. QED
        BY <3>1, <3>2
    <2>2. QED
      BY <2>1 DEF OpenBlocksHaveRoom
  <1>11. FreeBlocksDirty(h)
    BY <1>1, <1>2, <1>3 DEF FtlInv, FreeBlocksDirty, FtlState, Block
  <1>12. /\ h.active[s] = b
         /\ f.next <= h.next
         /\ \A c \in Block : h.erased[c] =>
              (f.erased[c] /\ f.used[c] = h.used[c]) \/ c >= f.next
         /\ \A c \in Block : ~h.erased[c] => ~f.erased[c]
    BY <1>1, <1>2, <1>3 DEF FtlState, Block
  <1>13. QED
    BY <1>2, <1>3, <1>4, <1>7, <1>8, <1>9, <1>10, <1>11, <1>12
    DEF FtlInv, OpenFrame

-----------------------------------------------------------------------------
(***************************************************************************)
(* What writing page p to the open block b does, table by table. The block *)
(* that held p before is retired when p was its last valid page, which it  *)
(* cannot be when that block is b itself.                                  *)
(***************************************************************************)
OldBlock(h, p) == IF Mapped(h, p) THEN h.map[p].blk ELSE NoBlock

Retires(h, p, b) ==
  OldBlock(h, p) # NoBlock /\ OldBlock(h, p) # b /\ h.valid[OldBlock(h, p)] = 1

WriteEffect(h, p, b, g) ==
  /\ g = AsRecord(g)
  /\ g.map = [h.map EXCEPT ![p] = [blk |-> b, off |-> h.used[b]]]
  /\ g.next = h.next /\ g.owner = h.owner
  /\ g.used = [h.used EXCEPT ![b] = @ + 1]
  /\ g.rev \in [Block -> SUBSET Page]
  /\ \A c \in Block :
       g.rev[c] = IF c = b THEN h.rev[c] \cup {p}
                  ELSE IF c = OldBlock(h, p) THEN h.rev[c] \ {p}
                  ELSE h.rev[c]
  /\ g.valid \in [Block -> Nat]
  /\ \A c \in Block :
       g.valid[c] = IF c = b /\ c # OldBlock(h, p) THEN h.valid[c] + 1
                    ELSE IF c # b /\ c = OldBlock(h, p) THEN h.valid[c] - 1
                    ELSE h.valid[c]
  /\ g.erased \in [Block -> BOOLEAN]
  /\ \A c \in Block :
       g.erased[c] <=> h.erased[c] /\ ~(Retires(h, p, b) /\ c = OldBlock(h, p))
  /\ g.free = IF Retires(h, p, b) THEN h.free \cup {OldBlock(h, p)} ELSE h.free
  /\ g.active \in [Subarray -> Block \cup {NoBlock}]
  /\ \A t \in Subarray :
       g.active[t] = IF \/ t = SubarrayOf[p] /\ h.used[b] + 1 = PagesPerBlock
                        \/ Retires(h, p, b) /\ h.active[t] = OldBlock(h, p)
                       THEN NoBlock ELSE h.active[t]

LEMMA WriteIntoTables ==
  ASSUME NEW h, FtlInv(h), NEW p \in Page, NEW b \in Block,
         h.active[SubarrayOf[p]] = b,
         NEW g, g = WriteInto(h, p, b)
  PROVE  WriteEffect(h, p, b, g)
  <1> DEFINE s == SubarrayOf[p]
             old == OldBlock(h, p)
  <1>0. PICK r : r = ReservePage(h, s, b)
    OBVIOUS
  <1>1. h \in FtlState /\ s \in Subarray /\ b # NoBlock
    BY FtlAssumption DEF FtlInv, Block, NoBlock
  <1>2. /\ r.map = h.map /\ r.rev = h.rev /\ r.next = h.next
        /\ r.owner = h.owner /\ r.erased = h.erased /\ r.free = h.free
        /\ r.used = [h.used EXCEPT ![b] = @ + 1]
        /\ r.valid = [h.valid EXCEPT ![b] = @ + 1]
        /\ r.active = [h.active EXCEPT ![s] =
                         IF h.used[b] + 1 = PagesPerBlock THEN NoBlock ELSE @]
    BY <1>0, <1>1 DEF ReservePage, FtlState
  <1>3. r = AsRecord(r)
    BY <1>0, <1>1 DEF ReservePage, FtlState, AsRecord
  <1>4. /\ h.map \in [Page -> Addr] /\ h.rev \in [Block -> SUBSET Page]
        /\ h.used \in [Block -> 0 .. PagesPerBlock] /\ h.valid \in [Block -> Nat]
        /\ h.erased \in [Block -> BOOLEAN]
        /\ h.active \in [Subarray -> Block \cup {NoBlock}]
    BY <1>1 DEF FtlState
  <1>5. CASE ~Mapped(h, p)
    <2>1. old = NoBlock /\ ~Retires(h, p, b) /\ ~Mapped(r, p)
      BY <1>2, <1>5 DEF OldBlock, Retires, Mapped
    <2>2. \A c \in Block : c # old
      BY <2>1, FtlAssumption DEF Block, NoBlock
    <2>3. g = [r EXCEPT !.map[p] = [blk |-> b, off |-> h.used[b]],
                        !.rev[b] = @ \cup {p}]
      BY <1>0, <2>1 DEF WriteInto, CommitMapping
    <2>4. g = AsRecord(g) /\ g.erased = h.erased /\ g.free = h.free
      BY <1>2, <1>3, <2>3 DEF AsRecord
    <2>5. /\ g.map = [h.map EXCEPT ![p] = [blk |-> b, off |-> h.used[b]]]
          /\ g.next = h.next /\ g.owner = h.owner
          /\ g.used = [h.used EXCEPT ![b] = @ + 1]
          /\ g.rev = [h.rev EXCEPT ![b] = @ \cup {p}]
          /\ g.valid = [h.valid EXCEPT ![b] = @ + 1]
          /\ g.active = r.active
      BY <1>2, <1>3, <2>3 DEF AsRecord
    <2>6. g.active \in [Subarray -> Block \cup {NoBlock}]
      BY <1>1, <1>2, <1>4, <2>5
    <2>7. \A t \in Subarray :
            g.active[t] = IF t = s /\ h.used[b] + 1 = PagesPerBlock
                            THEN NoBlock ELSE h.active[t]
      BY <1>2, <1>4, <2>5
    <2>8. g.rev \in [Block -> SUBSET Page] /\ g.valid \in [Block -> Nat]
      BY <1>4, <2>5
    <2>9. \A c \in Block : /\ g.rev[c] = IF c = b THEN h.rev[c] \cup {p} ELSE h.rev[c]
                           /\ g.valid[c] = IF c = b THEN h.valid[c] + 1 ELSE h.valid[c]
      BY <1>4, <2>5, ZenonT(60)
    <2>10. QED
      BY <1>4, <2>1, <2>2, <2>4, <2>5, <2>6, <2>7, <2>8, <2>9 DEF WriteEffect
  <1>6. CASE Mapped(h, p)
    <2>1. /\ old = h.map[p].blk /\ Mapped(r, p)
          /\ old \in Block /\ old \notin h.free /\ old # NoBlock
      BY <1>2, <1>6, FtlAssumption
      DEF OldBlock, Mapped, FtlInv, MappedPagesAllocated, Block, NoBlock
    <2>2. p \in h.rev[old]
      BY <1>6, <2>1 DEF FtlInv, ReverseIndexExact
    <2>3. h.valid[old] \in Nat \ {0} /\ h.valid[b] \in Nat
      BY <2>1, <2>2, ValidCountsPages
    <2>4. LastValid(r, old) <=> Retires(h, p, b)
      <3>1. r.valid[old] = IF old = b THEN h.valid[old] + 1 ELSE h.valid[old]
        BY <1>1, <1>2, <2>1 DEF FtlState
      <3>2. QED
        BY <1>2, <2>1, <2>3, <3>1 DEF LastValid, Retires
    <2>5. PICK d : d = [r EXCEPT !.map[p] = Unmapped, !.rev[old] = @ \ {p},
                                 !.valid[old] = IF @ > 0 THEN @ - 1 ELSE @]
      OBVIOUS
    <2>6. PICK e : e = Invalidate(r, p)
      OBVIOUS
    <2>7. e = IF Retires(h, p, b) THEN RetireBlock(d, old) ELSE d
      <3>1. r.map[p].blk = old
        BY <1>2, <2>1
      <3>2. e = IF LastValid(r, old)
                  THEN RetireBlock([r EXCEPT !.map[p] = Unmapped, !.rev[old] = @ \ {p},
                                             !.valid[old] = IF @ > 0 THEN @ - 1 ELSE @], old)
                  ELSE [r EXCEPT !.map[p] = Unmapped, !.rev[old] = @ \ {p},
                                 !.valid[old] = IF @ > 0 THEN @ - 1 ELSE @]
        BY <2>6, <3>1 DEF Invalidate
      <3>3. QED
        BY <2>4, <2>5, <3>2
    <2>8. g = [e EXCEPT !.map[p] = [blk |-> b, off |-> h.used[b]],
                        !.rev[b] = @ \cup {p}]
      BY <1>0, <2>1, <2>6 DEF WriteInto, CommitMapping
    <2>9. /\ d.map = [h.map EXCEPT ![p] = Unmapped]
          /\ d.rev = [h.rev EXCEPT ![old] = @ \ {p}]
          /\ d.next = h.next /\ d.owner = h.owner /\ d.used = r.used
          /\ d.erased = h.erased /\ d.free = h.free /\ d.active = r.active
      BY <1>1, <1>2, <1>3, <2>1, <2>5 DEF FtlState, AsRecord
    <2>10. d.valid = [r.valid EXCEPT ![old] = @ - 1]
      BY <1>1, <1>2, <1>3, <2>1, <2>3, <2>5 DEF FtlState, AsRecord
    <2>11. d = AsRecord(d)
      BY <1>3, <2>5 DEF AsRecord
    <2>12. /\ e = AsRecord(e) /\ e.map = d.map /\ e.rev = d.rev /\ e.next = d.next
           /\ e.owner = d.owner /\ e.used = d.used /\ e.valid = d.valid
      BY <2>7, <2>11 DEF RetireBlock, AsRecord
    <2>13. e.free = IF Retires(h, p, b) THEN h.free \cup {old} ELSE h.free
      BY <2>7, <2>9, <2>11 DEF RetireBlock, AsRecord
    <2>14. /\ e.erased \in [Block -> BOOLEAN]
           /\ \A c \in Block :
                e.erased[c] <=> h.erased[c] /\ ~(Retires(h, p, b) /\ c = old)
      <3>1. e.erased = IF Retires(h, p, b) THEN [d.erased EXCEPT ![old] = FALSE]
                                           ELSE d.erased
        BY <2>7, <2>11 DEF RetireBlock, AsRecord
      <3>2. CASE Retires(h, p, b)
        BY <1>4, <2>1, <2>9, <3>1, <3>2
      <3>3. CASE ~Retires(h, p, b)
        BY <1>4, <2>1, <2>9, <3>1, <3>3
      <3>4. QED
        BY <3>2, <3>3
    <2>15. /\ e.active \in [Subarray -> Block \cup {NoBlock}]
           /\ \A t \in Subarray :
                e.active[t] = IF \/ t = s /\ h.used[b] + 1 = PagesPerBlock
                                 \/ Retires(h, p, b) /\ h.active[t] = old
                                THEN NoBlock ELSE h.active[t]
      <3>1. \A t \in Subarray : h.active[t] = old => t = h.owner[old]
        BY <2>1 DEF FtlInv, OpenBlocksHaveRoom
      <3>2. h.owner[old] \in Subarray
        BY <1>1, <2>1 DEF FtlState
      <3>3. e.active = IF Retires(h, p, b)
                         THEN [r.active EXCEPT ![h.owner[old]] =
                                 IF @ = old THEN NoBlock ELSE @]
                         ELSE r.active
        BY <2>7, <2>9, <2>11 DEF RetireBlock, AsRecord
      <3>4. r.active \in [Subarray -> Block \cup {NoBlock}]
        BY <1>1, <1>2, <1>4
      <3>5. \A t \in Subarray :
              r.active[t] = IF t = s /\ h.used[b] + 1 = PagesPerBlock
                              THEN NoBlock ELSE h.active[t]
        BY <1>1, <1>2, <1>4
      <3>6. CASE Retires(h, p, b)
        BY <2>1, <3>1, <3>2, <3>3, <3>4, <3>5, <3>6
      <3>7. CASE ~Retires(h, p, b)
        BY <3>3, <3>4, <3>5, <3>7
      <3>8. QED
        BY <3>6, <3>7
    <2>16. /\ g = AsRecord(g) /\ g.next = h.next /\ g.owner = h.owner
           /\ g.used = r.used /\ g.valid = d.valid /\ g.erased = e.erased
           /\ g.free = e.free /\ g.active = e.active
           /\ g.map = [d.map EXCEPT ![p] = [blk |-> b, off |-> h.used[b]]]
           /\ g.rev = [d.rev EXCEPT ![b] = @ \cup {p}]
      <3>1. e = AsRecord(e)
        BY <2>12
      <3>2. /\ g = AsRecord(g) /\ g.next = e.next /\ g.owner = e.owner
            /\ g.used = e.used /\ g.valid = e.valid /\ g.erased = e.erased
            /\ g.free = e.free /\ g.active = e.active
            /\ g.map = [e.map EXCEPT ![p] = [blk |-> b, off |-> h.used[b]]]
            /\ g.rev = [e.rev EXCEPT ![b] = @ \cup {p}]
        BY <2>8, <3>1 DEF AsRecord
      <3>3. QED
        BY <2>9, <2>12, <3>2
    <2>17. g.map = [h.map EXCEPT ![p] = [blk |-> b, off |-> h.used[b]]]
      BY <1>4, <2>9, <2>16
    <2>18. g.rev \in [Block -> SUBSET Page]
      BY <1>4, <2>1, <2>9, <2>16, SMTT(30)
    <2>19. ASSUME NEW c \in Block
           PROVE  g.rev[c] = IF c = b THEN h.rev[c] \cup {p}
                             ELSE IF c = old THEN h.rev[c] \ {p} ELSE h.rev[c]
      <3>1. d.rev[c] = IF c = old THEN h.rev[c] \ {p} ELSE h.rev[c]
        BY <1>4, <2>1, <2>9
      <3>2. g.rev[c] = IF c = b THEN d.rev[c] \cup {p} ELSE d.rev[c]
        BY <1>4, <2>1, <2>9, <2>16
      <3>3. (h.rev[c] \ {p}) \cup {p} = h.rev[c] \cup {p}
        OBVIOUS
      <3>4. QED
        BY <3>1, <3>2, <3>3
    <2>20. /\ g.valid \in [Block -> Nat]
           /\ \A c \in Block :
                g.valid[c] = IF c = b /\ c # old THEN h.valid[c] + 1
                             ELSE IF c # b /\ c = old THEN h.valid[c] - 1
                             ELSE h.valid[c]
      <3>1. /\ r.valid \in [Block -> Nat]
            /\ \A c \in Block : r.valid[c] = IF c = b THEN h.valid[c] + 1 ELSE h.valid[c]
        BY <1>2, <1>4
      <3>2. /\ d.valid \in [Block -> Int]
            /\ \A c \in Block : d.valid[c] = IF c = old THEN r.valid[c] - 1 ELSE r.valid[c]
        BY <2>1, <2>10, <3>1
      <3>3. \A c \in Block :
              g.valid[c] = IF c = b /\ c # old THEN h.valid[c] + 1
                           ELSE IF c # b /\ c = old THEN h.valid[c] - 1
                           ELSE h.valid[c]
        BY <1>4, <2>16, <3>1, <3>2
      <3>4. \A c \in Block : g.valid[c] \in Nat
        BY <1>4, <2>3, <3>3
      <3>5. QED
        BY <2>16, <3>2, <3>3, <3>4
    <2>21. g.used = [h.used EXCEPT ![b] = @ + 1]
      BY <1>2, <2>16
    <2>22. /\ g.erased \in [Block -> BOOLEAN]
           /\ \A c \in Block :
                g.erased[c] <=> h.erased[c] /\ ~(Retires(h, p, b) /\ c = old)
      BY <2>14, <2>16
    <2>23. /\ g.active \in [Subarray -> Block \cup {NoBlock}]
           /\ \A t \in Subarray :
                g.active[t] = IF \/ t = s /\ h.used[b] + 1 = PagesPerBlock
                                 \/ Retires(h, p, b) /\ h.active[t] = old
                                THEN NoBlock ELSE h.active[t]
      BY <2>15, <2>16
    <2>24. g.free = IF Retires(h, p, b) THEN h.free \cup {old} ELSE h.free
      BY <2>13, <2>16
    <2>25. QED
      BY <2>16, <2>17, <2>18, <2>19, <2>20, <2>21, <2>22, <2>23, <2>24
      DEF WriteEffect
  <1>7. QED
    BY <1>5, <1>6

(***************************************************************************)
(* Writing a page keeps the invariant; no other page moves, the new        *)
(* address lies at or above the old cursor of its block, and a block is    *)
(* only marked dirty when it is left without pages.                        *)
(***************************************************************************)
WriteFrame(h, p, b, g) ==
  /\ g.map = [h.map EXCEPT ![p] = [blk |-> b, off |-> h.used[b]]]
  /\ g.next = h.next
  /\ \A c \in Block : g.erased[c] => h.erased[c] /\ h.used[c] <= g.used[c]
  /\ \A c \in Block : ~g.erased[c] =>
       ~h.erased[c] \/ \A q \in Page : Mapped(g, q) => g.map[q].blk # c

LEMMA WriteIntoInv ==
  ASSUME NEW h, FtlInv(h), NEW p \in Page, NEW b \in Block,
         h.active[SubarrayOf[p]] = b,
         NEW g, g = WriteInto(h, p, b)
  PROVE  FtlInv(g) /\ WriteFrame(h, p, b, g)
  <1> DEFINE s == SubarrayOf[p]
             old == OldBlock(h, p)
             last == Retires(h, p, b)
  <1>0. WriteEffect(h, p, b, g)
    BY WriteIntoTables
  <1>1. /\ h \in FtlState /\ s \in Subarray /\ b # NoBlock
        /\ b < h.next /\ b \notin h.free /\ h.used[b] < PagesPerBlock
        /\ h.owner[b] = s
    BY FtlAssumption DEF FtlInv, OpenBlocksHaveRoom, Block, NoBlock
  <1>2. /\ h.map \in [Page -> Addr] /\ h.rev \in [Block -> SUBSET Page]
        /\ h.used \in [Block -> 0 .. PagesPerBlock] /\ h.valid \in [Block -> Nat]
        /\ h.erased \in [Block -> BOOLEAN] /\ h.next \in 0 .. MaxBlocks
        /\ h.owner \in [Block -> Subarray] /\ h.free \in SUBSET Block
        /\ h.active \in [Subarray -> Block \cup {NoBlock}]
    BY <1>1 DEF FtlState
  <1>3. /\ g = AsRecord(g)
        /\ g.map = [h.map EXCEPT ![p] = [blk |-> b, off |-> h.used[b]]]
        /\ g.next = h.next /\ g.owner = h.owner
        /\ g.used = [h.used EXCEPT ![b] = @ + 1]
        /\ g.rev \in [Block -> SUBSET Page] /\ g.valid \in [Block -> Nat]
        /\ g.erased \in [Block -> BOOLEAN]
        /\ g.active \in [Subarray -> Block \cup {NoBlock}]
    BY <1>0 DEF WriteEffect
  <1>4. /\ \A c \in Block :
              g.rev[c] = IF c = b THEN h.rev[c] \cup {p}
                         ELSE IF c = old THEN h.rev[c] \ {p} ELSE h.rev[c]
        /\ \A c \in Block :
              g.valid[c] = IF c = b /\ c # old THEN h.valid[c] + 1
                           ELSE IF c # b /\ c = old THEN h.valid[c] - 1
                           ELSE h.valid[c]
    BY <1>0 DEF WriteEffect
  <1>5. /\ \A c \in Block : g.erased[c] <=> h.erased[c] /\ ~(last /\ c = old)
        /\ g.free = IF last THEN h.free \cup {old} ELSE h.free
        /\ \A t \in Subarray :
              g.active[t] = IF \/ t = s /\ h.used[b] + 1 = PagesPerBlock
                               \/ last /\ h.active[t] = old
                              THEN NoBlock ELSE h.active[t]
    BY <1>0 DEF WriteEffect
  <1>6. Mapped(h, p) =>
          /\ old = h.map[p].blk /\ old \in Block /\ old # NoBlock
          /\ old < h.next /\ p \in h.rev[old]
    BY FtlAssumption
    DEF OldBlock, FtlInv, MappedPagesAllocated, ReverseIndexExact, Block, NoBlock
  <1>7. ~Mapped(h, p) => old = NoBlock /\ ~last
    BY DEF OldBlock, Retires
  <1>8. last => /\ Mapped(h, p) /\ old # b
                /\ \A q \in Page : q # p /\ Mapped(h, q) => h.map[q].blk # old
    <2>1. HAVE last
    <2>2. Mapped(h, p) /\ old # b /\ h.valid[old] = 1
      BY <1>7, <2>1 DEF Retires
    <2>3. h.rev[old] = {p}
      BY <1>6, <2>2, ValidCountsPages
    <2>4. QED
      BY <1>6, <2>2, <2>3 DEF FtlInv, ReverseIndexExact
  <1>9. /\ Mapped(g, p) /\ g.map[p].blk = b /\ g.map[p].off = h.used[b]
        /\ \A q \in Page : q # p => (Mapped(g, q) <=> Mapped(h, q)) /\ g.map[q] = h.map[q]
    BY <1>1, <1>2, <1>3 DEF Mapped, Unmapped
  <1>10. g \in FtlState
    <2>0. [blk |-> b, off |-> h.used[b]] \in Addr
      BY <1>2, FtlAssumption DEF Addr, Block
    <2>1. g.map \in [Page -> Addr] /\ g.used \in [Block -> 0 .. PagesPerBlock]
      BY <1>1, <1>2, <1>3, <2>0, FtlAssumption
    <2>2. g.free \in SUBSET Block
      BY <1>2, <1>5, <1>6, <1>8
    <2>3. QED
      BY <1>2, <1>3, <2>1, <2>2 DEF FtlState, AsRecord
  <1>11. MappedPagesAllocated(g)
    <2>1. ASSUME NEW q \in Page, Mapped(g, q)
          PROVE  LET c == g.map[q].blk
                 IN /\ c \in Block /\ c < g.next /\ c \notin g.free
                    /\ g.map[q].off < g.used[c]
                    /\ g.owner[c] = SubarrayOf[q]
      <3>1. CASE q = p
        BY <1>1, <1>2, <1>3, <1>5, <1>8, <1>9, <3>1
      <3>2. CASE q # p
        <4>1. /\ h.map[q].blk \in Block /\ h.map[q].blk < h.next
              /\ h.map[q].blk \notin h.free
              /\ h.map[q].off < h.used[h.map[q].blk]
              /\ h.owner[h.map[q].blk] = SubarrayOf[q]
              /\ h.map[q].off \in Nat
          BY <1>2, <1>9, <2>1, <3>2 DEF FtlInv, MappedPagesAllocated, Addr
        <4>2. h.map[q].blk \notin g.free
          BY <1>5, <1>8, <1>9, <2>1, <3>2, <4>1
        <4>3. QED
          BY <1>2, <1>3, <1>9, <3>2, <4>1, <4>2
      <3>3. QED
        BY <3>1, <3>2
    <2>2. QED
      BY <2>1 DEF MappedPagesAllocated
  <1>12. MappedPagesDistinct(g)
    <2>1. ASSUME NEW q \in Page, q # p, Mapped(h, q)
          PROVE  h.map[q].blk = b => h.map[q].off # h.used[b]
      BY <1>2, <2>1 DEF FtlInv, MappedPagesAllocated, Addr
    <2>2. ASSUME NEW q \in Page, NEW r \in Page, q # r, Mapped(g, q)
          PROVE  g.map[q] # g.map[r]
      <3>1. CASE q # p /\ r # p
        BY <1>9, <2>2, <3>1 DEF FtlInv, MappedPagesDistinct
      <3>2. CASE q = p
        <4>1. CASE Mapped(h, r)
          BY <1>9, <2>1, <2>2, <3>2, <4>1
        <4>2. CASE ~Mapped(h, r)
          BY <1>9, <2>2, <3>2, <4>2 DEF Mapped
        <4>3. QED
          BY <4>1, <4>2
      <3>3. CASE r = p
        BY <1>9, <2>1, <2>2, <3>3
      <3>4. QED
        BY <3>1, <3>2, <3>3
    <2>3. QED
      BY <2>2 DEF MappedPagesDistinct
  <1>13. ReverseIndexExact(g)
    <2>1. ASSUME NEW c \in Block
          PROVE  g.rev[c] = {q \in Page : Mapped(g, q) /\ g.map[q].blk = c}
      <3>1. h.rev[c] = {q \in Page : Mapped(h, q) /\ h.map[q].blk = c}
        BY DEF FtlInv, ReverseIndexExact
      <3>2. p \in h.rev[c] => Mapped(h, p) /\ c = old
        BY <1>6, <3>1
      <3>3. g.rev[c] \in SUBSET Page
        BY <1>3
      <3>4. p \in g.rev[c] <=> c = b
        BY <1>4, <3>2
      <3>5. \A q \in Page : q # p => (q \in g.rev[c] <=> q \in h.rev[c])
        <4>1. g.rev[c] = IF c = b THEN h.rev[c] \cup {p}
                         ELSE IF c = old THEN h.rev[c] \ {p} ELSE h.rev[c]
          BY <1>4
        <4>2. QED
          BY <4>1
      <3>6. QED
        BY <1>9, <3>1, <3>3, <3>4, <3>5
    <2>2. ASSUME NEW c \in Block
          PROVE  g.valid[c] = Cardinality(g.rev[c])
      <3>1. IsFiniteSet(h.rev[c]) /\ h.valid[c] = Cardinality(h.rev[c])
        BY <1>2, PagesFinite DEF FtlInv, ReverseIndexExact
      <3>2. p \in h.rev[c] <=> Mapped(h, p) /\ c = old
        BY <1>6 DEF FtlInv, ReverseIndexExact
      <3>3. c # NoBlock
        BY FtlAssumption DEF Block, NoBlock
      <3>4. /\ Cardinality(h.rev[c] \cup {p}) =
                 IF p \in h.rev[c] THEN h.valid[c] ELSE h.valid[c] + 1
            /\ Cardinality(h.rev[c] \ {p}) =
                 IF p \in h.rev[c] THEN h.valid[c] - 1 ELSE h.valid[c]
        BY <3>1, FS_AddElement, FS_RemoveElement, ZenonT(60)
      <3>5. p \in h.rev[c] <=> c = old
        BY <1>7, <3>2, <3>3
      <3>6. CASE c # b /\ c # old
        BY <1>4, <3>1, <3>6
      <3>7. CASE c = b \/ c = old
        BY <1>4, <3>4, <3>5, <3>7
      <3>8. QED
        BY <3>6, <3>7
    <2>3. QED
      BY <2>1, <2>2 DEF ReverseIndexExact
  <1>14. OpenBlocksHaveRoom(g)
    <2>1. ASSUME NEW t \in Subarray, g.active[t] # NoBlock
          PROVE  LET c == g.active[t]
                 IN /\ c < g.next /\ c \notin g.free
                    /\ g.used[c] < PagesPerBlock /\ g.owner[c] = t
      <3>1. /\ g.active[t] = h.active[t] /\ h.active[t] \in Block
            /\ ~(last /\ h.active[t] = old)
            /\ t = s => h.used[b] + 1 # PagesPerBlock
        BY <1>2, <1>5, <2>1
      <3>2. /\ h.active[t] < h.next /\ h.active[t] \notin h.free
            /\ h.used[h.active[t]] < PagesPerBlock
            /\ h.owner[h.active[t]] = t
        BY <2>1, <3>1 DEF FtlInv, OpenBlocksHaveRoom
      <3>3. h.active[t] = b => t = s
        BY <1>1, <3>2
      <3>4. h.active[t] \notin g.free
        BY <1>5, <3>1, <3>2
      <3>5. g.used[h.active[t]] < PagesPerBlock
        <4>1. CASE h.active[t] = b
          BY <1>1, <1>2, <1>3, <3>1, <3>3, <4>1, FtlAssumption
        <4>2. CASE h.active[t] # b
          BY <1>2, <1>3, <3>1, <3>2, <4>2
        <4>3. QED
          BY <4>1, <4>2
      <3>6. QED
        BY <1>3, <3>1, <3>2, <3>4, <3>5
    <2>2. QED
      BY <2>1 DEF OpenBlocksHaveRoom
  <1>15. FreeBlocksDirty(g)
    BY <1>2, <1>3, <1>5, <1>6, <1>8 DEF FtlInv, FreeBlocksDirty
  <1>16. \A c \in Block : g.erased[c] => h.erased[c] /\ h.used[c] <= g.used[c]
    BY <1>2, <1>3, <1>5, FtlAssumption
  <1>17. \A c \in Block : ~g.erased[c] =>
           ~h.erased[c] \/ \A q \in Page : Mapped(g, q) => g.map[q].blk # c
    BY <1>5, <1>8, <1>9
  <1>18. QED
    BY <1>3, <1>10, <1>11, <1>12, <1>13, <1>14, <1>15, <1>16, <1>17
    DEF FtlInv, WriteFrame

(***************************************************************************)
(* translate(page, is_write = true) as a whole, from any state f that      *)
(* satisfies the invariant to any result g.                                *)
(***************************************************************************)
WriteStep(f, p, g) ==
  /\ Mapped(g, p)
  /\ \A q \in Page : q # p => g.map[q] = f.map[q]
  /\ f.next <= g.next
  /\ \A c \in Block : g.erased[c] =>
       (f.erased[c] /\ f.used[c] <= g.used[c]) \/ c >= f.next
  /\ \A c \in Block : ~g.erased[c] =>
       ~f.erased[c] \/ \A q \in Page : Mapped(g, q) => g.map[q].blk # c
  /\ LET c == g.map[p].blk
     IN g.erased[c] =>
          (f.erased[c] /\ f.used[c] <= g.map[p].off) \/ c >= f.next

LEMMA FtlWriteStep ==
  ASSUME NEW f, FtlInv(f), NEW p \in Page, NEW g \in FtlWrites(f, p)
  PROVE  FtlInv(g) /\ WriteStep(f, p, g)
  <1> DEFINE s == SubarrayOf[p]
  <1>1. s \in Subarray
    BY FtlAssumption
  <1>2. PICK h \in FtlState, b \in Block :
          /\ FtlInv(h) /\ h.active[s] = b /\ g = WriteInto(h, p, b)
          /\ h.map = f.map /\ f.next <= h.next
          /\ \A c \in Block : h.erased[c] =>
               (f.erased[c] /\ f.used[c] = h.used[c]) \/ c >= f.next
          /\ \A c \in Block : ~h.erased[c] => ~f.erased[c]
    <2>1. CASE f.active[s] # NoBlock
      <3>1. g = WriteInto(f, p, f.active[s]) /\ f.active[s] \in Block
        BY <1>1, <2>1 DEF FtlWrites, FtlInv, FtlState
      <3>2. f.next <= f.next /\ f \in FtlState
        BY FtlAssumption DEF FtlInv, FtlState
      <3>3. QED
        BY <3>1, <3>2
    <2>2. CASE f.active[s] = NoBlock
      <3>1. PICK b \in AllocatableBlocks(f, s) :
              g = WriteInto(OpenBlock(f, s, b), p, b)
        BY <2>2 DEF FtlWrites
      <3>2. PICK h : h = OpenBlock(f, s, b)
        OBVIOUS
      <3>3. FtlInv(h) /\ OpenFrame(f, s, b, h)
        BY <1>1, <2>2, <3>2, OpenBlockInv
      <3>4. QED
        BY <3>1, <3>2, <3>3 DEF OpenFrame, FtlInv
    <2>3. QED
      BY <2>1, <2>2
  <1>3. /\ FtlInv(g)
        /\ g.map = [h.map EXCEPT ![p] = [blk |-> b, off |-> h.used[b]]]
        /\ g.next = h.next
        /\ \A c \in Block : g.erased[c] => h.erased[c] /\ h.used[c] <= g.used[c]
        /\ \A c \in Block : ~g.erased[c] =>
             ~h.erased[c] \/ \A q \in Page : Mapped(g, q) => g.map[q].blk # c
    <2>1. FtlInv(g) /\ WriteFrame(h, p, b, g)
      BY <1>2, WriteIntoInv
    <2>2. QED
      BY <2>1 DEF WriteFrame
  <1>4. /\ f \in FtlState /\ h \in FtlState /\ g \in FtlState
        /\ h.map \in [Page -> Addr] /\ b # NoBlock
    <2>1. f \in FtlState /\ h \in FtlState /\ g \in FtlState
      BY <1>2, <1>3 DEF FtlInv
    <2>2. b # NoBlock
      BY FtlAssumption DEF Block, NoBlock
    <2>3. QED
      BY <2>1, <2>2 DEF FtlState
  <1>5. /\ Mapped(g, p) /\ g.map[p].blk = b /\ g.map[p].off = h.used[b]
        /\ \A q \in Page : q # p => g.map[q] = f.map[q]
    BY <1>2, <1>3, <1>4 DEF Mapped, Unmapped
  <1>6. \A c \in Block : f.used[c] \in Nat /\ h.used[c] \in Nat /\ g.used[c] \in Nat
    BY <1>4, FtlAssumption DEF FtlState
  <1>7. QED
    BY <1>2, <1>3, <1>4, <1>5, <1>6 DEF WriteStep

-----------------------------------------------------------------------------
(***************************************************************************)
(* Capacity. A block that is in use and not open holds a page, and every   *)
(* block a sub-array ever allocated has a slot of its own: one of the      *)
(* sub-array's pages, or the one open block. A sub-array that has to       *)
(* create a block has none open and none to reuse, so each of its blocks   *)
(* can take the slot of a page it holds.                                   *)
(***************************************************************************)
Allocated(f) == {b \in Block : b < f.next}

PageSlot(p) == <<"page", p>>
OpenSlot(s) == <<"open", s>>
Slots       == {PageSlot(p) : p \in Page} \cup {OpenSlot(s) : s \in Subarray}

SlotOf(x, s) == x = OpenSlot(s) \/ \E p \in Page : x = PageSlot(p) /\ SubarrayOf[p] = s

OneToOne(F) == \A x, y \in DOMAIN F : F[x] = F[y] => x = y

BlocksHoldPages(f) ==
  \A b \in Allocated(f) : b \notin f.free /\ f.active[f.owner[b]] # b => f.rev[b] # {}

BlocksHaveSlots(f) ==
  \E F \in [Allocated(f) -> Slots] :
    OneToOne(F) /\ \A b \in Allocated(f) : SlotOf(F[b], f.owner[b])

Capacity(f) == BlocksHoldPages(f) /\ BlocksHaveSlots(f)

LEMMA CapacityInit == Capacity(FtlInit)
  <1>1. Allocated(FtlInit) = {}
    BY FtlAssumption DEF Allocated, FtlInit, Block
  <1>2. BlocksHaveSlots(FtlInit)
    <2> DEFINE F == [b \in {} |-> OpenSlot(b)]
    <2>1. F \in [{} -> Slots] /\ OneToOne(F)
      BY DEF OneToOne
    <2> HIDE DEF F
    <2>2. QED
      BY <1>1, <2>1 DEF BlocksHaveSlots
  <1>3. QED
    BY <1>1, <1>2 DEF Capacity, BlocksHoldPages

\* Without a block to open or to reuse, the open slot is not needed.
LEMMA PagesTakeSlots ==
  ASSUME NEW f, FtlInv(f), Capacity(f), NEW s \in Subarray,
         f.active[s] = NoBlock, Reusable(f, s) = {}
  PROVE  \E F \in [Allocated(f) -> Slots \ {OpenSlot(s)}] :
           OneToOne(F) /\ \A b \in Allocated(f) : SlotOf(F[b], f.owner[b])
  <1>1. PICK G \in [Allocated(f) -> Slots] :
          OneToOne(G) /\ \A b \in Allocated(f) : SlotOf(G[b], f.owner[b])
    BY DEF Capacity, BlocksHaveSlots
  <1>2. ASSUME NEW b \in Allocated(f), f.owner[b] = s PROVE f.rev[b] # {}
    <2>1. b \notin f.free /\ b # NoBlock
      BY <1>2, FtlAssumption DEF Reusable, Allocated, Block, NoBlock
    <2>2. QED
      BY <1>2, <2>1 DEF Capacity, BlocksHoldPages
  <1> DEFINE held(b) == CHOOSE p \in Page : p \in f.rev[b]
  <1>3. ASSUME NEW b \in Allocated(f), f.owner[b] = s
        PROVE  /\ held(b) \in Page /\ Mapped(f, held(b)) /\ f.map[held(b)].blk = b
               /\ SubarrayOf[held(b)] = s
    <2>1. b \in Block /\ f.rev[b] = {p \in Page : Mapped(f, p) /\ f.map[p].blk = b}
      BY <1>3 DEF FtlInv, ReverseIndexExact, Allocated
    <2>2. \E p \in Page : p \in f.rev[b]
      BY <1>2, <1>3, <2>1
    <2>3. held(b) \in Page /\ held(b) \in f.rev[b]
      BY <2>2
    <2> HIDE DEF held
    <2>4. QED
      BY <1>3, <2>1, <2>3 DEF FtlInv, MappedPagesAllocated
  <1> DEFINE F == [b \in Allocated(f) |->
                     IF f.owner[b] = s THEN PageSlot(held(b)) ELSE G[b]]
  <1> HIDE DEF held
  <1>4. ASSUME NEW b \in Allocated(f)
        PROVE  /\ SlotOf(F[b], f.owner[b]) /\ F[b] \in Slots /\ F[b] # OpenSlot(s)
    <2>1. CASE f.owner[b] = s
      <3>1. F[b] = PageSlot(held(b))
        BY <2>1
      <3>2. QED
        BY <1>3, <2>1, <3>1 DEF SlotOf, Slots, PageSlot, OpenSlot
    <2>2. CASE f.owner[b] # s
      <3>1. F[b] = G[b]
        BY <2>2
      <3>2. G[b] # OpenSlot(s)
        BY <1>1, <2>2 DEF SlotOf, PageSlot, OpenSlot
      <3>3. QED
        BY <1>1, <3>1, <3>2
    <2>3. QED
      BY <2>1, <2>2
  <1>5. ASSUME NEW b \in Allocated(f), NEW c \in Allocated(f), F[b] = F[c]
        PROVE  b = c
    <2>1. f.owner[b] = f.owner[c]
      BY <1>4, <1>5 DEF SlotOf, PageSlot, OpenSlot
    <2>2. CASE f.owner[b] = s
      <3>1. held(b) = held(c)
        BY <1>5, <2>1, <2>2 DEF PageSlot
      <3>2. QED
        BY <1>3, <2>1, <2>2, <3>1
    <2>3. CASE f.owner[b] # s
      BY <1>1, <1>5, <2>1, <2>3 DEF OneToOne
    <2>4. QED
      BY <2>2, <2>3
  <1>6. F \in [Allocated(f) -> Slots \ {OpenSlot(s)}] /\ OneToOne(F)
    BY <1>4, <1>5 DEF OneToOne
  <1> HIDE DEF F
  <1>7. QED
    BY <1>4, <1>6

LEMMA OpenBlockCapacity ==
  ASSUME NEW f, FtlInv(f), Capacity(f), NEW s \in Subarray, f.active[s] = NoBlock,
         NEW b \in AllocatableBlocks(f, s),
         NEW h, h = OpenBlock(f, s, b)
  PROVE  Capacity(h)
  <1>1. f \in FtlState
    BY DEF FtlInv
  <1>2. /\ h.rev = f.rev /\ h.owner = [f.owner EXCEPT ![b] = s]
        /\ h.next = IF b = f.next THEN f.next + 1 ELSE f.next
        /\ h.free = f.free \ {b} /\ h.active = [f.active EXCEPT ![s] = b]
    BY <1>1 DEF OpenBlock, FtlState
  <1>3. /\ b \in Block /\ f.owner \in [Block -> Subarray]
        /\ f.active \in [Subarray -> Block \cup {NoBlock}]
        /\ f.next \in Nat /\ \A c \in Block : c \in Int
    BY <1>1, FtlAssumption, SMTT(30) DEF AllocatableBlocks, Reusable, FtlState, Block
  <1>4. \/ b = f.next /\ Reusable(f, s) = {}
        \/ b \in Reusable(f, s) /\ b < f.next /\ f.owner[b] = s
    BY DEF AllocatableBlocks, Reusable, FtlInv, FreeBlocksDirty
  <1>5. Allocated(h) = Allocated(f) \cup {b}
    BY <1>2, <1>3, <1>4 DEF Allocated
  <1>6. BlocksHoldPages(h)
    <2>1. ASSUME NEW c \in Allocated(h), c \notin h.free, h.active[h.owner[c]] # c
          PROVE  h.rev[c] # {}
      <3>1. c # b
        BY <1>2, <1>3, <2>1
      <3>2. c \in Allocated(f) /\ c \in Block /\ c # NoBlock
        BY <1>5, <2>1, <3>1, FtlAssumption DEF Allocated, Block, NoBlock
      <3>3. c \notin f.free /\ f.active[f.owner[c]] # c
        BY <1>2, <1>3, <2>1, <3>1, <3>2
      <3>4. QED
        BY <1>2, <3>2, <3>3 DEF Capacity, BlocksHoldPages
    <2>2. QED
      BY <2>1 DEF BlocksHoldPages
  <1>7. BlocksHaveSlots(h)
    <2>1. CASE b = f.next /\ Reusable(f, s) = {}
      <3>1. PICK G \in [Allocated(f) -> Slots \ {OpenSlot(s)}] :
              OneToOne(G) /\ \A c \in Allocated(f) : SlotOf(G[c], f.owner[c])
        BY <2>1, PagesTakeSlots
      <3> DEFINE F == [c \in Allocated(h) |-> IF c = b THEN OpenSlot(s) ELSE G[c]]
      <3>2. b \notin Allocated(f)
        BY <1>3, <2>1 DEF Allocated
      <3>3. OpenSlot(s) \in Slots
        BY DEF Slots
      <3>4. F \in [Allocated(h) -> Slots]
        BY <1>5, <3>1, <3>3
      <3>5. OneToOne(F)
        <4>1. ASSUME NEW c \in Allocated(h), NEW d \in Allocated(h), F[c] = F[d]
              PROVE  c = d
          <5>1. \A x \in Allocated(f) : G[x] # OpenSlot(s)
            BY <3>1
          <5>2. QED
            BY <1>5, <3>1, <4>1, <5>1 DEF OneToOne
        <4>2. DOMAIN F = Allocated(h)
          OBVIOUS
        <4> HIDE DEF F
        <4>3. QED
          BY <4>1, <4>2 DEF OneToOne
      <3>6. \A c \in Allocated(h) : SlotOf(F[c], h.owner[c])
        <4>1. ASSUME NEW c \in Allocated(h) PROVE SlotOf(F[c], h.owner[c])
          <5>1. CASE c = b
            BY <1>2, <1>3, <5>1 DEF SlotOf
          <5>2. CASE c # b
            <6>1. c \in Allocated(f) /\ F[c] = G[c]
              BY <1>5, <5>2
            <6>2. h.owner[c] = f.owner[c]
              BY <1>2, <1>3, <5>2, <6>1 DEF Allocated
            <6>3. QED
              BY <3>1, <6>1, <6>2
          <5>3. QED
            BY <5>1, <5>2
        <4>2. QED
          BY <4>1
      <3> HIDE DEF F
      <3>7. QED
        BY <3>4, <3>5, <3>6 DEF BlocksHaveSlots
    <2>2. CASE b \in Reusable(f, s) /\ b < f.next /\ f.owner[b] = s
      <3>1. Allocated(h) = Allocated(f)
        BY <1>3, <1>5, <2>2 DEF Allocated
      <3>2. h.owner = f.owner
        BY <1>2, <1>3, <2>2
      <3>3. QED
        BY <3>1, <3>2 DEF Capacity, BlocksHaveSlots
    <2>3. QED
      BY <1>4, <2>1, <2>2
  <1>8. QED
    BY <1>6, <1>7 DEF Capacity

LEMMA WriteIntoCapacity ==
  ASSUME NEW h, FtlInv(h), Capacity(h), NEW p \in Page, NEW b \in Block,
         h.active[SubarrayOf[p]] = b,
         NEW g, g = WriteInto(h, p, b)
  PROVE  Capacity(g)
  <1>1. WriteEffect(h, p, b, g) /\ h \in FtlState
    BY WriteIntoTables DEF FtlInv
  <1>2. g.owner = h.owner /\ Allocated(g) = Allocated(h)
    BY <1>1 DEF WriteEffect, Allocated
  <1>3. BlocksHaveSlots(g)
    BY <1>2 DEF Capacity, BlocksHaveSlots
  <1>4. ASSUME NEW c \in Allocated(g), c \notin g.free, g.active[g.owner[c]] # c
        PROVE  g.rev[c] # {}
    <2>1. c \in Block /\ c # NoBlock /\ c \in Allocated(h) /\ h.owner[c] \in Subarray
      <3>1. c \in Allocated(h)
        BY <1>2, <1>4
      <3>2. c \in Block
        BY <3>1 DEF Allocated
      <3>3. c # NoBlock
        BY <3>2, FtlAssumption DEF Block, NoBlock
      <3>4. h.owner[c] \in Subarray
        BY <1>1, <3>2 DEF FtlState
      <3>5. QED
        BY <3>1, <3>2, <3>3, <3>4
    <2>2. g.rev[c] = IF c = b THEN h.rev[c] \cup {p}
                     ELSE IF c = OldBlock(h, p) THEN h.rev[c] \ {p}
                     ELSE h.rev[c]
      BY <1>1, <2>1 DEF WriteEffect
    <2>3. CASE c = b
      BY <2>2, <2>3
    <2>4. CASE c # b /\ c = OldBlock(h, p)
      <3>1. ~Retires(h, p, b)
        BY <1>1, <1>4, <2>4 DEF WriteEffect
      <3>2. h.valid[c] # 1
        BY <2>1, <2>4, <3>1 DEF Retires
      <3>3. p \in h.rev[c]
        BY <2>1, <2>4 DEF OldBlock, FtlInv, ReverseIndexExact
      <3>4. h.rev[c] # {p}
        BY <2>1, <3>2, ValidCountsPages
      <3>5. QED
        BY <2>2, <2>4, <3>3, <3>4
    <2>5. CASE c # b /\ c # OldBlock(h, p)
      <3>1. c \notin h.free
        BY <1>1, <1>4 DEF WriteEffect
      <3>2. h.active[h.owner[c]] # c
        <4>1. g.active[h.owner[c]] =
                IF \/ h.owner[c] = SubarrayOf[p] /\ h.used[b] + 1 = PagesPerBlock
                   \/ Retires(h, p, b) /\ h.active[h.owner[c]] = OldBlock(h, p)
                  THEN NoBlock ELSE h.active[h.owner[c]]
          BY <1>1, <2>1 DEF WriteEffect
        <4>2. g.active[h.owner[c]] # c
          BY <1>2, <1>4
        <4>3. QED
          BY <2>5, <4>1, <4>2
      <3>3. QED
        BY <2>1, <2>2, <2>5, <3>1, <3>2 DEF Capacity, BlocksHoldPages
    <2>6. QED
      BY <2>3, <2>4, <2>5
  <1>5. QED
    BY <1>3, <1>4 DEF Capacity, BlocksHoldPages

LEMMA FtlWriteCapacity ==
  ASSUME NEW f, FtlInv(f), Capacity(f), NEW p \in Page, NEW g \in FtlWrites(f, p)
  PROVE  Capacity(g)
  <1> DEFINE s == SubarrayOf[p]
  <1>1. s \in Subarray
    BY FtlAssumption
  <1>2. CASE f.active[s] # NoBlock
    <2>1. g = WriteInto(f, p, f.active[s]) /\ f.active[s] \in Block
      BY <1>1, <1>2 DEF FtlWrites, FtlInv, FtlState
    <2>2. QED
      BY <2>1, WriteIntoCapacity
  <1>3. CASE f.active[s] = NoBlock
    <2>1. PICK b \in AllocatableBlocks(f, s) : g = WriteInto(OpenBlock(f, s, b), p, b)
      BY <1>3 DEF FtlWrites
    <2>2. PICK h : h = OpenBlock(f, s, b)
      OBVIOUS
    <2>3. FtlInv(h) /\ OpenFrame(f, s, b, h)
      BY <1>1, <1>3, <2>2, OpenBlockInv
    <2>4. Capacity(h)
      BY <1>1, <1>3, <2>2, OpenBlockCapacity
    <2>5. b \in Block /\ h.active[SubarrayOf[p]] = b
      BY <2>3 DEF OpenFrame
    <2>6. QED
      BY <2>1, <2>2, <2>3, <2>4, <2>5, WriteIntoCapacity
  <1>4. QED
    BY <1>2, <1>3

LEMMA SlotsCounted ==
  IsFiniteSet(Slots) /\ Cardinality(Slots) = NumPages + Cardinality(Subarray)
  <1> DEFINE P == {PageSlot(p) : p \in Page}
             S == {OpenSlot(s) : s \in Subarray}
  <1>1. IsFiniteSet(Page) /\ Cardinality(Page) = NumPages
    <2>1. NumPages \in Nat /\ 0 \in Int /\ NumPages - 1 \in Int
      BY FtlAssumption
    <2>2. QED
      BY <2>1, FS_Interval DEF Page
  <1>2. IsFiniteSet(P) /\ Cardinality(P) = NumPages
    <2> DEFINE F == [p \in Page |-> PageSlot(p)]
    <2>1. F \in Bijection(Page, P)
      BY DEF Bijection, Injection, Surjection, IsInjective, PageSlot
    <2>2. ExistsBijection(Page, P)
      BY <2>1 DEF ExistsBijection
    <2>3. QED
      BY <1>1, <2>2, FS_Bijection
  <1>3. IsFiniteSet(S) /\ Cardinality(S) = Cardinality(Subarray)
    <2> DEFINE F == [s \in Subarray |-> OpenSlot(s)]
    <2>1. F \in Bijection(Subarray, S)
      BY DEF Bijection, Injection, Surjection, IsInjective, OpenSlot
    <2>2. ExistsBijection(Subarray, S)
      BY <2>1 DEF ExistsBijection
    <2>3. QED
      BY <2>2, FtlAssumption, FS_Bijection
  <1>4. P \cap S = {}
    BY DEF PageSlot, OpenSlot
  <1>5. Cardinality(Subarray) \in Nat
    BY FtlAssumption, FS_CardinalityType
  <1>6. Slots = P \cup S
    BY DEF Slots
  <1> HIDE DEF P, S
  <1>7. IsFiniteSet(P \cup S) /\ Cardinality(P \cup S) = NumPages + Cardinality(Subarray) - 0
    BY <1>2, <1>3, <1>4, FS_Union, FS_EmptySet
  <1>8. QED
    BY <1>5, <1>6, <1>7, FtlAssumption

\* One block per page and one more per sub-array are enough for every write.
LEMMA CapacityLeft ==
  ASSUME NEW f, FtlInv(f), Capacity(f), MaxBlocks >= NumPages + Cardinality(Subarray),
         NEW p \in Page
  PROVE  FtlWrites(f, p) # {}
  <1> DEFINE s == SubarrayOf[p]
  <1>1. s \in Subarray /\ f \in FtlState
    BY FtlAssumption DEF FtlInv
  <1>2. CASE f.active[s] # NoBlock
    BY <1>2 DEF FtlWrites
  <1>3. CASE f.active[s] = NoBlock
    <2>1. AllocatableBlocks(f, s) # {}
      <3>1. CASE Reusable(f, s) # {}
        <4>1. Reusable(f, s) \subseteq Nat
          BY <1>1, FtlAssumption DEF Reusable, FtlState, Block
        <4>2. \E b \in Reusable(f, s) : \A c \in Reusable(f, s) : b <= c
          BY <3>1, <4>1, LeastElement
        <4>3. QED
          BY <3>1, <4>2 DEF AllocatableBlocks
      <3>2. CASE Reusable(f, s) = {}
        <4> DEFINE T == Slots \ {OpenSlot(s)}
        <4>1. PICK F \in [Allocated(f) -> T] : OneToOne(F)
          BY <1>1, <1>3, <3>2, PagesTakeSlots
        <4>2. F \in Injection(Allocated(f), T)
          BY <4>1 DEF OneToOne, Injection, IsInjective
        <4>3. /\ IsFiniteSet(T)
              /\ Cardinality(T) = (NumPages + Cardinality(Subarray)) - 1
          <5> DEFINE x == OpenSlot(s)
                     n == NumPages + Cardinality(Subarray)
          <5>1. x \in Slots
            BY <1>1 DEF Slots
          <5>2. IsFiniteSet(Slots) /\ Cardinality(Slots) = n
            BY SlotsCounted
          <5> HIDE DEF x, n
          <5>3. /\ IsFiniteSet(Slots \ {x})
                /\ Cardinality(Slots \ {x})
                     = IF x \in Slots THEN Cardinality(Slots) - 1 ELSE Cardinality(Slots)
            BY <5>2, FS_RemoveElement
          <5>4. IsFiniteSet(Slots \ {x}) /\ Cardinality(Slots \ {x}) = n - 1
            BY <5>1, <5>2, <5>3
          <5>5. QED
            BY <5>4 DEF x, n
        <4> HIDE DEF T
        <4>4. Cardinality(Allocated(f)) <= (NumPages + Cardinality(Subarray)) - 1
          BY <4>2, <4>3, FS_Injection
        <4>5. /\ MaxBlocks \in Nat /\ NumPages \in Nat /\ Cardinality(Subarray) \in Nat
              /\ f.next \in 0 .. MaxBlocks
          BY <1>1, FtlAssumption, FS_CardinalityType DEF FtlState
        <4>6. f.next # MaxBlocks
          <5>1. ASSUME f.next = MaxBlocks PROVE FALSE
            <6>1. Allocated(f) = 0 .. MaxBlocks - 1
              BY <4>5, <5>1 DEF Allocated, Block
            <6>2. Cardinality(Allocated(f)) = MaxBlocks
              BY <4>5, <6>1, FS_Interval
            <6>3. QED
              BY <4>4, <4>5, <6>2
          <5>2. QED
            BY <5>1
        <4>7. f.next \in Block
          BY <4>5, <4>6 DEF Block
        <4>8. QED
          BY <3>2, <4>7 DEF AllocatableBlocks
      <3>3. QED
        BY <3>1, <3>2
    <2>2. QED
      BY <1>3, <2>1 DEF FtlWrites
  <1>4. QED
    BY <1>2, <1>3

=============================================================================
