--------------------------- MODULE HBFMedia_proofs --------------------------
(***************************************************************************)
(* The properties of the media protocol of HBFMedia.tla for every number   *)
(* of pages, blocks and sub-arrays: MediaInv is inductive and implies      *)
(* them. At the end the same for SSD mode (HBFSsdMedia.tla), whose         *)
(* inductive invariant is SsdMediaInv.                                     *)
(***************************************************************************)
EXTENDS HBFSsdMedia, HBFFtl_proofs

LEMMA PseudoAddrAbove ==
  ASSUME NEW p \in Page
  PROVE  PseudoAddr(p) \in Addr /\ PseudoAddr(p).blk >= MaxBlocks
  <1>1. p \in Nat /\ PagesPerBlock \in Nat \ {0} /\ MaxBlocks \in Nat
    BY FtlAssumption DEF Page
  <1>2. p \div PagesPerBlock \in Nat /\ p % PagesPerBlock \in Nat
    BY <1>1
  <1>3. QED
    BY <1>1, <1>2 DEF PseudoAddr, Addr

LEMMA ReadAddrType ==
  ASSUME NEW f \in FtlState, NEW p \in Page
  PROVE  ReadAddr(f, p) \in Addr
  BY PseudoAddrAbove DEF ReadAddr, FtlState

\* The types of the FTL tables that the proofs below use.
LEMMA TableTypes ==
  ASSUME NEW f \in FtlState
  PROVE  /\ f.map \in [Page -> Addr] /\ f.used \in [Block -> 0 .. PagesPerBlock]
         /\ f.erased \in [Block -> BOOLEAN] /\ f.next \in 0 .. MaxBlocks
         /\ f.owner \in [Block -> Subarray] /\ f.active \in [Subarray -> Block \cup {NoBlock}]
  BY DEF FtlState

-----------------------------------------------------------------------------
LEMMA InitInv == MediaInit => MediaInv
  <1> SUFFICES ASSUME MediaInit PROVE MediaInv
    OBVIOUS
  <1>1. FtlInv(ftl) /\ ftl \in FtlState
    BY FtlInitInv DEF MediaInit, FtlInv
  <1>2. MediaTypeOK
    BY <1>1 DEF MediaInit, MediaTypeOK, Stage, Unmapped, Addr, NoBlock
  <1>3. \A p \in Page : ~Mapped(ftl, p) /\ flight[p] = "none"
    BY DEF MediaInit, FtlInit, Mapped
  <1>4. \A b \in Block : nand[b] = {}
    BY DEF MediaInit
  <1>5. QED
    BY <1>1, <1>2, <1>3, <1>4
    DEF MediaInv, AddressFresh, WritesAreMapped, OneOperationPerSubarray,
        UnusedBlocksBlank, ErasedBlankAboveCursor, DirtyBlocksUnwritten,
        ErasingBlocksBlank, ProgramOnErasedPage, WrittenPagesDurable, OnMedia

(***************************************************************************)
(* The steps that leave the FTL and the media alone.                       *)
(***************************************************************************)
LEMMA QuietStep ==
  ASSUME MediaInv, NEW p \in Page,
         \/ AdmitRead(p) \/ StartRead(p) \/ CacheHit(p) \/ MediaDone(p) \/ Retire(p)
  PROVE  MediaInv'
  <1>1. /\ ftl \in FtlState /\ flight \in [Page -> Stage]
        /\ phys \in [Page -> Addr] /\ nand \in [Block -> SUBSET Nat]
    BY DEF MediaInv, MediaTypeOK
  <1>2. UNCHANGED <<ftl, nand>>
    BY DEF AdmitRead, StartRead, CacheHit, MediaDone, Retire
  <1>3. /\ flight' \in [Page -> Stage]
        /\ \A q \in Page : q # p => flight'[q] = flight[q]
    BY <1>1 DEF AdmitRead, StartRead, CacheHit, MediaDone, Retire, Stage
  <1>4. /\ flight[p] \notin {"write", "erasing"}
        /\ flight'[p] \notin {"write", "erasing", "programming"}
        /\ OnMedia(flight'[p]) => SubarrayIdle(SubarrayOf[p])
    BY <1>1 DEF AdmitRead, StartRead, CacheHit, MediaDone, Retire, OnMedia
  <1>5. /\ phys' \in [Page -> Addr]
        /\ \A q \in Page : q # p => phys'[q] = phys[q]
        /\ flight'[p] # "none" => phys'[p] = ReadAddr(ftl, p)
    <2>1. CASE AdmitRead(p)
      BY <1>1, <2>1, ReadAddrType DEF AdmitRead
    <2>2. CASE StartRead(p) \/ CacheHit(p) \/ MediaDone(p)
      BY <1>1, <2>2 DEF StartRead, CacheHit, MediaDone, MediaInv, AddressFresh
    <2>3. CASE Retire(p)
      <3>1. Unmapped \in Addr
        BY DEF Unmapped, Addr, NoBlock
      <3>2. QED
        BY <1>1, <2>3, <3>1 DEF Retire
    <2>4. QED
      BY <2>1, <2>2, <2>3
  <1>6. FtlInv(ftl')
    BY <1>2 DEF MediaInv
  <1>7. MediaTypeOK'
    BY <1>1, <1>2, <1>3, <1>5 DEF MediaTypeOK
  <1>8. AddressFresh' /\ WritesAreMapped'
    BY <1>2, <1>3, <1>4, <1>5 DEF MediaInv, AddressFresh, WritesAreMapped
  <1>9. OneOperationPerSubarray'
    BY <1>3, <1>4, FtlAssumption
    DEF MediaInv, OneOperationPerSubarray, SubarrayIdle, OnMedia
  <1>10. UnusedBlocksBlank' /\ ErasedBlankAboveCursor'
    BY <1>2 DEF MediaInv, UnusedBlocksBlank, ErasedBlankAboveCursor
  <1>11. DirtyBlocksUnwritten' /\ WrittenPagesDurable'
    BY <1>2, <1>3, <1>4
    DEF MediaInv, DirtyBlocksUnwritten, WrittenPagesDurable, Unwritten
  <1>12. ErasingBlocksBlank'
    BY <1>2, <1>3, <1>4 DEF MediaInv, ErasingBlocksBlank
  <1>13. ProgramOnErasedPage'
    BY <1>2, <1>3, <1>4, <1>5 DEF MediaInv, ProgramOnErasedPage
  <1>14. QED
    BY <1>6, <1>7, <1>8, <1>9, <1>10, <1>11, <1>12, <1>13 DEF MediaInv

(***************************************************************************)
(* A queued write has its page mapped to its block, and shares the block   *)
(* only with pages of its own sub-array.                                   *)
(***************************************************************************)
LEMMA QueuedBlock ==
  ASSUME MediaInv, NEW p \in Page,
         flight[p] \in {"write", "erasing", "programming"}
  PROVE  LET b == ftl.map[p].blk
         IN /\ Mapped(ftl, p) /\ phys[p] = ftl.map[p]
            /\ b \in Block /\ b < ftl.next /\ b \notin ftl.free
            /\ ftl.map[p].off < ftl.used[b]
            /\ \A q \in Page : Mapped(ftl, q) /\ ftl.map[q].blk = b
                                 => SubarrayOf[q] = SubarrayOf[p]
  <1>1. Mapped(ftl, p) /\ phys[p] = ftl.map[p]
    BY DEF MediaInv, WritesAreMapped, AddressFresh, ReadAddr
  <1>2. QED
    BY <1>1 DEF MediaInv, FtlInv, MappedPagesAllocated

(***************************************************************************)
(* Marking a block erased or dirty keeps the FTL tables in order, as long  *)
(* as no free block is marked erased.                                      *)
(***************************************************************************)
LEMMA MarkEraseInv ==
  ASSUME NEW f, FtlInv(f), NEW b \in Block, b \notin f.free,
         NEW g, g = MarkBlockErasing(f, b) \/ g = MarkBlockErased(f, b)
  PROVE  /\ FtlInv(g)
         /\ g.map = f.map /\ g.used = f.used /\ g.next = f.next
         /\ \A c \in Block : c # b => g.erased[c] = f.erased[c]
         /\ g = MarkBlockErasing(f, b) => ~g.erased[b]
         /\ g = MarkBlockErased(f, b) => g.erased[b]
  <1>1. f \in FtlState
    BY DEF FtlInv
  <1>2. /\ g.map = f.map /\ g.rev = f.rev /\ g.next = f.next
        /\ g.owner = f.owner /\ g.used = f.used /\ g.valid = f.valid
        /\ g.free = f.free /\ g.active = f.active
        /\ g.erased \in [Block -> BOOLEAN]
        /\ \A c \in Block : c # b => g.erased[c] = f.erased[c]
    <2>1. CASE g = MarkBlockErasing(f, b)
      BY <1>1, <2>1 DEF MarkBlockErasing, FtlState
    <2>2. CASE g = MarkBlockErased(f, b)
      BY <1>1, <2>2 DEF MarkBlockErased, FtlState
    <2>3. QED
      BY <2>1, <2>2
  <1>3. g = AsRecord(g)
    BY <1>1 DEF MarkBlockErasing, MarkBlockErased, FtlState, AsRecord
  <1>4. g \in FtlState
    BY <1>1, <1>2, <1>3 DEF FtlState, AsRecord
  <1>5. /\ g = MarkBlockErasing(f, b) => ~g.erased[b]
        /\ g = MarkBlockErased(f, b) => g.erased[b]
    BY <1>1 DEF MarkBlockErasing, MarkBlockErased, FtlState
  <1>6. /\ MappedPagesAllocated(g) /\ MappedPagesDistinct(g)
        /\ ReverseIndexExact(g) /\ OpenBlocksHaveRoom(g)
    BY <1>2 DEF FtlInv, MappedPagesAllocated, MappedPagesDistinct,
                ReverseIndexExact, OpenBlocksHaveRoom, Mapped
  <1>7. FreeBlocksDirty(g)
    BY <1>1, <1>2 DEF FtlInv, FreeBlocksDirty, FtlState
  <1>8. QED
    BY <1>2, <1>4, <1>5, <1>6, <1>7 DEF FtlInv

LEMMA StartEraseStep ==
  ASSUME MediaInv, NEW p \in Page, StartErase(p)
  PROVE  MediaInv'
  <1> DEFINE b == ftl.map[p].blk
  <1>1. /\ ftl \in FtlState /\ flight \in [Page -> Stage]
        /\ phys \in [Page -> Addr] /\ nand \in [Block -> SUBSET Nat]
    BY DEF MediaInv, MediaTypeOK
  <1>2. /\ flight[p] = "write" /\ SubarrayIdle(SubarrayOf[p]) /\ phys' = phys
        /\ flight' = [flight EXCEPT ![p] = "erasing"]
    BY DEF StartErase
  <1>3. /\ Mapped(ftl, p) /\ phys[p] = ftl.map[p] /\ b \in Block
        /\ b < ftl.next /\ b \notin ftl.free
    BY <1>2, QueuedBlock
  <1>4. /\ ftl' = MarkBlockErasing(ftl, b) /\ ~ftl.erased[b]
        /\ nand' = [nand EXCEPT ![b] = {}]
    BY <1>3 DEF StartErase, IsBlockErased
  <1>5. /\ FtlInv(ftl')
        /\ ftl'.map = ftl.map /\ ftl'.used = ftl.used /\ ftl'.next = ftl.next
        /\ \A c \in Block : ftl'.erased[c] <=> ftl.erased[c]
    <2>1. /\ FtlInv(ftl')
          /\ ftl'.map = ftl.map /\ ftl'.used = ftl.used /\ ftl'.next = ftl.next
          /\ \A c \in Block : c # b => ftl'.erased[c] = ftl.erased[c]
          /\ ~ftl'.erased[b]
      BY <1>3, <1>4, MarkEraseInv DEF MediaInv
    <2>2. QED
      BY <1>4, <2>1
  <1>6. /\ flight' \in [Page -> Stage] /\ flight'[p] = "erasing"
        /\ \A q \in Page : q # p => flight'[q] = flight[q]
    BY <1>1, <1>2 DEF Stage
  <1>7. /\ nand' \in [Block -> SUBSET Nat] /\ nand'[b] = {}
        /\ \A c \in Block : c # b => nand'[c] = nand[c]
    BY <1>1, <1>3, <1>4
  <1>8. \A q \in Page : Mapped(ftl', q) <=> Mapped(ftl, q)
    BY <1>5 DEF Mapped
  <1>9. MediaTypeOK'
    BY <1>1, <1>2, <1>5, <1>6, <1>7 DEF MediaTypeOK, FtlInv
  <1>10. AddressFresh' /\ WritesAreMapped'
    BY <1>2, <1>3, <1>5, <1>6, <1>8
    DEF MediaInv, AddressFresh, WritesAreMapped, ReadAddr
  <1>11. OneOperationPerSubarray'
    BY <1>2, <1>6, FtlAssumption
    DEF MediaInv, OneOperationPerSubarray, SubarrayIdle, OnMedia
  <1>12. UnusedBlocksBlank' /\ ErasedBlankAboveCursor'
    BY <1>5, <1>7 DEF MediaInv, UnusedBlocksBlank, ErasedBlankAboveCursor
  <1>13. DirtyBlocksUnwritten'
    BY <1>5, <1>6, <1>8 DEF MediaInv, DirtyBlocksUnwritten, Unwritten
  <1>14. ErasingBlocksBlank'
    BY <1>3, <1>4, <1>5, <1>6, <1>7, QueuedBlock, SMTT(60) DEF MediaInv, ErasingBlocksBlank
  <1>15. ProgramOnErasedPage'
    BY <1>2, <1>3, <1>5, <1>6, <1>7 DEF MediaInv, ProgramOnErasedPage, IsBlockErased
  <1>16. WrittenPagesDurable'
    <2>1. ASSUME NEW q \in Page, Mapped(ftl, q), ~Unwritten(flight'[q])
          PROVE  ftl.map[q].off \in nand'[ftl.map[q].blk]
      <3>1. q # p /\ ~Unwritten(flight[q])
        BY <1>6, <2>1 DEF Unwritten
      <3>2. ftl.map[q].blk \in Block /\ ftl.map[q].blk # b
        BY <1>3, <1>4, <2>1, <3>1
        DEF MediaInv, FtlInv, MappedPagesAllocated, DirtyBlocksUnwritten
      <3>3. QED
        BY <1>7, <2>1, <3>1, <3>2 DEF MediaInv, WrittenPagesDurable
    <2>2. QED
      BY <1>5, <1>8, <2>1 DEF WrittenPagesDurable
  <1>17. QED
    BY <1>5, <1>9, <1>10, <1>11, <1>12, <1>13, <1>14, <1>15, <1>16 DEF MediaInv

LEMMA EraseDoneStep ==
  ASSUME MediaInv, NEW p \in Page, EraseDone(p)
  PROVE  MediaInv'
  <1> DEFINE b == ftl.map[p].blk
  <1>1. /\ ftl \in FtlState /\ flight \in [Page -> Stage]
        /\ phys \in [Page -> Addr] /\ nand \in [Block -> SUBSET Nat]
    BY DEF MediaInv, MediaTypeOK
  <1>2. /\ flight[p] = "erasing" /\ phys' = phys /\ nand' = nand
        /\ flight' = [flight EXCEPT ![p] = "write"]
    BY DEF EraseDone
  <1>3. /\ Mapped(ftl, p) /\ phys[p] = ftl.map[p] /\ b \in Block
        /\ b < ftl.next /\ b \notin ftl.free
        /\ \A q \in Page : Mapped(ftl, q) /\ ftl.map[q].blk = b
                             => SubarrayOf[q] = SubarrayOf[p]
    BY <1>2, QueuedBlock
  <1>4. ftl' = MarkBlockErased(ftl, b) /\ nand[b] = {}
    BY <1>2, <1>3 DEF EraseDone, MediaInv, ErasingBlocksBlank
  <1>5. /\ FtlInv(ftl')
        /\ ftl'.map = ftl.map /\ ftl'.used = ftl.used /\ ftl'.next = ftl.next
        /\ \A c \in Block : c # b => ftl'.erased[c] = ftl.erased[c]
        /\ ftl'.erased[b]
    BY <1>3, <1>4, MarkEraseInv DEF MediaInv
  <1>6. /\ flight' \in [Page -> Stage] /\ flight'[p] = "write"
        /\ \A q \in Page : q # p => flight'[q] = flight[q]
    BY <1>1, <1>2 DEF Stage
  <1>7. \A q \in Page : Mapped(ftl', q) <=> Mapped(ftl, q)
    BY <1>5 DEF Mapped
  <1>8. \A q \in Page : Mapped(ftl, q) => ftl.map[q].blk \in Block
    BY DEF MediaInv, FtlInv, MappedPagesAllocated
  <1>9. MediaTypeOK'
    BY <1>1, <1>2, <1>5, <1>6 DEF MediaTypeOK, FtlInv
  <1>10. AddressFresh' /\ WritesAreMapped'
    BY <1>2, <1>3, <1>5, <1>6, <1>7
    DEF MediaInv, AddressFresh, WritesAreMapped, ReadAddr
  <1>11. OneOperationPerSubarray'
    BY <1>6 DEF MediaInv, OneOperationPerSubarray, OnMedia
  <1>12. UnusedBlocksBlank' /\ ErasedBlankAboveCursor'
    BY <1>2, <1>4, <1>5 DEF MediaInv, UnusedBlocksBlank, ErasedBlankAboveCursor
  <1>13. DirtyBlocksUnwritten'
    BY <1>5, <1>6, <1>7 DEF MediaInv, DirtyBlocksUnwritten, Unwritten
  <1>14. ErasingBlocksBlank'
    <2>1. ASSUME NEW q \in Page, flight'[q] = "erasing"
          PROVE  ~ftl'.erased[ftl.map[q].blk] /\ nand[ftl.map[q].blk] = {}
      <3>1. q # p /\ flight[q] = "erasing" /\ Mapped(ftl, q)
        BY <1>6, <2>1 DEF MediaInv, WritesAreMapped
      <3>2. ftl.map[q].blk # b
        BY <1>2, <1>3, <3>1 DEF MediaInv, OneOperationPerSubarray, OnMedia
      <3>3. QED
        BY <1>5, <1>8, <3>1, <3>2 DEF MediaInv, ErasingBlocksBlank
    <2>2. QED
      BY <1>2, <1>5, <2>1 DEF ErasingBlocksBlank
  <1>15. ProgramOnErasedPage'
    <2>1. ASSUME NEW q \in Page, flight'[q] = "write", IsBlockErased(ftl', phys[q].blk)
          PROVE  phys[q].off \notin nand[phys[q].blk]
      <3>1. CASE phys[q].blk = b
        BY <1>4, <3>1
      <3>2. CASE phys[q].blk # b
        <4>1. q # p /\ flight[q] = "write"
          BY <1>3, <1>6, <2>1, <3>2
        <4>2. QED
          BY <1>5, <2>1, <3>2, <4>1 DEF MediaInv, ProgramOnErasedPage, IsBlockErased
      <3>3. QED
        BY <3>1, <3>2
    <2>2. QED
      BY <1>2, <2>1 DEF ProgramOnErasedPage
  <1>16. WrittenPagesDurable'
    BY <1>2, <1>5, <1>6, <1>7 DEF MediaInv, WrittenPagesDurable, Unwritten
  <1>17. QED
    BY <1>5, <1>9, <1>10, <1>11, <1>12, <1>13, <1>14, <1>15, <1>16 DEF MediaInv

LEMMA StartProgramStep ==
  ASSUME MediaInv, NEW p \in Page, StartProgram(p)
  PROVE  MediaInv'
  <1> DEFINE b == ftl.map[p].blk
             o == ftl.map[p].off
  <1>1. /\ ftl \in FtlState /\ flight \in [Page -> Stage]
        /\ phys \in [Page -> Addr] /\ nand \in [Block -> SUBSET Nat]
    BY DEF MediaInv, MediaTypeOK
  <1>2. /\ flight[p] = "write" /\ SubarrayIdle(SubarrayOf[p])
        /\ phys' = phys /\ ftl' = ftl
        /\ flight' = [flight EXCEPT ![p] = "programming"]
    BY DEF StartProgram
  <1>3. /\ Mapped(ftl, p) /\ phys[p] = ftl.map[p] /\ b \in Block
        /\ b < ftl.next /\ o < ftl.used[b]
    BY <1>2, QueuedBlock
  <1>4. ftl.erased[b] /\ nand' = [nand EXCEPT ![b] = @ \cup {o}]
    BY <1>3 DEF StartProgram, IsBlockErased
  <1>5. o \in Nat
    BY <1>1, TableTypes DEF Addr
  <1>6. /\ flight' \in [Page -> Stage] /\ flight'[p] = "programming"
        /\ \A q \in Page : q # p => flight'[q] = flight[q]
    BY <1>1, <1>2 DEF Stage
  <1>7. /\ nand' \in [Block -> SUBSET Nat] /\ nand'[b] = nand[b] \cup {o}
        /\ \A c \in Block : c # b => nand'[c] = nand[c]
    BY <1>1, <1>3, <1>4, <1>5
  <1>8. MediaTypeOK'
    BY <1>1, <1>2, <1>6, <1>7 DEF MediaTypeOK
  <1>9. AddressFresh' /\ WritesAreMapped'
    BY <1>2, <1>3, <1>6 DEF MediaInv, AddressFresh, WritesAreMapped
  <1>10. OneOperationPerSubarray'
    BY <1>2, <1>6, FtlAssumption
    DEF MediaInv, OneOperationPerSubarray, SubarrayIdle, OnMedia
  <1>11. UnusedBlocksBlank'
    <2>1. ASSUME NEW c \in Block, c >= ftl.next
          PROVE  nand'[c] = {}
      <3>1. c # b
        BY <1>1, <1>3, <2>1, FtlAssumption, TableTypes DEF Block
      <3>2. QED
        BY <1>7, <2>1, <3>1 DEF MediaInv, UnusedBlocksBlank
    <2>2. QED
      BY <1>2, <2>1 DEF UnusedBlocksBlank
  <1>12. ErasedBlankAboveCursor'
    BY <1>2, <1>3, <1>7 DEF MediaInv, ErasedBlankAboveCursor
  <1>13. DirtyBlocksUnwritten'
    BY <1>2, <1>4, <1>6 DEF MediaInv, DirtyBlocksUnwritten
  <1>14. ErasingBlocksBlank'
    <2>1. ASSUME NEW q \in Page, flight'[q] = "erasing"
          PROVE  ~ftl.erased[ftl.map[q].blk] /\ nand'[ftl.map[q].blk] = {}
      <3>1. flight[q] = "erasing"
        BY <1>6, <2>1
      <3>2. ftl.map[q].blk \in Block /\ ftl.map[q].blk # b
        BY <1>4, <3>1, QueuedBlock DEF MediaInv, ErasingBlocksBlank
      <3>3. QED
        BY <1>7, <3>1, <3>2 DEF MediaInv, ErasingBlocksBlank
    <2>2. QED
      BY <1>2, <2>1 DEF ErasingBlocksBlank
  <1>15. ProgramOnErasedPage'
    <2>1. ASSUME NEW q \in Page, flight'[q] = "write", IsBlockErased(ftl, phys[q].blk)
          PROVE  phys[q].off \notin nand'[phys[q].blk]
      <3>1. /\ q # p /\ flight[q] = "write"
            /\ phys[q].off \notin nand[phys[q].blk]
        BY <1>6, <2>1 DEF MediaInv, ProgramOnErasedPage
      <3>2. phys[q] = ftl.map[q] /\ ftl.map[q] # ftl.map[p] /\ phys[q].blk \in Block
        BY <1>3, <3>1, QueuedBlock DEF MediaInv, FtlInv, MappedPagesDistinct
      <3>3. ftl.map[q].blk = b => ftl.map[q].off # o
        BY <1>1, <3>2, TableTypes DEF Addr
      <3>4. QED
        BY <1>7, <3>1, <3>2, <3>3
    <2>2. QED
      BY <1>2, <2>1 DEF ProgramOnErasedPage
  <1>16. WrittenPagesDurable'
    <2>1. ASSUME NEW q \in Page, Mapped(ftl, q), ~Unwritten(flight'[q])
          PROVE  ftl.map[q].off \in nand'[ftl.map[q].blk]
      <3>1. CASE q = p
        BY <1>7, <3>1
      <3>2. CASE q # p
        <4>1. /\ ftl.map[q].off \in nand[ftl.map[q].blk]
              /\ ftl.map[q].blk \in Block
          BY <1>6, <2>1, <3>2
          DEF MediaInv, WrittenPagesDurable, FtlInv, MappedPagesAllocated
        <4>2. QED
          BY <1>7, <4>1
      <3>3. QED
        BY <3>1, <3>2
    <2>2. QED
      BY <1>2, <2>1 DEF WrittenPagesDurable
  <1>17. QED
    BY <1>2, <1>8, <1>9, <1>10, <1>11, <1>12, <1>13, <1>14, <1>15, <1>16 DEF MediaInv

(***************************************************************************)
(* The admission of a write: the only step that moves a page.              *)
(***************************************************************************)
LEMMA AdmitWriteStep ==
  ASSUME MediaInv, NEW p \in Page, AdmitWrite(p)
  PROVE  MediaInv'
  <1> DEFINE b == ftl'.map[p].blk
             o == ftl'.map[p].off
  <1>1. /\ ftl \in FtlState /\ flight \in [Page -> Stage]
        /\ phys \in [Page -> Addr] /\ nand \in [Block -> SUBSET Nat]
        /\ FtlInv(ftl)
    BY DEF MediaInv, MediaTypeOK
  <1>2. /\ flight[p] = "none" /\ ftl' \in FtlWrites(ftl, p)
        /\ flight' = [flight EXCEPT ![p] = "write"]
        /\ phys' = [phys EXCEPT ![p] = ftl'.map[p]] /\ nand' = nand
    BY DEF AdmitWrite
  <1>3. FtlInv(ftl') /\ WriteStep(ftl, p, ftl')
    BY <1>1, <1>2, FtlWriteStep
  <1>4. ftl' \in FtlState /\ ftl'.map[p] \in Addr
    BY <1>3, TableTypes DEF FtlInv
  <1>5. /\ flight' \in [Page -> Stage] /\ flight'[p] = "write"
        /\ \A q \in Page : q # p => flight'[q] = flight[q]
    BY <1>1, <1>2 DEF Stage
  <1>6. /\ phys' \in [Page -> Addr] /\ phys'[p] = ftl'.map[p]
        /\ \A q \in Page : q # p => phys'[q] = phys[q]
    BY <1>1, <1>2, <1>4
  <1>7. /\ Mapped(ftl', p)
        /\ \A q \in Page : q # p =>
             /\ ftl'.map[q] = ftl.map[q]
             /\ Mapped(ftl', q) <=> Mapped(ftl, q)
             /\ ReadAddr(ftl', q) = ReadAddr(ftl, q)
    BY <1>3 DEF WriteStep, Mapped, ReadAddr
  <1>8. \A c \in Block : /\ ftl.used[c] \in Nat /\ ftl'.used[c] \in Nat
                         /\ \A n \in nand[c] : n \in Nat
    BY <1>1, <1>4, FtlAssumption, TableTypes
  <1>9. ftl.next \in Nat /\ ftl'.next \in Nat /\ ftl.next <= ftl'.next
    BY <1>1, <1>3, <1>4, FtlAssumption, TableTypes DEF WriteStep
  <1>10. MediaTypeOK'
    BY <1>1, <1>2, <1>4, <1>5, <1>6 DEF MediaTypeOK
  <1>11. AddressFresh' /\ WritesAreMapped'
    BY <1>5, <1>6, <1>7 DEF MediaInv, AddressFresh, WritesAreMapped, ReadAddr
  <1>12. OneOperationPerSubarray'
    BY <1>5 DEF MediaInv, OneOperationPerSubarray, OnMedia
  <1>13. UnusedBlocksBlank'
    BY <1>2, <1>9, FtlAssumption DEF MediaInv, UnusedBlocksBlank, Block
  <1>14. ErasedBlankAboveCursor'
    <2>1. ASSUME NEW c \in Block, ftl'.erased[c], NEW n \in nand[c]
          PROVE  n < ftl'.used[c]
      <3>1. CASE ftl.erased[c] /\ ftl.used[c] <= ftl'.used[c]
        BY <1>8, <2>1, <3>1 DEF MediaInv, ErasedBlankAboveCursor
      <3>2. CASE c >= ftl.next
        BY <2>1, <3>2 DEF MediaInv, UnusedBlocksBlank
      <3>3. QED
        BY <1>3, <2>1, <3>1, <3>2 DEF WriteStep
    <2>2. QED
      BY <1>2, <2>1 DEF ErasedBlankAboveCursor
  <1>15. DirtyBlocksUnwritten'
    BY <1>3, <1>5, <1>7 DEF WriteStep, MediaInv, DirtyBlocksUnwritten, Unwritten
  <1>16. ErasingBlocksBlank'
    <2>1. ASSUME NEW q \in Page, flight'[q] = "erasing"
          PROVE  ~ftl'.erased[ftl'.map[q].blk] /\ nand[ftl'.map[q].blk] = {}
      <3>1. q # p /\ flight[q] = "erasing"
        BY <1>5, <2>1
      <3>2. ftl.map[q].blk \in Block /\ ftl.map[q].blk < ftl.next
        BY <3>1, QueuedBlock
      <3>3. ~ftl.erased[ftl.map[q].blk] /\ nand[ftl.map[q].blk] = {}
        BY <3>1 DEF MediaInv, ErasingBlocksBlank
      <3>4. ~(ftl.map[q].blk >= ftl.next)
        BY <1>9, <3>2, FtlAssumption DEF Block
      <3>5. QED
        BY <1>3, <1>7, <3>1, <3>2, <3>3, <3>4 DEF WriteStep
    <2>2. QED
      BY <1>2, <2>1 DEF ErasingBlocksBlank
  <1>17. ProgramOnErasedPage'
    <2>1. ASSUME NEW q \in Page, flight'[q] = "write",
                 phys'[q].blk \in Block, ftl'.erased[phys'[q].blk]
          PROVE  phys'[q].off \notin nand[phys'[q].blk]
      <3>1. CASE q = p
        <4>1. CASE ftl.erased[b] /\ ftl.used[b] <= o
          <5>1. \A n \in nand[b] : n < ftl.used[b]
            BY <1>6, <2>1, <3>1, <4>1 DEF MediaInv, ErasedBlankAboveCursor
          <5>2. o \in Nat /\ b \in Block
            BY <1>4, <1>6, <2>1, <3>1 DEF Addr
          <5>3. o \notin nand[b]
            BY <1>8, <4>1, <5>1, <5>2
          <5>4. QED
            BY <1>6, <3>1, <5>3
        <4>2. CASE b >= ftl.next
          BY <1>6, <2>1, <3>1, <4>2 DEF MediaInv, UnusedBlocksBlank
        <4>3. QED
          BY <1>3, <1>6, <2>1, <3>1, <4>1, <4>2 DEF WriteStep
      <3>2. CASE q # p
        <4>1. flight[q] = "write" /\ phys'[q] = phys[q] /\ phys[q] = ftl.map[q]
          BY <1>5, <1>6, <2>1, <3>2, QueuedBlock
        <4>2. ftl.map[q].blk \in Block /\ ftl.map[q].blk < ftl.next
          BY <4>1, QueuedBlock
        <4>3. ~(ftl.map[q].blk >= ftl.next)
          BY <1>9, <4>2, FtlAssumption DEF Block
        <4>4. ftl.erased[ftl.map[q].blk]
          BY <1>3, <2>1, <4>1, <4>2, <4>3 DEF WriteStep
        <4>5. QED
          BY <4>1, <4>2, <4>4 DEF MediaInv, ProgramOnErasedPage, IsBlockErased
      <3>3. QED
        BY <3>1, <3>2
    <2>2. QED
      BY <1>2, <2>1 DEF ProgramOnErasedPage, IsBlockErased
  <1>18. WrittenPagesDurable'
    BY <1>2, <1>5, <1>7 DEF MediaInv, WrittenPagesDurable, Unwritten
  <1>19. QED
    BY <1>3, <1>10, <1>11, <1>12, <1>13, <1>14, <1>15, <1>16, <1>17, <1>18 DEF MediaInv

-----------------------------------------------------------------------------
LEMMA MediaInvStep ==
  ASSUME MediaInv, [MediaNext]_mediaVars
  PROVE  MediaInv'
  <1>1. CASE UNCHANGED mediaVars
    BY <1>1
    DEF mediaVars, MediaInv, MediaTypeOK, AddressFresh, WritesAreMapped,
        OneOperationPerSubarray, UnusedBlocksBlank, ErasedBlankAboveCursor,
        DirtyBlocksUnwritten, ErasingBlocksBlank, ProgramOnErasedPage,
        WrittenPagesDurable
  <1>2. CASE MediaNext
    <2>1. PICK p \in Page :
            \/ AdmitRead(p) \/ AdmitWrite(p)
            \/ StartRead(p) \/ CacheHit(p)
            \/ StartErase(p) \/ EraseDone(p) \/ StartProgram(p)
            \/ MediaDone(p) \/ Retire(p)
      BY <1>2 DEF MediaNext
    <2>2. CASE \/ AdmitRead(p) \/ StartRead(p) \/ CacheHit(p)
               \/ MediaDone(p) \/ Retire(p)
      BY <2>2, QuietStep
    <2>3. CASE AdmitWrite(p)
      BY <2>3, AdmitWriteStep
    <2>4. CASE StartErase(p)
      BY <2>4, StartEraseStep
    <2>5. CASE EraseDone(p)
      BY <2>5, EraseDoneStep
    <2>6. CASE StartProgram(p)
      BY <2>6, StartProgramStep
    <2>7. QED
      BY <2>1, <2>2, <2>3, <2>4, <2>5, <2>6
  <1>3. QED
    BY <1>1, <1>2

(***************************************************************************)
(* MediaInv holds in every reachable state.                                *)
(***************************************************************************)
THEOREM MediaInvariant == MediaSpec => []MediaInv
  <1>1. MediaInv /\ [MediaNext]_mediaVars => MediaInv'
    BY MediaInvStep
  <1>2. QED
    BY InitInv, <1>1, PTL DEF MediaSpec

(***************************************************************************)
(* The tables of the FTL and of the MSHR keep their types, block ids stay  *)
(* below m_max_blocks and no block is filled past its last page.           *)
(***************************************************************************)
THEOREM MediaTypeCorrect == MediaSpec => []MediaTypeOK
  <1>1. MediaInv => MediaTypeOK
    BY DEF MediaInv
  <1>2. QED
    BY <1>1, MediaInvariant, PTL

(***************************************************************************)
(* No two logical pages share a physical page, pseudo addresses included.  *)
(***************************************************************************)
THEOREM MediaMappingInjective == MediaSpec => []MappingInjective
  <1>1. MediaInv => MappingInjective
    <2> SUFFICES ASSUME MediaInv, NEW p \in Page, NEW q \in Page,
                        p # q, Mapped(ftl, p)
                 PROVE  ReadAddr(ftl, p) # ReadAddr(ftl, q)
      BY DEF MappingInjective
    <2>1. CASE Mapped(ftl, q)
      BY <2>1 DEF MediaInv, FtlInv, MappedPagesDistinct, ReadAddr
    <2>2. CASE ~Mapped(ftl, q)
      <3>1. ftl.map[p].blk \in Block
        BY DEF MediaInv, FtlInv, MappedPagesAllocated
      <3>2. ~(ftl.map[p].blk >= MaxBlocks)
        BY <3>1, FtlAssumption DEF Block
      <3>3. QED
        BY <2>2, <3>2, PseudoAddrAbove DEF ReadAddr
    <2>3. QED
      BY <2>1, <2>2
  <1>2. QED
    BY <1>1, MediaInvariant, PTL

(***************************************************************************)
(* A block in the free pool holds no page and is open for no sub-array.    *)
(***************************************************************************)
THEOREM MediaFreePool == MediaSpec => []FreePoolHoldsNoData
  <1>1. MediaInv => FreePoolHoldsNoData
    <2> SUFFICES ASSUME MediaInv, NEW b \in ftl.free
                 PROVE  /\ \A p \in Page : Mapped(ftl, p) => ftl.map[p].blk # b
                        /\ \A s \in Subarray : ftl.active[s] # b
      BY DEF FreePoolHoldsNoData
    <2>1. b # NoBlock
      BY FtlAssumption DEF MediaInv, MediaTypeOK, FtlState, Block, NoBlock
    <2>2. QED
      BY <2>1 DEF MediaInv, FtlInv, MappedPagesAllocated, OpenBlocksHaveRoom
  <1>2. QED
    BY <1>1, MediaInvariant, PTL

(***************************************************************************)
(* The reverse index and the valid_pages counters agree with the mapping.  *)
(***************************************************************************)
THEOREM MediaReverseIndex == MediaSpec => []ReverseIndexConsistent
  <1>1. MediaInv => ReverseIndexConsistent
    BY DEF MediaInv, FtlInv, ReverseIndexExact, ReverseIndexConsistent
  <1>2. QED
    BY <1>1, MediaInvariant, PTL

(***************************************************************************)
(* An operation in flight keeps the address the FTL maps its page to.      *)
(***************************************************************************)
THEOREM MediaAddressFresh == MediaSpec => []AddressFresh
  <1>1. MediaInv => AddressFresh
    BY DEF MediaInv
  <1>2. QED
    BY <1>1, MediaInvariant, PTL

(***************************************************************************)
(* NAND pages are only programmed on a block erased since their last use.  *)
(***************************************************************************)
THEOREM MediaProgramOnErasedPage == MediaSpec => []ProgramOnErasedPage
  <1>1. MediaInv => ProgramOnErasedPage
    BY DEF MediaInv
  <1>2. QED
    BY <1>1, MediaInvariant, PTL

(***************************************************************************)
(* No written page is ever erased while it is mapped.                      *)
(***************************************************************************)
THEOREM MediaDurability == MediaSpec => []WrittenPagesDurable
  <1>1. MediaInv => WrittenPagesDurable
    BY DEF MediaInv
  <1>2. QED
    BY <1>1, MediaInvariant, PTL

-----------------------------------------------------------------------------
(***************************************************************************)
(* The erase protocol changes nothing the capacity argument looks at, and  *)
(* only the admission of a write allocates blocks.                         *)
(***************************************************************************)
LEMMA EraseKeepsCapacity ==
  ASSUME NEW f, f \in FtlState, Capacity(f), NEW b \in Block, NEW v \in BOOLEAN
  PROVE  Capacity([f EXCEPT !.erased[b] = v])
  <1> DEFINE g == [f EXCEPT !.erased[b] = v]
  <1>1. /\ g.next = f.next /\ g.free = f.free /\ g.owner = f.owner
        /\ g.active = f.active /\ g.rev = f.rev
    BY DEF FtlState
  <1> HIDE DEF g
  <1>2. Allocated(g) = Allocated(f)
    BY <1>1 DEF Allocated
  <1>3. BlocksHoldPages(g)
    BY <1>1, <1>2 DEF Capacity, BlocksHoldPages
  <1>4. BlocksHaveSlots(g)
    BY <1>1, <1>2 DEF Capacity, BlocksHaveSlots
  <1>5. Capacity(g)
    BY <1>3, <1>4 DEF Capacity
  <1>6. QED
    BY <1>5 DEF g

LEMMA CapacityStep ==
  ASSUME MediaInv, Capacity(ftl), [MediaNext]_mediaVars
  PROVE  Capacity(ftl)'
  <1>1. ASSUME ftl' = ftl PROVE Capacity(ftl)'
    BY <1>1 DEF Capacity, BlocksHoldPages, BlocksHaveSlots, Allocated
  <1>2. ASSUME NEW p \in Page, AdmitWrite(p)
        PROVE  Capacity(ftl)'
    <2>1. ftl' \in FtlWrites(ftl, p)
      BY <1>2 DEF AdmitWrite
    <2>2. FtlInv(ftl)
      BY DEF MediaInv
    <2>3. Capacity(ftl')
      BY <2>1, <2>2, FtlWriteCapacity
    <2>4. QED
      BY <2>3
  <1>3. ASSUME NEW p \in Page, flight[p] \in {"write", "erasing"}
        PROVE  phys[p].blk \in Block /\ ftl \in FtlState
    BY <1>3, QueuedBlock DEF MediaInv, MediaTypeOK
  <1>4. ASSUME NEW p \in Page, StartErase(p)
        PROVE  Capacity(ftl)'
    <2>1. phys[p].blk \in Block /\ ftl \in FtlState
      BY <1>3, <1>4 DEF StartErase
    <2>2. ftl' = [ftl EXCEPT !.erased[phys[p].blk] = FALSE]
      BY <1>4 DEF StartErase, MarkBlockErasing
    <2>3. Capacity(ftl')
      BY <2>1, <2>2, EraseKeepsCapacity
    <2>4. QED
      BY <2>3
  <1>5. ASSUME NEW p \in Page, EraseDone(p)
        PROVE  Capacity(ftl)'
    <2>1. phys[p].blk \in Block /\ ftl \in FtlState
      BY <1>3, <1>5 DEF EraseDone
    <2>2. ftl' = [ftl EXCEPT !.erased[phys[p].blk] = TRUE]
      BY <1>5 DEF EraseDone, MarkBlockErased
    <2>3. Capacity(ftl')
      BY <2>1, <2>2, EraseKeepsCapacity
    <2>4. QED
      BY <2>3
  <1>6. CASE UNCHANGED mediaVars
    BY <1>1, <1>6 DEF mediaVars
  <1>7. CASE MediaNext
    <2>1. PICK p \in Page :
            \/ AdmitRead(p) \/ AdmitWrite(p)
            \/ StartRead(p) \/ CacheHit(p)
            \/ StartErase(p) \/ EraseDone(p) \/ StartProgram(p)
            \/ MediaDone(p) \/ Retire(p)
      BY <1>7 DEF MediaNext
    <2>2. CASE \/ AdmitRead(p) \/ StartRead(p) \/ CacheHit(p)
               \/ StartProgram(p) \/ MediaDone(p) \/ Retire(p)
      BY <1>1, <2>2
      DEF AdmitRead, StartRead, CacheHit, StartProgram, MediaDone, Retire
    <2>3. QED
      BY <1>2, <1>4, <1>5, <2>1, <2>2
  <1>8. QED
    BY <1>6, <1>7

(***************************************************************************)
(* With one block per logical page and one open block per sub-array the    *)
(* FTL never runs out of blocks: a write that arrives in any reachable     *)
(* state finds a page to reserve.                                          *)
(***************************************************************************)
THEOREM MediaCapacity == MediaSpec => []CapacityMargin
  <1>1. MediaInit => Capacity(ftl)
    BY CapacityInit DEF MediaInit
  <1>2. MediaInv /\ Capacity(ftl) /\ [MediaNext]_mediaVars => Capacity(ftl)'
    BY CapacityStep
  <1>3. MediaInv /\ Capacity(ftl) => CapacityMargin
    <2> SUFFICES ASSUME MediaInv, Capacity(ftl),
                        MaxBlocks >= NumPages + Cardinality(Subarray),
                        NEW p \in Page
                 PROVE  FtlWrites(ftl, p) # {}
      BY DEF CapacityMargin
    <2>1. FtlInv(ftl)
      BY DEF MediaInv
    <2>2. QED
      BY <2>1, CapacityLeft
  <1>4. QED
    BY <1>1, <1>2, <1>3, MediaInvariant, PTL DEF MediaSpec

-----------------------------------------------------------------------------
(***************************************************************************)
(* SSD mode. The collection works on tables that claim too much: a page    *)
(* that moved stays in the reverse index and in the count of the block it  *)
(* left, until that block is erased, which a collection that stops half    *)
(* way never does. What every operation keeps is that they claim enough.   *)
(***************************************************************************)
Here(f, b) == {p \in Page : Mapped(f, p) /\ f.map[p].blk = b}

Covered(f) ==
  \A b \in Block : Here(f, b) \subseteq f.rev[b] /\ Cardinality(Here(f, b)) <= f.valid[b]

SsdInv(f) ==
  /\ f \in FtlState
  /\ MappedPagesAllocated(f) /\ MappedPagesDistinct(f)
  /\ Covered(f) /\ OpenBlocksHaveRoom(f)
  /\ \A b \in f.free : b < f.next

\* A block that was allocated stays with its sub-array.
OwnersStay(f, g) ==
  f.next <= g.next /\ \A b \in Block : b < f.next => g.owner[b] = f.owner[b]

LEMMA BlockFacts ==
  /\ \A b \in Block : b \in Nat /\ b # NoBlock
  /\ NoBlock \in Int /\ NoBlock \notin Block
  /\ \A p \in Page : p \in Nat /\ SubarrayOf[p] \in Subarray
  <1>1. MaxBlocks \in Nat /\ NumPages \in Nat /\ SubarrayOf \in [Page -> Subarray]
    BY FtlAssumption
  <1>2. \A b \in Block : b \in Nat /\ b # NoBlock
    BY <1>1 DEF Block, NoBlock
  <1>3. \A p \in Page : p \in Nat
    BY <1>1 DEF Page
  <1>4. QED
    BY <1>1, <1>2, <1>3 DEF NoBlock

LEMMA TablesOf ==
  ASSUME NEW f, f \in FtlState
  PROVE  /\ f.map \in [Page -> Addr] /\ f.rev \in [Block -> SUBSET Page]
         /\ f.next \in 0 .. MaxBlocks /\ f.next \in Nat
         /\ f.owner \in [Block -> Subarray]
         /\ f.used \in [Block -> 0 .. PagesPerBlock] /\ f.valid \in [Block -> Nat]
         /\ f.erased \in [Block -> BOOLEAN] /\ f.free \subseteq Block
         /\ f.active \in [Subarray -> Block \cup {NoBlock}]
         /\ f = AsRecord(f)
  BY FtlAssumption DEF FtlState, AsRecord

LEMMA FromTables ==
  ASSUME NEW f, f = AsRecord(f),
         f.map \in [Page -> Addr], f.rev \in [Block -> SUBSET Page],
         f.next \in 0 .. MaxBlocks, f.owner \in [Block -> Subarray],
         f.used \in [Block -> 0 .. PagesPerBlock], f.valid \in [Block -> Nat],
         f.erased \in [Block -> BOOLEAN], f.free \subseteq Block,
         f.active \in [Subarray -> Block \cup {NoBlock}]
  PROVE  f \in FtlState
  BY DEF FtlState, AsRecord

\* A block is opened, for a write or for a collection. When the sub-array has
\* an open block already, that one stays, and the new block is in no pool.
LEMMA TakenInv ==
  ASSUME NEW f, SsdInv(f), NEW s \in Subarray, NEW b \in Block,
         b \in Reusable(f, s) \/ b = f.next,
         NEW h, h = Taken(f, s, b)
  PROVE  /\ SsdInv(h) /\ OwnersStay(f, h) /\ h.map = f.map
         /\ h.active = IF f.active[s] = NoBlock THEN [f.active EXCEPT ![s] = b] ELSE f.active
         /\ h.free = f.free \ {b}
  <1>1. f \in FtlState
    BY DEF SsdInv
  <1>2. /\ f.map \in [Page -> Addr] /\ f.rev \in [Block -> SUBSET Page]
        /\ f.next \in 0 .. MaxBlocks /\ f.next \in Nat
        /\ f.owner \in [Block -> Subarray]
        /\ f.used \in [Block -> 0 .. PagesPerBlock] /\ f.valid \in [Block -> Nat]
        /\ f.erased \in [Block -> BOOLEAN] /\ f.free \subseteq Block
        /\ f.active \in [Subarray -> Block \cup {NoBlock}]
    BY <1>1, TablesOf
  <1>3. /\ b \in Nat /\ b # NoBlock
        /\ b # f.next => b \in f.free /\ b < f.next /\ f.owner[b] = s
    BY BlockFacts DEF Reusable, SsdInv
  <1>4. /\ h.map = f.map /\ h.rev = f.rev
        /\ h.next = IF b = f.next THEN f.next + 1 ELSE f.next
        /\ h.owner = [f.owner EXCEPT ![b] = s]
        /\ h.used = [f.used EXCEPT ![b] = 0]
        /\ h.valid = [f.valid EXCEPT ![b] = 0]
        /\ h.erased = [f.erased EXCEPT ![b] = (b = f.next) \/ @]
        /\ h.free = f.free \ {b}
        /\ h.active = IF f.active[s] = NoBlock THEN [f.active EXCEPT ![s] = b] ELSE f.active
        /\ h = AsRecord(h)
    <2>1. PICK g : g = OpenBlock(f, s, b)
      OBVIOUS
    <2>2. /\ g.map = f.map /\ g.rev = f.rev
          /\ g.next = IF b = f.next THEN f.next + 1 ELSE f.next
          /\ g.owner = [f.owner EXCEPT ![b] = s]
          /\ g.used = [f.used EXCEPT ![b] = 0]
          /\ g.valid = [f.valid EXCEPT ![b] = 0]
          /\ g.erased = [f.erased EXCEPT ![b] = (b = f.next) \/ @]
          /\ g.free = f.free \ {b}
          /\ g.active = [f.active EXCEPT ![s] = b]
          /\ g = AsRecord(g)
      BY <1>1, <2>1 DEF OpenBlock, FtlState, AsRecord
    <2>3. h = IF f.active[s] = NoBlock THEN g ELSE [g EXCEPT !.active[s] = f.active[s]]
      BY <2>1 DEF Taken
    <2>4. [[f.active EXCEPT ![s] = b] EXCEPT ![s] = f.active[s]] = f.active
      BY <1>2
    <2>5. CASE f.active[s] = NoBlock
      BY <2>2, <2>3, <2>5
    <2>6. CASE f.active[s] # NoBlock
      <3>1. h = [g EXCEPT !.active = f.active]
        BY <2>2, <2>3, <2>4, <2>6 DEF AsRecord
      <3>2. QED
        BY <2>2, <2>6, <3>1 DEF AsRecord
    <2>7. QED
      BY <2>5, <2>6
  <1>5. h \in FtlState
    <2>1. 0 \in Nat /\ 0 \in 0 .. PagesPerBlock
      BY FtlAssumption
    <2>2. /\ h.used \in [Block -> 0 .. PagesPerBlock] /\ h.valid \in [Block -> Nat]
          /\ h.owner \in [Block -> Subarray] /\ h.free \subseteq Block
      BY <1>2, <1>4, <2>1
    <2>3. h.next \in 0 .. MaxBlocks
      BY <1>2, <1>4, FtlAssumption DEF Block
    <2>4. h.active \in [Subarray -> Block \cup {NoBlock}]
      BY <1>2, <1>4
    <2>5. h.erased \in [Block -> BOOLEAN]
      BY <1>2, <1>4
    <2>6. QED
      BY <1>2, <1>4, <2>2, <2>3, <2>4, <2>5, FromTables
  <1>6. /\ \A p \in Page : Mapped(h, p) <=> Mapped(f, p)
        /\ \A c \in Block : Here(h, c) = Here(f, c)
    BY <1>4 DEF Mapped, Here
  <1>7. \A p \in Page : Mapped(f, p) =>
          /\ f.map[p].blk \in Block /\ f.map[p].blk \in Nat
          /\ f.map[p].blk < f.next /\ f.map[p].blk \notin f.free
          /\ f.map[p].blk # b
    <2> SUFFICES ASSUME NEW p \in Page, Mapped(f, p)
                 PROVE  LET c == f.map[p].blk
                        IN c \in Block /\ c \in Nat /\ c < f.next /\ c \notin f.free /\ c # b
      OBVIOUS
    <2> DEFINE c == f.map[p].blk
    <2>1. c \in Block /\ c < f.next /\ c \notin f.free
      BY DEF SsdInv, MappedPagesAllocated
    <2>2. c \in Nat
      BY <2>1, BlockFacts
    <2> HIDE DEF c
    <2>3. c # b
      BY <1>2, <1>3, <2>1, <2>2
    <2>4. QED
      BY <2>1, <2>2, <2>3 DEF c
  <1>8. MappedPagesAllocated(h)
    <2>1. ASSUME NEW p \in Page, Mapped(h, p)
          PROVE  /\ h.map[p].blk \in Block /\ h.map[p].blk < h.next
                 /\ h.map[p].blk \notin h.free
                 /\ h.map[p].off < h.used[h.map[p].blk]
                 /\ h.owner[h.map[p].blk] = SubarrayOf[p]
      <3> DEFINE c == f.map[p].blk
      <3>1. /\ Mapped(f, p) /\ c \in Block /\ c \in Nat /\ c < f.next /\ c \notin f.free /\ c # b
        BY <1>6, <1>7, <2>1
      <3>2. f.map[p].off < f.used[c] /\ f.owner[c] = SubarrayOf[p]
        BY <3>1 DEF SsdInv, MappedPagesAllocated
      <3>3. h.map[p] = f.map[p] /\ h.used[c] = f.used[c] /\ h.owner[c] = f.owner[c]
            /\ c \notin h.free /\ f.next <= h.next /\ h.next \in Nat
        BY <1>2, <1>4, <3>1
      <3>4. c < h.next
        BY <1>2, <3>1, <3>3
      <3>5. QED
        BY <3>1, <3>2, <3>3, <3>4
    <2>2. QED
      BY <2>1 DEF MappedPagesAllocated
  <1>9. MappedPagesDistinct(h)
    BY <1>4, <1>6 DEF SsdInv, MappedPagesDistinct
  <1>10. Covered(h)
    <2>1. Here(h, b) = {}
      BY <1>6, <1>7 DEF Here
    <2>2. Cardinality(Here(h, b)) <= h.valid[b]
      BY <1>2, <1>4, <2>1, FS_EmptySet
    <2>3. QED
      BY <1>2, <1>4, <1>6, <2>1, <2>2 DEF SsdInv, Covered
  <1>11. OpenBlocksHaveRoom(h)
    <2>1. ASSUME NEW t \in Subarray, h.active[t] # NoBlock
          PROVE  /\ h.active[t] < h.next /\ h.active[t] \notin h.free
                 /\ h.used[h.active[t]] < PagesPerBlock /\ h.owner[h.active[t]] = t
      <3>1. CASE t = s /\ f.active[s] = NoBlock
        <4>1. h.active[t] = b /\ h.used[b] = 0 /\ h.owner[b] = s /\ b \notin h.free
          BY <1>2, <1>4, <3>1
        <4>2. b < h.next
          BY <1>2, <1>3, <1>4
        <4>3. QED
          BY <3>1, <4>1, <4>2, FtlAssumption
      <3>2. CASE ~(t = s /\ f.active[s] = NoBlock)
        <4> DEFINE c == f.active[t]
        <4>1. h.active[t] = c /\ c # NoBlock /\ c \in Block /\ c \in Nat
          BY <1>2, <1>4, <2>1, <3>2, BlockFacts
        <4>2. c < f.next /\ c \notin f.free /\ f.used[c] < PagesPerBlock /\ f.owner[c] = t
          BY <4>1 DEF SsdInv, OpenBlocksHaveRoom
        <4>3. c # b
          BY <1>3, <4>1, <4>2
        <4>4. h.used[c] = f.used[c] /\ h.owner[c] = f.owner[c] /\ c \notin h.free
          BY <1>2, <1>4, <4>1, <4>2, <4>3
        <4>5. c < h.next
          BY <1>2, <1>4, <4>1, <4>2
        <4>6. QED
          BY <4>1, <4>2, <4>4, <4>5
      <3>3. QED
        BY <3>1, <3>2
    <2>2. QED
      BY <2>1 DEF OpenBlocksHaveRoom
  <1>12. \A c \in h.free : c < h.next
    <2>1. \A c \in f.free : c < f.next /\ c \in Nat
      BY <1>2, BlockFacts DEF SsdInv
    <2>2. QED
      BY <1>2, <1>4, <2>1
  <1>13. OwnersStay(f, h)
    BY <1>2, <1>3, <1>4, BlockFacts DEF OwnersStay
  <1>14. QED
    BY <1>4, <1>5, <1>8, <1>9, <1>10, <1>11, <1>12, <1>13 DEF SsdInv

\* Page p goes to the open block b: by a write, which also corrects the tables
\* of the block it leaves, or by a collection, which does not.
Placed(f, p, b, g) ==
  /\ g = AsRecord(g)
  /\ g.map = [f.map EXCEPT ![p] = [blk |-> b, off |-> f.used[b]]]
  /\ g.next = f.next /\ g.owner = f.owner /\ g.erased = f.erased /\ g.free = f.free
  /\ g.used = [f.used EXCEPT ![b] = @ + 1]
  /\ g.rev \in [Block -> SUBSET Page] /\ g.valid \in [Block -> Nat]
  /\ g.active = [f.active EXCEPT ![SubarrayOf[p]] =
                   IF f.used[b] + 1 = PagesPerBlock THEN NoBlock ELSE @]
  /\ Covered(g)

MapAfter(f, p, b) == [f.map EXCEPT ![p] = [blk |-> b, off |-> f.used[b]]]

LEMMA HereAfter ==
  ASSUME NEW f, f \in FtlState, NEW p \in Page, NEW b \in Block, NEW g,
         g.map = MapAfter(f, p, b)
  PROVE  /\ Here(g, b) = Here(f, b) \cup {p}
         /\ \A c \in Block : c # b => Here(g, c) = Here(f, c) \ {p}
         /\ \A q \in Page : q # p => (Mapped(g, q) <=> Mapped(f, q)) /\ g.map[q] = f.map[q]
         /\ Mapped(g, p) /\ g.map[p].blk = b /\ g.map[p].off = f.used[b]
  <1>1. f.map \in [Page -> Addr] /\ b # NoBlock
    BY TablesOf, BlockFacts
  <1>2. /\ \A q \in Page : q # p => g.map[q] = f.map[q]
        /\ g.map[p] = [blk |-> b, off |-> f.used[b]]
    BY <1>1 DEF MapAfter
  <1>3. /\ \A q \in Page : q # p => (Mapped(g, q) <=> Mapped(f, q))
        /\ Mapped(g, p)
    BY <1>1, <1>2 DEF Mapped, Unmapped
  <1>4. QED
    BY <1>2, <1>3 DEF Here

LEMMA HereFinite ==
  ASSUME NEW f, NEW b, NEW p
  PROVE  /\ IsFiniteSet(Here(f, b)) /\ Cardinality(Here(f, b)) \in Nat
         /\ Cardinality(Here(f, b) \cup {p}) \in Nat /\ Cardinality(Here(f, b) \ {p}) \in Nat
         /\ Cardinality(Here(f, b) \cup {p}) <= Cardinality(Here(f, b)) + 1
         /\ Cardinality(Here(f, b) \ {p}) <= Cardinality(Here(f, b))
         /\ p \in Here(f, b) =>
              /\ Cardinality(Here(f, b) \ {p}) = Cardinality(Here(f, b)) - 1
              /\ Cardinality(Here(f, b)) > 0
  <1>1. IsFiniteSet(Here(f, b))
    BY PagesFinite DEF Here
  <1> DEFINE S == Here(f, b)
  <1> HIDE DEF S
  <1>2. IsFiniteSet(S)
    BY <1>1 DEF S
  <1>3. Cardinality(S) \in Nat
    BY <1>2, FS_CardinalityType
  <1>4. Cardinality(S \cup {p}) = IF p \in S THEN Cardinality(S) ELSE Cardinality(S) + 1
    BY <1>2, FS_AddElement
  <1>5. Cardinality(S \ {p}) = IF p \in S THEN Cardinality(S) - 1 ELSE Cardinality(S)
    BY <1>2, FS_RemoveElement
  <1>6. p \in S => Cardinality(S) > 0
    BY <1>2, <1>3, FS_EmptySet
  <1>7. Cardinality(S \cup {p}) \in Nat /\ Cardinality(S \ {p}) \in Nat
    BY <1>2, FS_AddElement, FS_RemoveElement, FS_CardinalityType
  <1>8. QED
    BY <1>2, <1>3, <1>4, <1>5, <1>6, <1>7 DEF S

LEMMA PlacedInv ==
  ASSUME NEW f, SsdInv(f), NEW p \in Page, NEW b \in Block, f.active[SubarrayOf[p]] = b,
         NEW g, Placed(f, p, b, g)
  PROVE  SsdInv(g) /\ OwnersStay(f, g)
  <1> DEFINE s == SubarrayOf[p]
  <1>1. f \in FtlState /\ s \in Subarray /\ b \in Nat /\ b # NoBlock
    BY BlockFacts DEF SsdInv
  <1>2. /\ f.map \in [Page -> Addr] /\ f.next \in 0 .. MaxBlocks /\ f.next \in Nat
        /\ f.owner \in [Block -> Subarray]
        /\ f.used \in [Block -> 0 .. PagesPerBlock]
        /\ f.erased \in [Block -> BOOLEAN] /\ f.free \subseteq Block
        /\ f.active \in [Subarray -> Block \cup {NoBlock}]
    BY <1>1, TablesOf
  <1>3. /\ b < f.next /\ b \notin f.free /\ f.used[b] < PagesPerBlock /\ f.owner[b] = s
    BY <1>1 DEF SsdInv, OpenBlocksHaveRoom
  <1>4. /\ g = AsRecord(g)
        /\ g.map = [f.map EXCEPT ![p] = [blk |-> b, off |-> f.used[b]]]
        /\ g.next = f.next /\ g.owner = f.owner /\ g.erased = f.erased /\ g.free = f.free
        /\ g.used = [f.used EXCEPT ![b] = @ + 1]
        /\ g.rev \in [Block -> SUBSET Page] /\ g.valid \in [Block -> Nat]
        /\ g.active = [f.active EXCEPT ![s] =
                         IF f.used[b] + 1 = PagesPerBlock THEN NoBlock ELSE @]
        /\ Covered(g)
    BY DEF Placed
  <1>5. f.used[b] \in Nat /\ PagesPerBlock \in Nat /\ f.used[b] + 1 \in 0 .. PagesPerBlock
    BY <1>2, <1>3, FtlAssumption
  <1>6. g \in FtlState
    <2>1. [blk |-> b, off |-> f.used[b]] \in Addr
      BY <1>1, <1>5 DEF Addr
    <2>2. g.map \in [Page -> Addr]
      BY <1>2, <1>4, <2>1
    <2>3. g.used \in [Block -> 0 .. PagesPerBlock]
      BY <1>2, <1>4, <1>5
    <2>4. g.active \in [Subarray -> Block \cup {NoBlock}]
      BY <1>2, <1>4, ZenonT(60)
    <2>5. QED
      BY <1>2, <1>4, <2>2, <2>3, <2>4, FromTables
  <1>7. /\ \A q \in Page : q # p => (Mapped(g, q) <=> Mapped(f, q)) /\ g.map[q] = f.map[q]
        /\ Mapped(g, p) /\ g.map[p].blk = b /\ g.map[p].off = f.used[b]
    <2>1. f \in FtlState /\ g.map = MapAfter(f, p, b)
      BY <1>1, <1>4 DEF MapAfter
    <2>2. QED
      BY <2>1, HereAfter
  <1>8. /\ g.used[b] = f.used[b] + 1
        /\ \A c \in Block : c # b => g.used[c] = f.used[c]
    BY <1>2, <1>4
  <1>9. MappedPagesAllocated(g)
    <2>1. ASSUME NEW q \in Page, Mapped(g, q)
          PROVE  /\ g.map[q].blk \in Block /\ g.map[q].blk < g.next
                 /\ g.map[q].blk \notin g.free
                 /\ g.map[q].off < g.used[g.map[q].blk]
                 /\ g.owner[g.map[q].blk] = SubarrayOf[q]
      <3>1. CASE q = p
        BY <1>3, <1>4, <1>5, <1>7, <1>8, <3>1
      <3>2. CASE q # p
        <4> DEFINE c == f.map[q].blk
        <4>1. /\ c \in Block /\ c < f.next /\ c \notin f.free
              /\ f.map[q].off < f.used[c] /\ f.owner[c] = SubarrayOf[q]
          BY <1>7, <2>1, <3>2 DEF SsdInv, MappedPagesAllocated
        <4>2. f.map[q].off \in Nat /\ f.used[c] \in Nat
          BY <1>2, <4>1 DEF Addr
        <4>3. f.map[q].off < g.used[c]
          BY <1>8, <4>1, <4>2
        <4>4. QED
          BY <1>4, <1>7, <3>2, <4>1, <4>3
      <3>3. QED
        BY <3>1, <3>2
    <2>2. QED
      BY <2>1 DEF MappedPagesAllocated
  <1>10. MappedPagesDistinct(g)
    <2>1. ASSUME NEW q \in Page, q # p, Mapped(f, q) PROVE f.map[q] # g.map[p]
      <3>1. f.map[q].blk \in Block /\ f.map[q].off < f.used[f.map[q].blk]
        BY <2>1 DEF SsdInv, MappedPagesAllocated
      <3>2. f.map[q].off \in Nat
        BY <1>2 DEF Addr
      <3>3. QED
        BY <1>5, <1>7, <3>1, <3>2
    <2>2. ASSUME NEW q \in Page, NEW r \in Page, q # r, Mapped(g, q)
          PROVE  g.map[q] # g.map[r]
      <3>1. CASE q = p
        <4>1. CASE Mapped(f, r)
          BY <1>7, <2>1, <2>2, <3>1, <4>1
        <4>2. CASE ~Mapped(f, r)
          BY <1>7, <2>2, <3>1, <4>2 DEF Mapped
        <4>3. QED
          BY <4>1, <4>2
      <3>2. CASE r = p
        BY <1>7, <2>1, <2>2, <3>2
      <3>3. CASE q # p /\ r # p
        BY <1>7, <2>2, <3>3 DEF SsdInv, MappedPagesDistinct
      <3>4. QED
        BY <3>1, <3>2, <3>3
    <2>3. QED
      BY <2>2 DEF MappedPagesDistinct
  <1>11. OpenBlocksHaveRoom(g)
    <2>1. ASSUME NEW t \in Subarray, g.active[t] # NoBlock
          PROVE  /\ g.active[t] < g.next /\ g.active[t] \notin g.free
                 /\ g.used[g.active[t]] < PagesPerBlock /\ g.owner[g.active[t]] = t
      <3>1. CASE t = s
        <4>1. g.active[t] = b /\ f.used[b] + 1 # PagesPerBlock
          BY <1>2, <1>4, <2>1, <3>1
        <4>2. g.used[b] < PagesPerBlock
          BY <1>5, <1>8, <4>1
        <4>3. QED
          BY <1>3, <1>4, <3>1, <4>1, <4>2
      <3>2. CASE t # s
        <4> DEFINE c == f.active[t]
        <4>1. g.active[t] = c /\ c # NoBlock /\ c \in Block
          BY <1>2, <1>4, <2>1, <3>2
        <4>2. c < f.next /\ c \notin f.free /\ f.used[c] < PagesPerBlock /\ f.owner[c] = t
          BY <4>1 DEF SsdInv, OpenBlocksHaveRoom
        <4>3. c # b
          BY <1>3, <3>2, <4>2
        <4>4. QED
          BY <1>4, <1>8, <4>1, <4>2, <4>3
      <3>3. QED
        BY <3>1, <3>2
    <2>2. QED
      BY <2>1 DEF OpenBlocksHaveRoom
  <1>12. \A c \in g.free : c < g.next
    BY <1>4 DEF SsdInv
  <1>13. OwnersStay(f, g)
    BY <1>2, <1>4 DEF OwnersStay
  <1>14. QED
    BY <1>4, <1>6, <1>9, <1>10, <1>11, <1>12, <1>13 DEF SsdInv

LEMMA MovedTables ==
  ASSUME NEW f, SsdInv(f), NEW p \in Page, NEW b \in Block, f.active[SubarrayOf[p]] = b,
         NEW g, g = Moved(f, p, b)
  PROVE  Placed(f, p, b, g)
  <1>1. f \in FtlState /\ SubarrayOf[p] \in Subarray
    BY BlockFacts DEF SsdInv
  <1>2. /\ f.rev \in [Block -> SUBSET Page] /\ f.valid \in [Block -> Nat]
        /\ f.used \in [Block -> 0 .. PagesPerBlock] /\ f.map \in [Page -> Addr]
        /\ f = AsRecord(f)
    BY <1>1, TablesOf
  <1>3. /\ g = AsRecord(g)
        /\ g.map = MapAfter(f, p, b)
        /\ g.next = f.next /\ g.owner = f.owner /\ g.erased = f.erased /\ g.free = f.free
        /\ g.used = [f.used EXCEPT ![b] = @ + 1]
        /\ g.rev = [f.rev EXCEPT ![b] = @ \cup {p}]
        /\ g.valid = [f.valid EXCEPT ![b] = @ + 1]
        /\ g.active = [f.active EXCEPT ![SubarrayOf[p]] =
                         IF f.used[b] + 1 = PagesPerBlock THEN NoBlock ELSE @]
    BY <1>1 DEF Moved, ReservePage, FtlState, AsRecord, MapAfter
  <1>4. g.rev \in [Block -> SUBSET Page] /\ g.valid \in [Block -> Nat]
    BY <1>2, <1>3
  <1>5. ASSUME NEW c \in Block
        PROVE  Here(g, c) \subseteq g.rev[c] /\ Cardinality(Here(g, c)) <= g.valid[c]
    <2>1. Here(f, c) \subseteq f.rev[c] /\ Cardinality(Here(f, c)) <= f.valid[c]
      BY DEF SsdInv, Covered
    <2>2. /\ Cardinality(Here(f, c)) \in Nat
          /\ Cardinality(Here(f, c) \cup {p}) <= Cardinality(Here(f, c)) + 1
          /\ Cardinality(Here(f, c) \ {p}) <= Cardinality(Here(f, c))
          /\ Cardinality(Here(f, c) \cup {p}) \in Nat /\ Cardinality(Here(f, c) \ {p}) \in Nat
      BY HereFinite
    <2>3. IF c = b THEN Here(g, c) = Here(f, c) \cup {p} ELSE Here(g, c) = Here(f, c) \ {p}
      BY <1>1, <1>3, HereAfter
    <2>4. /\ g.rev[c] = IF c = b THEN f.rev[c] \cup {p} ELSE f.rev[c]
          /\ g.valid[c] = IF c = b THEN f.valid[c] + 1 ELSE f.valid[c]
          /\ f.valid[c] \in Nat
      BY <1>2, <1>3, ZenonT(60)
    <2>5. Here(g, c) \subseteq g.rev[c]
      BY <2>1, <2>3, <2>4
    <2>6. Cardinality(Here(g, c)) <= g.valid[c]
      <3>1. CASE c = b
        <4>1. Cardinality(Here(g, c)) = Cardinality(Here(f, c) \cup {p})
          BY <2>3, <3>1
        <4>2. g.valid[c] = f.valid[c] + 1
          BY <2>4, <3>1
        <4>3. QED
          BY <2>1, <2>2, <2>4, <4>1, <4>2
      <3>2. CASE c # b
        <4>1. Cardinality(Here(g, c)) = Cardinality(Here(f, c) \ {p})
          BY <2>3, <3>2
        <4>2. g.valid[c] = f.valid[c]
          BY <2>4, <3>2
        <4>3. QED
          BY <2>1, <2>2, <2>4, <4>1, <4>2
      <3>3. QED
        BY <3>1, <3>2
    <2>7. QED
      BY <2>5, <2>6
  <1>6. Covered(g)
    BY <1>5 DEF Covered
  <1>7. QED
    BY <1>3, <1>4, <1>6 DEF Placed, MapAfter

\* The tables after a write: those of the block the page leaves are corrected.
LEMMA SsdWriteTables ==
  ASSUME NEW f, SsdInv(f), NEW p \in Page, NEW b \in Block, f.active[SubarrayOf[p]] = b,
         NEW g, g = SsdWriteInto(f, p, b)
  PROVE  Placed(f, p, b, g)
  <1> DEFINE s == SubarrayOf[p]
             c == f.map[p].blk
  <1>1. f \in FtlState /\ s \in Subarray
    BY BlockFacts DEF SsdInv
  <1>2. /\ f.rev \in [Block -> SUBSET Page] /\ f.valid \in [Block -> Nat]
        /\ f.used \in [Block -> 0 .. PagesPerBlock] /\ f.map \in [Page -> Addr]
        /\ f.active \in [Subarray -> Block \cup {NoBlock}]
        /\ f = AsRecord(f)
    BY <1>1, TablesOf
  <1>3. Mapped(f, p) => c \in Block /\ p \in Here(f, c)
    BY DEF SsdInv, MappedPagesAllocated, Here
  <1>4. PICK r : r = ReservePage(f, s, b)
    OBVIOUS
  <1>5. /\ r = AsRecord(r) /\ r.map = f.map /\ r.rev = f.rev
        /\ r.next = f.next /\ r.owner = f.owner /\ r.erased = f.erased /\ r.free = f.free
        /\ r.used = [f.used EXCEPT ![b] = @ + 1]
        /\ r.valid = [f.valid EXCEPT ![b] = @ + 1]
        /\ r.active = [f.active EXCEPT ![s] =
                         IF f.used[b] + 1 = PagesPerBlock THEN NoBlock ELSE @]
    BY <1>1, <1>4 DEF ReservePage, FtlState, AsRecord
  <1>6. Mapped(r, p) <=> Mapped(f, p)
    BY <1>5 DEF Mapped
  <1>7. PICK h : h = IF Mapped(r, p) THEN SsdInvalidate(r, p) ELSE r
    OBVIOUS
  <1>8. g = [h EXCEPT !.map[p] = [blk |-> b, off |-> f.used[b]], !.rev[b] = @ \cup {p}]
    BY <1>4, <1>7 DEF SsdWriteInto
  <1>9. /\ h = AsRecord(h)
        /\ h.next = f.next /\ h.owner = f.owner /\ h.erased = f.erased /\ h.free = f.free
        /\ h.used = r.used /\ h.active = r.active
        /\ h.map = IF Mapped(f, p) THEN [f.map EXCEPT ![p] = Unmapped] ELSE f.map
        /\ h.rev = IF Mapped(f, p) THEN [f.rev EXCEPT ![c] = @ \ {p}] ELSE f.rev
        /\ h.valid = IF Mapped(f, p) THEN [r.valid EXCEPT ![c] = IF @ > 0 THEN @ - 1 ELSE @]
                                     ELSE r.valid
    <2>1. CASE Mapped(f, p)
      <3>1. h = [r EXCEPT !.map[p] = Unmapped, !.rev[c] = @ \ {p},
                          !.valid[c] = IF @ > 0 THEN @ - 1 ELSE @]
        BY <1>5, <1>6, <1>7, <2>1 DEF SsdInvalidate
      <3>2. QED
        BY <1>5, <2>1, <3>1 DEF AsRecord
    <2>2. CASE ~Mapped(f, p)
      BY <1>5, <1>6, <1>7, <2>2
    <2>3. QED
      BY <2>1, <2>2
  <1>10. /\ g = AsRecord(g)
         /\ g.map = [h.map EXCEPT ![p] = [blk |-> b, off |-> f.used[b]]]
         /\ g.rev = [h.rev EXCEPT ![b] = @ \cup {p}]
         /\ g.valid = h.valid
         /\ g.next = f.next /\ g.owner = f.owner /\ g.erased = f.erased /\ g.free = f.free
         /\ g.used = r.used /\ g.active = r.active
    BY <1>8, <1>9 DEF AsRecord
  <1>11. g.map = MapAfter(f, p, b)
    BY <1>2, <1>9, <1>10, SMTT(30) DEF MapAfter
  <1>12. \A d \in Block :
           /\ Mapped(f, p) =>
                /\ g.rev[d] = IF d = b THEN (IF d = c THEN f.rev[d] \ {p} ELSE f.rev[d]) \cup {p}
                              ELSE IF d = c THEN f.rev[d] \ {p} ELSE f.rev[d]
           /\ ~Mapped(f, p) => g.rev[d] = IF d = b THEN f.rev[d] \cup {p} ELSE f.rev[d]
    <2>1. CASE Mapped(f, p)
      <3>1. /\ h.rev \in [Block -> SUBSET Page]
            /\ \A d \in Block : h.rev[d] = IF d = c THEN f.rev[d] \ {p} ELSE f.rev[d]
        <4>1. f.rev \in [Block -> SUBSET Page] /\ c \in Block /\ h.rev = [f.rev EXCEPT ![c] = @ \ {p}]
          BY <1>2, <1>3, <1>9, <2>1
        <4>2. f.rev[c] \ {p} \in SUBSET Page
          BY <4>1
        <4> HIDE DEF c
        <4>3. QED
          BY <4>1, <4>2
      <3>2. \A d \in Block : g.rev[d] = IF d = b THEN h.rev[d] \cup {p} ELSE h.rev[d]
        BY <1>10, <3>1
      <3> HIDE DEF c
      <3>3. QED
        BY <2>1, <3>1, <3>2
    <2>2. CASE ~Mapped(f, p)
      <3>1. h.rev = f.rev
        BY <1>9, <2>2
      <3>2. g.rev = [f.rev EXCEPT ![b] = @ \cup {p}] /\ f.rev \in [Block -> SUBSET Page]
        BY <1>2, <1>10, <3>1
      <3>3. \A d \in Block : g.rev[d] = IF d = b THEN f.rev[d] \cup {p} ELSE f.rev[d]
        BY <3>2
      <3>4. QED
        BY <2>2, <3>3
    <2>3. QED
      BY <2>1, <2>2
  <1>13. \A d \in Block :
           /\ f.valid[d] \in Nat
           /\ Mapped(f, p) =>
                g.valid[d] = IF d = b THEN (IF d = c THEN f.valid[d] ELSE f.valid[d] + 1)
                             ELSE IF d = c THEN (IF f.valid[d] > 0 THEN f.valid[d] - 1 ELSE f.valid[d])
                             ELSE f.valid[d]
           /\ ~Mapped(f, p) => g.valid[d] = IF d = b THEN f.valid[d] + 1 ELSE f.valid[d]
    <2>1. /\ r.valid \in [Block -> Nat]
          /\ \A d \in Block : r.valid[d] = IF d = b THEN f.valid[d] + 1 ELSE f.valid[d]
      BY <1>2, <1>5
    <2>2. \A d \in Block : Mapped(f, p) =>
            g.valid[d] = IF d = c THEN (IF r.valid[d] > 0 THEN r.valid[d] - 1 ELSE r.valid[d])
                         ELSE r.valid[d]
      BY <1>3, <1>9, <1>10, <2>1, SMTT(30)
    <2>3. \A d \in Block : ~Mapped(f, p) => g.valid[d] = r.valid[d]
      BY <1>9, <1>10
    <2>4. \A d \in Block : f.valid[d] \in Nat
      BY <1>2
    <2> HIDE DEF c
    <2>5. QED
      BY <2>1, <2>2, <2>3, <2>4
  <1>14. g.rev \in [Block -> SUBSET Page]
    <2>1. CASE Mapped(f, p)
      <3>1. f.rev \in [Block -> SUBSET Page] /\ c \in Block /\ h.rev = [f.rev EXCEPT ![c] = @ \ {p}]
        BY <1>2, <1>3, <1>9, <2>1
      <3> HIDE DEF c
      <3>2. h.rev \in [Block -> SUBSET Page]
        BY <3>1
      <3>3. QED
        BY <1>10, <3>2
    <2>2. CASE ~Mapped(f, p)
      <3>1. f.rev \in [Block -> SUBSET Page] /\ h.rev = f.rev
        BY <1>2, <1>9, <2>2
      <3>2. QED
        BY <1>10, <3>1
    <2>3. QED
      BY <2>1, <2>2
  <1>15. g.valid \in [Block -> Nat]
    <2>1. \A d \in Block : g.valid[d] \in Nat
      <3> HIDE DEF c
      <3>1. QED
        BY <1>13
    <2>2. r.valid \in [Block -> Nat]
      BY <1>2, <1>5
    <2>3. DOMAIN g.valid = Block /\ g.valid = [d \in Block |-> g.valid[d]]
      <3>1. CASE Mapped(f, p)
        <4>1. PICK x : x = IF r.valid[c] > 0 THEN r.valid[c] - 1 ELSE r.valid[c]
          OBVIOUS
        <4>2. g.valid = [r.valid EXCEPT ![c] = x]
          BY <1>9, <1>10, <3>1, <4>1
        <4> HIDE DEF c
        <4>3. QED
          BY <2>2, <4>2
      <3>2. CASE ~Mapped(f, p)
        <4>1. g.valid = r.valid
          BY <1>9, <1>10, <3>2
        <4>2. QED
          BY <2>2, <4>1
      <3>3. QED
        BY <3>1, <3>2
    <2>4. QED
      BY <2>1, <2>3
  <1>16. ASSUME NEW d \in Block
         PROVE  Here(g, d) \subseteq g.rev[d] /\ Cardinality(Here(g, d)) <= g.valid[d]
    <2>1. Here(f, d) \subseteq f.rev[d] /\ Cardinality(Here(f, d)) <= f.valid[d]
      BY DEF SsdInv, Covered
    <2>2. /\ Cardinality(Here(f, d)) \in Nat
          /\ Cardinality(Here(f, d) \cup {p}) \in Nat /\ Cardinality(Here(f, d) \ {p}) \in Nat
          /\ Cardinality(Here(f, d) \cup {p}) <= Cardinality(Here(f, d)) + 1
          /\ Cardinality(Here(f, d) \ {p}) <= Cardinality(Here(f, d))
          /\ p \in Here(f, d) =>
               /\ Cardinality(Here(f, d) \ {p}) = Cardinality(Here(f, d)) - 1
               /\ Cardinality(Here(f, d)) > 0
      BY HereFinite
    <2>3. /\ d = b => Here(g, d) = Here(f, d) \cup {p}
          /\ d # b => Here(g, d) = Here(f, d) \ {p}
      BY <1>1, <1>11, HereAfter
    <2>4. f.valid[d] \in Nat
      BY <1>2
    <2>5. CASE ~Mapped(f, p)
      <3>1. Here(g, d) \subseteq g.rev[d]
        BY <1>12, <2>1, <2>3, <2>5
      <3>2. Cardinality(Here(g, d)) <= g.valid[d]
        <4>1. CASE d = b
          <5>1. Cardinality(Here(g, d)) = Cardinality(Here(f, d) \cup {p})
            BY <2>3, <4>1
          <5>2. g.valid[d] = f.valid[d] + 1
            BY <1>13, <2>5, <4>1
          <5>3. QED
            BY <2>1, <2>2, <2>4, <5>1, <5>2
        <4>2. CASE d # b
          <5>1. Cardinality(Here(g, d)) = Cardinality(Here(f, d) \ {p})
            BY <2>3, <4>2
          <5>2. g.valid[d] = f.valid[d]
            BY <1>13, <2>5, <4>2
          <5>3. QED
            BY <2>1, <2>2, <2>4, <5>1, <5>2
        <4>3. QED
          BY <4>1, <4>2
      <3>3. QED
        BY <3>1, <3>2
    <2>6. CASE Mapped(f, p) /\ d = b /\ d = c
      <3>1. p \in Here(f, d) /\ Here(g, d) = Here(f, d)
        BY <1>3, <2>3, <2>6
      <3>2. g.rev[d] = (f.rev[d] \ {p}) \cup {p}
        BY <1>12, <2>6
      <3>3. g.valid[d] = f.valid[d]
        BY <1>13, <2>6
      <3>4. QED
        BY <2>1, <3>1, <3>2, <3>3
    <2>7. CASE Mapped(f, p) /\ d = b /\ d # c
      <3>1. g.rev[d] = f.rev[d] \cup {p} /\ g.valid[d] = f.valid[d] + 1
        BY <1>12, <1>13, <2>7
      <3>2. Here(g, d) = Here(f, d) \cup {p}
        BY <2>3, <2>7
      <3>3. Cardinality(Here(g, d)) = Cardinality(Here(f, d) \cup {p})
        BY <3>2
      <3>4. Cardinality(Here(g, d)) <= g.valid[d]
        BY <2>1, <2>2, <2>4, <3>1, <3>3
      <3>5. QED
        BY <2>1, <3>1, <3>2, <3>4
    <2>8. CASE Mapped(f, p) /\ d # b /\ d = c
      <3>1. p \in Here(f, d) /\ Here(g, d) = Here(f, d) \ {p}
        BY <1>3, <2>3, <2>8
      <3>2. g.rev[d] = f.rev[d] \ {p}
        BY <1>12, <2>8
      <3>3. g.valid[d] = IF f.valid[d] > 0 THEN f.valid[d] - 1 ELSE f.valid[d]
        BY <1>13, <2>8
      <3>4. Cardinality(Here(g, d)) = Cardinality(Here(f, d)) - 1 /\ Cardinality(Here(f, d)) > 0
        BY <2>2, <3>1
      <3>5. Here(g, d) \subseteq g.rev[d]
        BY <2>1, <3>1, <3>2
      <3>6. Cardinality(Here(g, d)) <= g.valid[d]
        BY <2>1, <2>2, <2>4, <3>3, <3>4
      <3>7. QED
        BY <3>5, <3>6
    <2>9. CASE Mapped(f, p) /\ d # b /\ d # c
      <3>1. g.rev[d] = f.rev[d] /\ g.valid[d] = f.valid[d] /\ Here(g, d) = Here(f, d) \ {p}
        BY <1>12, <1>13, <2>3, <2>9
      <3>2. Here(g, d) = Here(f, d)
        BY <2>9, <3>1 DEF Here
      <3>3. QED
        BY <2>1, <3>1, <3>2
    <2>10. QED
      BY <2>5, <2>6, <2>7, <2>8, <2>9
  <1>17. Covered(g)
    BY <1>16 DEF Covered
  <1>18. QED
    BY <1>5, <1>10, <1>11, <1>14, <1>15, <1>17 DEF Placed, MapAfter

(***************************************************************************)
(* A collection, page by page.                                             *)
(***************************************************************************)
\* What the victim of a collection is, until it is erased.
Movable(f, v) ==
  /\ v \in Block /\ v < f.next /\ v \notin f.free
  /\ \A t \in Subarray : f.active[t] # v

LEMMA GcBlockFacts ==
  ASSUME NEW f, SsdInv(f), NEW s \in Subarray, NEW b, b = GcBlock(f, s), b # NoBlock
  PROVE  /\ b \in Block
         /\ \/ b = f.active[s]
            \/ f.active[s] = NoBlock /\ (b \in Reusable(f, s) \/ b = f.next)
  <1>1. f \in FtlState
    BY DEF SsdInv
  <1>2. /\ f.active \in [Subarray -> Block \cup {NoBlock}] /\ f.free \subseteq Block
        /\ f.next \in 0 .. MaxBlocks
    BY <1>1, TablesOf
  <1>3. CASE f.active[s] # NoBlock
    BY <1>2, <1>3 DEF GcBlock
  <1>4. CASE f.active[s] = NoBlock /\ Reusable(f, s) # {}
    <2>1. Reusable(f, s) \subseteq Nat /\ Reusable(f, s) \subseteq Block
      BY <1>2, BlockFacts DEF Reusable
    <2>2. Min(Reusable(f, s)) \in Reusable(f, s)
      BY <1>4, <2>1, LeastNat
    <2>3. b = Min(Reusable(f, s))
      BY <1>4 DEF GcBlock
    <2>4. QED
      BY <1>4, <2>1, <2>2, <2>3
  <1>5. CASE f.active[s] = NoBlock /\ Reusable(f, s) = {}
    <2>1. b = f.next /\ f.next < MaxBlocks
      BY <1>5 DEF GcBlock
    <2>2. QED
      BY <1>2, <1>5, <2>1, FtlAssumption DEF Block
  <1>6. QED
    BY <1>3, <1>4, <1>5

LEMMA OpenedInv ==
  ASSUME NEW f, SsdInv(f), NEW s \in Subarray, NEW b, b = GcBlock(f, s), b # NoBlock,
         NEW h, h = Opened(f, s, b)
  PROVE  /\ b \in Block /\ SsdInv(h) /\ OwnersStay(f, h)
         /\ h.map = f.map /\ h.active[s] = b /\ h.free \subseteq f.free
         /\ \A v : Movable(f, v) => Movable(h, v) /\ v # b
  <1>1. f \in FtlState
    BY DEF SsdInv
  <1>2. /\ f.active \in [Subarray -> Block \cup {NoBlock}] /\ f.free \subseteq Block
        /\ f.next \in 0 .. MaxBlocks /\ f.next \in Nat
    BY <1>1, TablesOf
  <1>3. /\ b \in Block
        /\ \/ b = f.active[s]
           \/ f.active[s] = NoBlock /\ (b \in Reusable(f, s) \/ b = f.next)
    BY GcBlockFacts
  <1>4. CASE b = f.active[s]
    <2>1. h = f
      BY <1>4 DEF Opened
    <2>2. OwnersStay(f, f)
      BY <1>2 DEF OwnersStay
    <2>3. \A v : Movable(f, v) => v # b
      BY <1>4 DEF Movable
    <2>4. QED
      BY <1>3, <1>4, <2>1, <2>2, <2>3
  <1>5. CASE b # f.active[s]
    <2>1. f.active[s] = NoBlock /\ (b \in Reusable(f, s) \/ b = f.next)
      BY <1>3, <1>5
    <2>2. h = Taken(f, s, b)
      BY <1>5, <2>1 DEF Opened, Taken
    <2>3. /\ SsdInv(h) /\ OwnersStay(f, h) /\ h.map = f.map
          /\ h.active = [f.active EXCEPT ![s] = b]
          /\ h.free = f.free \ {b}
      BY <1>3, <2>1, <2>2, TakenInv
    <2>4. h.active[s] = b /\ h.free \subseteq f.free
      BY <1>2, <2>3
    <2>5. ASSUME NEW v, Movable(f, v) PROVE Movable(h, v) /\ v # b
      <3>1. v \in Block /\ v < f.next /\ v \notin f.free /\ \A t \in Subarray : f.active[t] # v
        BY <2>5 DEF Movable
      <3>2. v \in Nat
        BY <3>1, BlockFacts
      <3>3. v # b
        BY <1>2, <2>1, <3>1, <3>2 DEF Reusable
      <3>4. h.next \in Nat /\ f.next <= h.next
        <4>1. h \in FtlState
          BY <2>3 DEF SsdInv
        <4>2. QED
          BY <2>3, <4>1, TablesOf DEF OwnersStay
      <3>5. v < h.next
        BY <1>2, <3>1, <3>2, <3>4
      <3>6. \A t \in Subarray : h.active[t] # v
        BY <1>2, <2>3, <3>1, <3>3
      <3>7. QED
        BY <2>3, <3>1, <3>3, <3>5, <3>6 DEF Movable
    <2>6. QED
      BY <1>3, <2>3, <2>4, <2>5
  <1>6. QED
    BY <1>4, <1>5

\* The state of a collection is a record of four fields.
InProgress(r) == r = [ftl |-> r.ftl, failed |-> r.failed, copies |-> r.copies, victim |-> r.victim]

LEMMA ProgressFailed ==
  ASSUME NEW r, InProgress(r), NEW q, q = [r EXCEPT !.failed = TRUE]
  PROVE  /\ InProgress(q) /\ q.ftl = r.ftl /\ q.failed = TRUE
         /\ q.copies = r.copies /\ q.victim = r.victim
  <1>1. q.ftl = r.ftl /\ q.failed = TRUE /\ q.copies = r.copies /\ q.victim = r.victim
    BY DEF InProgress
  <1>2. q = [ftl |-> q.ftl, failed |-> q.failed, copies |-> q.copies, victim |-> q.victim]
    BY DEF InProgress
  <1>3. QED
    BY <1>1, <1>2 DEF InProgress

LEMMA ProgressErased ==
  ASSUME NEW r, InProgress(r), NEW g, NEW q, q = [r EXCEPT !.ftl = g]
  PROVE  /\ InProgress(q) /\ q.ftl = g /\ q.failed = r.failed
         /\ q.copies = r.copies /\ q.victim = r.victim
  <1>1. q.ftl = g /\ q.failed = r.failed /\ q.copies = r.copies /\ q.victim = r.victim
    BY DEF InProgress
  <1>2. q = [ftl |-> q.ftl, failed |-> q.failed, copies |-> q.copies, victim |-> q.victim]
    BY DEF InProgress
  <1>3. QED
    BY <1>1, <1>2 DEF InProgress

\* The state r of a collection of v from f that has come to page n.
Moving(f, v, n, r) ==
  /\ InProgress(r) /\ r.victim = v
  /\ r.failed \in BOOLEAN /\ r.copies \in 0 .. n
  /\ SsdInv(r.ftl) /\ OwnersStay(f, r.ftl) /\ Movable(r.ftl, v)
  /\ ~r.failed => \A p \in Page : IF p < n THEN r.ftl.map[p].blk # v
                                           ELSE r.ftl.map[p] = f.map[p]

LEMMA OwnersTransitive ==
  ASSUME NEW f, NEW g, NEW h, f.next \in Nat, g.next \in Nat, h.next \in Nat,
         OwnersStay(f, g), OwnersStay(g, h)
  PROVE  OwnersStay(f, h)
  <1>1. f.next <= g.next /\ g.next <= h.next
    BY DEF OwnersStay
  <1>2. \A b \in Block : b < f.next => h.owner[b] = f.owner[b]
    <2>1. \A b \in Block : b < f.next => b < g.next
      BY <1>1, BlockFacts
    <2>2. QED
      BY <2>1 DEF OwnersStay
  <1>3. QED
    BY <1>1, <1>2 DEF OwnersStay

LEMMA MovingStep ==
  ASSUME NEW f, SsdInv(f), NEW v, Movable(f, v), NEW p \in Page,
         NEW r, Moving(f, v, p, r),
         NEW q, q = IF p \in f.rev[v] /\ f.map[p].blk = v THEN Relocate(r, p) ELSE r
  PROVE  Moving(f, v, p + 1, q)
  <1> DEFINE s == SubarrayOf[p]
             b == GcBlock(r.ftl, s)
  <1>1. p \in Nat /\ s \in Subarray /\ v \in Block /\ v # NoBlock /\ f \in FtlState
    BY BlockFacts DEF Movable, SsdInv
  <1>2. /\ InProgress(r) /\ r.victim = v
        /\ r.failed \in BOOLEAN /\ r.copies \in 0 .. p
        /\ SsdInv(r.ftl) /\ OwnersStay(f, r.ftl) /\ Movable(r.ftl, v)
    BY DEF Moving
  <1>3. ~r.failed => \A o \in Page : IF o < p THEN r.ftl.map[o].blk # v
                                              ELSE r.ftl.map[o] = f.map[o]
    BY DEF Moving
  <1>4. r.copies \in 0 .. p + 1 /\ r.copies + 1 \in 0 .. p + 1
    BY <1>1, <1>2
  <1>5. \A o \in Page : o \in Nat
    BY BlockFacts
  <1>6. CASE ~(p \in f.rev[v] /\ f.map[p].blk = v)
    <2>1. q = r
      BY <1>6
    <2>2. f.map[p].blk # v
      <3>1. SUFFICES ASSUME f.map[p].blk = v PROVE FALSE
        OBVIOUS
      <3>2. Mapped(f, p)
        BY <1>1, <3>1 DEF Mapped, Unmapped
      <3>3. p \in f.rev[v]
        BY <1>1, <3>1, <3>2 DEF SsdInv, Covered, Here
      <3>4. QED
        BY <1>6, <3>1, <3>3
    <2>3. ~r.failed => \A o \in Page : IF o < p + 1 THEN r.ftl.map[o].blk # v
                                                   ELSE r.ftl.map[o] = f.map[o]
      <3>1. ASSUME ~r.failed, NEW o \in Page
            PROVE  IF o < p + 1 THEN r.ftl.map[o].blk # v ELSE r.ftl.map[o] = f.map[o]
        <4>1. IF o < p THEN r.ftl.map[o].blk # v ELSE r.ftl.map[o] = f.map[o]
          BY <1>3, <3>1
        <4>2. CASE o = p
          BY <1>1, <2>2, <4>1, <4>2
        <4>3. CASE o # p
          <5>1. o < p + 1 <=> o < p
            BY <1>1, <1>5, <4>3
          <5>2. QED
            BY <4>1, <5>1
        <4>4. QED
          BY <4>2, <4>3
      <3>2. QED
        BY <3>1
    <2>4. QED
      BY <1>2, <1>4, <2>1, <2>3 DEF Moving
  <1>7. CASE p \in f.rev[v] /\ f.map[p].blk = v /\ (r.failed \/ b = NoBlock)
    <2>1. q = Relocate(r, p)
      BY <1>7
    <2>2. /\ InProgress(q) /\ q.ftl = r.ftl /\ q.failed = TRUE
          /\ q.copies = r.copies /\ q.victim = r.victim
      <3>1. CASE r.failed
        <4>1. q = r
          BY <2>1, <3>1 DEF Relocate
        <4>2. QED
          BY <1>2, <3>1, <4>1
      <3>2. CASE ~r.failed
        <4>1. q = [r EXCEPT !.failed = TRUE]
          BY <1>7, <2>1, <3>2 DEF Relocate
        <4>2. QED
          BY <1>2, <4>1, ProgressFailed
      <3>3. QED
        BY <3>1, <3>2
    <2>5. QED
      BY <1>2, <1>4, <2>2 DEF Moving
  <1>8. CASE p \in f.rev[v] /\ f.map[p].blk = v /\ ~r.failed /\ b # NoBlock
    <2>1. PICK h : h = Opened(r.ftl, s, b)
      OBVIOUS
    <2>2. PICK g : g = Moved(h, p, b)
      OBVIOUS
    <2>3. q = [r EXCEPT !.ftl = g, !.copies = @ + 1]
      BY <1>8, <2>1, <2>2 DEF Relocate
    <2>4. /\ InProgress(q) /\ q.ftl = g /\ q.failed = r.failed
          /\ q.copies = r.copies + 1 /\ q.victim = v
      <3>1. /\ q.ftl = g /\ q.failed = r.failed
            /\ q.copies = r.copies + 1 /\ q.victim = r.victim
        BY <1>2, <2>3 DEF InProgress
      <3>2. q = [ftl |-> q.ftl, failed |-> q.failed, copies |-> q.copies, victim |-> q.victim]
        BY <1>2, <2>3 DEF InProgress
      <3>3. QED
        BY <1>2, <3>1, <3>2 DEF InProgress
    <2>5. /\ b \in Block /\ SsdInv(h) /\ OwnersStay(r.ftl, h)
          /\ h.map = r.ftl.map /\ h.active[s] = b
          /\ Movable(h, v) /\ v # b
      <3> HIDE DEF s
      <3>1. QED
        BY <1>1, <1>2, <1>8, <2>1, OpenedInv
    <2>6. Placed(h, p, b, g)
      BY <2>2, <2>5, MovedTables
    <2>7. SsdInv(g) /\ OwnersStay(h, g)
      BY <2>5, <2>6, PlacedInv
    <2>8. /\ f.next \in Nat /\ r.ftl.next \in Nat /\ h.next \in Nat /\ g.next \in Nat
          /\ h.active \in [Subarray -> Block \cup {NoBlock}] /\ h.map \in [Page -> Addr]
      BY <1>1, <1>2, <2>5, <2>7, TablesOf DEF SsdInv
    <2>9. OwnersStay(f, g)
      <3>1. OwnersStay(f, h)
        BY <1>2, <2>5, <2>8, OwnersTransitive
      <3>2. QED
        BY <2>7, <2>8, <3>1, OwnersTransitive
    <2>10. /\ g.map = [h.map EXCEPT ![p] = [blk |-> b, off |-> h.used[b]]]
           /\ g.next = h.next /\ g.free = h.free
           /\ g.active = [h.active EXCEPT ![s] =
                            IF h.used[b] + 1 = PagesPerBlock THEN NoBlock ELSE @]
      BY <2>6 DEF Placed
    <2>11. Movable(g, v)
      <3>1. \A t \in Subarray : g.active[t] # v
        BY <1>1, <2>5, <2>8, <2>10 DEF Movable
      <3>2. QED
        BY <2>5, <2>10, <3>1 DEF Movable
    <2>12. \A o \in Page : IF o < p + 1 THEN g.map[o].blk # v ELSE g.map[o] = f.map[o]
      <3>1. ASSUME NEW o \in Page
            PROVE  IF o < p + 1 THEN g.map[o].blk # v ELSE g.map[o] = f.map[o]
        <4>1. CASE o = p
          <5>1. g.map[o].blk = b /\ o < p + 1
            BY <1>1, <2>8, <2>10, <4>1
          <5>2. QED
            BY <2>5, <5>1
        <4>2. CASE o # p
          <5>1. g.map[o] = r.ftl.map[o]
            BY <2>5, <2>8, <2>10, <4>2
          <5>2. IF o < p THEN r.ftl.map[o].blk # v ELSE r.ftl.map[o] = f.map[o]
            BY <1>3, <1>8
          <5>3. QED
            BY <1>1, <1>5, <4>2, <5>1, <5>2
        <4>3. QED
          BY <4>1, <4>2
      <3>2. QED
        BY <3>1
    <2>13. QED
      BY <1>4, <1>8, <2>4, <2>7, <2>9, <2>11, <2>12 DEF Moving
  <1>9. QED
    BY <1>6, <1>7, <1>8

\* The loop of gc() as tlapm reads its recursive definition: entry n of the
\* function below is what the entries under n make of it.
LoopStep(f, v, below, n) ==
  IF n = 0 THEN [NoGc(f) EXCEPT !.victim = v]
  ELSE IF n - 1 \in f.rev[v] /\ f.map[n - 1].blk = v THEN Relocate(below[n - 1], n - 1)
  ELSE below[n - 1]

LEMMA LoopNamed ==
  ASSUME NEW f, NEW v, NEW r, r = Relocated(f, v)
  PROVE  \E B : /\ B = CHOOSE below : below = [n \in 0 .. NumPages |-> LoopStep(f, v, below, n)]
                /\ r = B[NumPages]
  BY DEF Relocated, LoopStep

LEMMA LoopStepLocal ==
  ASSUME NEW f, NEW v, NEW n \in Nat, NEW g, NEW h, n # 0 => g[n - 1] = h[n - 1]
  PROVE  LoopStep(f, v, g, n) = LoopStep(f, v, h, n)
  BY DEF LoopStep

\* The recursive definition has a solution.
LEMMA LoopDefined ==
  ASSUME NEW f, NEW v
  PROVE  \E B : B = [n \in 0 .. NumPages |-> LoopStep(f, v, B, n)]
  <1> DEFINE Ok(m) == \E B : B = [n \in 0 .. m |-> LoopStep(f, v, B, n)]
             Bad   == {m \in 0 .. NumPages : ~Ok(m)}
  <1>1. NumPages \in Nat
    BY FtlAssumption
  <1>2. Bad = {}
    <2>1. SUFFICES ASSUME Bad # {} PROVE FALSE
      OBVIOUS
    <2>2. Bad \subseteq Nat
      BY <1>1
    <2>3. PICK m \in Bad : \A k \in Bad : m <= k
      <3> HIDE DEF Bad
      <3>1. QED
        BY <2>1, <2>2, LeastElement
    <2>4. m \in 0 .. NumPages /\ m \in Nat /\ ~Ok(m)
      BY <1>1, <2>3
    <2>5. CASE m = 0
      <3>1. PICK B : B = [n \in 0 .. 0 |-> [NoGc(f) EXCEPT !.victim = v]]
        OBVIOUS
      <3>2. \A n \in 0 .. 0 : LoopStep(f, v, B, n) = [NoGc(f) EXCEPT !.victim = v]
        BY DEF LoopStep
      <3>3. B = [n \in 0 .. 0 |-> LoopStep(f, v, B, n)]
        BY <3>1, <3>2
      <3>4. Ok(0)
        BY <3>3
      <3>5. QED
        BY <2>4, <2>5, <3>4
    <2>6. CASE m # 0
      <3>1. m - 1 \in 0 .. NumPages /\ m - 1 \in Nat /\ ~(m <= m - 1)
        BY <1>1, <2>4, <2>6
      <3>2. Ok(m - 1)
        <4> HIDE DEF Ok
        <4>1. m - 1 \notin Bad
          BY <2>3, <3>1
        <4>2. QED
          BY <3>1, <4>1
      <3>3. PICK g : g = [n \in 0 .. m - 1 |-> LoopStep(f, v, g, n)]
        BY <3>2
      <3>4. PICK h : h = [n \in 0 .. m |-> IF n = m THEN LoopStep(f, v, g, m) ELSE g[n]]
        OBVIOUS
      <3>5. ASSUME NEW n \in 0 .. m
            PROVE  h[n] = LoopStep(f, v, h, n)
        <4>1. n \in Nat /\ (n # 0 => n - 1 \in 0 .. m /\ n - 1 # m)
          BY <2>4
        <4>2. n # 0 => g[n - 1] = h[n - 1]
          BY <3>4, <4>1
        <4>3. LoopStep(f, v, g, n) = LoopStep(f, v, h, n)
          BY <4>1, <4>2, LoopStepLocal
        <4>4. CASE n = m
          BY <3>4, <4>3, <4>4
        <4>5. CASE n # m
          <5>1. n \in 0 .. m - 1
            BY <2>4, <4>5
          <5>2. g[n] = LoopStep(f, v, g, n)
            BY <3>3, <5>1
          <5>3. h[n] = g[n]
            BY <3>4, <4>5
          <5>4. QED
            BY <4>3, <5>2, <5>3
        <4>6. QED
          BY <4>4, <4>5
      <3>6. h = [n \in 0 .. m |-> LoopStep(f, v, h, n)]
        <4>1. h = [n \in 0 .. m |-> h[n]]
          BY <3>4
        <4>2. QED
          BY <3>5, <4>1
      <3>7. Ok(m)
        BY <3>6
      <3>8. QED
        BY <2>4, <3>7
    <2>7. QED
      BY <2>5, <2>6
  <1>3. NumPages \in 0 .. NumPages
    BY <1>1
  <1>4. Ok(NumPages)
    <2> HIDE DEF Ok
    <2>1. QED
      BY <1>2, <1>3
  <1>5. QED
    BY <1>4

LEMMA LoopUnfolds ==
  ASSUME NEW f, NEW v, NEW r, r = Relocated(f, v)
  PROVE  \E B : /\ r = B[NumPages]
                /\ \A n \in 0 .. NumPages : B[n] = LoopStep(f, v, B, n)
  <1>1. PICK B : /\ B = CHOOSE below : below = [n \in 0 .. NumPages |-> LoopStep(f, v, below, n)]
                 /\ r = B[NumPages]
    BY LoopNamed
  <1>2. \E below : below = [n \in 0 .. NumPages |-> LoopStep(f, v, below, n)]
    BY LoopDefined
  <1>3. B = [n \in 0 .. NumPages |-> LoopStep(f, v, B, n)]
    BY <1>1, <1>2
  <1>4. \A n \in 0 .. NumPages : B[n] = LoopStep(f, v, B, n)
    BY <1>3
  <1>5. QED
    BY <1>1, <1>4

\* A collection that has come to the last page: it failed, or the victim is
\* empty.
LEMMA RelocatedInv ==
  ASSUME NEW f, SsdInv(f), NEW v, Movable(f, v), NEW r, r = Relocated(f, v)
  PROVE  Moving(f, v, NumPages, r)
  <1>1. NumPages \in Nat
    BY FtlAssumption
  <1>2. PICK B : /\ r = B[NumPages]
                 /\ \A n \in 0 .. NumPages : B[n] = LoopStep(f, v, B, n)
    BY LoopUnfolds
  <1> DEFINE Bad == {n \in 0 .. NumPages : ~Moving(f, v, n, B[n])}
  <1>3. Bad = {}
    <2>1. SUFFICES ASSUME Bad # {} PROVE FALSE
      OBVIOUS
    <2>2. Bad \subseteq Nat
      BY <1>1
    <2>3. PICK m \in Bad : \A k \in Bad : m <= k
      <3> HIDE DEF Bad
      <3>1. QED
        BY <2>1, <2>2, LeastElement
    <2>4. m \in 0 .. NumPages /\ m \in Nat /\ ~Moving(f, v, m, B[m])
      BY <1>1, <2>3
    <2>5. B[m] = LoopStep(f, v, B, m)
      BY <1>2, <2>4
    <2>6. CASE m = 0
      <3>1. PICK q : q = B[m]
        OBVIOUS
      <3>2. q = [NoGc(f) EXCEPT !.victim = v]
        BY <2>5, <2>6, <3>1 DEF LoopStep
      <3>3. q.ftl = f /\ q.failed = FALSE /\ q.copies = 0 /\ q.victim = v
        BY <3>2 DEF NoGc
      <3>4. InProgress(q)
        BY <3>2 DEF InProgress, NoGc
      <3>5. OwnersStay(f, f)
        <4>1. f.next \in Nat
          BY TablesOf DEF SsdInv
        <4>2. QED
          BY <4>1 DEF OwnersStay
      <3>6. \A p \in Page : ~(p < 0)
        BY BlockFacts
      <3>7. Moving(f, v, 0, q)
        <4>1. SsdInv(q.ftl) /\ OwnersStay(f, q.ftl) /\ Movable(q.ftl, v)
          BY <3>3, <3>5
        <4>2. \A p \in Page : IF p < 0 THEN q.ftl.map[p].blk # v ELSE q.ftl.map[p] = f.map[p]
          BY <3>3, <3>6
        <4>3. q.failed \in BOOLEAN /\ q.copies \in 0 .. 0
          <5>1. q.failed \in BOOLEAN
            BY <3>3, Zenon
          <5>2. q.copies \in 0 .. 0
            BY <3>3
          <5>3. QED
            BY <5>1, <5>2
        <4>4. QED
          BY <3>3, <3>4, <4>1, <4>2, <4>3 DEF Moving
      <3>8. QED
        BY <2>4, <2>6, <3>1, <3>7
    <2>7. CASE m # 0
      <3>1. PICK p : p = m - 1
        OBVIOUS
      <3>2. p \in Page /\ p \in 0 .. NumPages /\ ~(m <= p) /\ p + 1 = m
        BY <1>1, <2>4, <2>7, <3>1 DEF Page
      <3>3. p \notin Bad
        <4> HIDE DEF Bad
        <4>1. QED
          BY <2>3, <3>2
      <3>4. Moving(f, v, p, B[p])
        BY <3>2, <3>3
      <3>5. B[m] = IF p \in f.rev[v] /\ f.map[p].blk = v THEN Relocate(B[p], p) ELSE B[p]
        BY <2>5, <2>7, <3>1 DEF LoopStep
      <3>6. Moving(f, v, p + 1, B[m])
        BY <3>2, <3>4, <3>5, MovingStep
      <3>7. QED
        BY <2>4, <3>2, <3>6
    <2>8. QED
      BY <2>6, <2>7
  <1>4. NumPages \in 0 .. NumPages
    BY <1>1
  <1>5. Moving(f, v, NumPages, B[NumPages])
    BY <1>3, <1>4
  <1>6. QED
    BY <1>2, <1>5

LEMMA EraseVictimInv ==
  ASSUME NEW f, SsdInv(f), NEW v, Movable(f, v),
         \A p \in Page : f.map[p].blk # v,
         NEW g, g = EraseVictim(f, v)
  PROVE  SsdInv(g) /\ OwnersStay(f, g)
  <1>1. f \in FtlState /\ v \in Block /\ v < f.next
    BY DEF SsdInv, Movable
  <1>2. /\ f.map \in [Page -> Addr] /\ f.rev \in [Block -> SUBSET Page]
        /\ f.next \in 0 .. MaxBlocks /\ f.next \in Nat
        /\ f.owner \in [Block -> Subarray]
        /\ f.used \in [Block -> 0 .. PagesPerBlock] /\ f.valid \in [Block -> Nat]
        /\ f.erased \in [Block -> BOOLEAN] /\ f.free \subseteq Block
        /\ f.active \in [Subarray -> Block \cup {NoBlock}]
    BY <1>1, TablesOf
  <1>3. /\ g = AsRecord(g) /\ g.map = f.map /\ g.next = f.next /\ g.owner = f.owner
        /\ g.active = f.active
        /\ g.rev = [f.rev EXCEPT ![v] = {}]
        /\ g.used = [f.used EXCEPT ![v] = 0] /\ g.valid = [f.valid EXCEPT ![v] = 0]
        /\ g.erased = [f.erased EXCEPT ![v] = TRUE] /\ g.free = f.free \cup {v}
    BY <1>1 DEF EraseVictim, FtlState, AsRecord
  <1>4. g \in FtlState
    <2>1. 0 \in Nat /\ 0 \in 0 .. PagesPerBlock
      BY FtlAssumption
    <2>2. g.used \in [Block -> 0 .. PagesPerBlock] /\ g.valid \in [Block -> Nat]
      BY <1>1, <1>2, <1>3, <2>1
    <2>3. g.rev \in [Block -> SUBSET Page]
      BY <1>1, <1>2, <1>3
    <2>4. g.erased \in [Block -> BOOLEAN]
      BY <1>1, <1>2, <1>3
    <2>5. g.free \subseteq Block
      BY <1>1, <1>2, <1>3
    <2>6. QED
      BY <1>2, <1>3, <2>2, <2>3, <2>4, <2>5, FromTables
  <1>5. /\ \A p \in Page : Mapped(g, p) <=> Mapped(f, p)
        /\ \A c \in Block : Here(g, c) = Here(f, c)
        /\ Here(f, v) = {}
    BY <1>3 DEF Mapped, Here
  <1>6. MappedPagesAllocated(g)
    <2>1. ASSUME NEW p \in Page, Mapped(g, p)
          PROVE  /\ g.map[p].blk \in Block /\ g.map[p].blk < g.next
                 /\ g.map[p].blk \notin g.free
                 /\ g.map[p].off < g.used[g.map[p].blk]
                 /\ g.owner[g.map[p].blk] = SubarrayOf[p]
      <3> DEFINE c == f.map[p].blk
      <3>1. /\ c \in Block /\ c < f.next /\ c \notin f.free /\ f.map[p].off < f.used[c]
            /\ f.owner[c] = SubarrayOf[p] /\ c # v
        BY <1>5, <2>1 DEF SsdInv, MappedPagesAllocated
      <3>2. g.map[p] = f.map[p] /\ g.used[c] = f.used[c] /\ c \notin g.free
        BY <1>2, <1>3, <3>1
      <3>3. QED
        BY <1>3, <3>1, <3>2
    <2>2. QED
      BY <2>1 DEF MappedPagesAllocated
  <1>7. MappedPagesDistinct(g)
    BY <1>3, <1>5 DEF SsdInv, MappedPagesDistinct
  <1>8. Covered(g)
    <2>1. Cardinality(Here(g, v)) <= g.valid[v] /\ Here(g, v) \subseteq g.rev[v]
      <3>1. Here(g, v) = {} /\ g.valid[v] = 0
        BY <1>1, <1>2, <1>3, <1>5
      <3>2. QED
        BY <3>1, FS_EmptySet
    <2>2. \A c \in Block : c # v => g.rev[c] = f.rev[c] /\ g.valid[c] = f.valid[c]
      BY <1>2, <1>3
    <2>3. QED
      BY <1>5, <2>1, <2>2 DEF SsdInv, Covered
  <1>9. OpenBlocksHaveRoom(g)
    <2>1. ASSUME NEW t \in Subarray, g.active[t] # NoBlock
          PROVE  /\ g.active[t] < g.next /\ g.active[t] \notin g.free
                 /\ g.used[g.active[t]] < PagesPerBlock /\ g.owner[g.active[t]] = t
      <3> DEFINE c == f.active[t]
      <3>1. g.active[t] = c /\ c # NoBlock /\ c \in Block /\ c # v
        BY <1>2, <1>3, <2>1 DEF Movable
      <3>2. c < f.next /\ c \notin f.free /\ f.used[c] < PagesPerBlock /\ f.owner[c] = t
        BY <3>1 DEF SsdInv, OpenBlocksHaveRoom
      <3>3. g.used[c] = f.used[c] /\ c \notin g.free
        BY <1>2, <1>3, <3>1, <3>2
      <3>4. QED
        BY <1>3, <3>1, <3>2, <3>3
    <2>2. QED
      BY <2>1 DEF OpenBlocksHaveRoom
  <1>10. \A c \in g.free : c < g.next
    BY <1>1, <1>3 DEF SsdInv
  <1>11. OwnersStay(f, g)
    BY <1>2, <1>3 DEF OwnersStay
  <1>12. QED
    BY <1>4, <1>6, <1>7, <1>8, <1>9, <1>10, <1>11 DEF SsdInv

LEMMA GcInv ==
  ASSUME NEW f, SsdInv(f), NEW v, Movable(f, v), NEW c, c = Gc(f, v)
  PROVE  /\ SsdInv(c.ftl) /\ OwnersStay(f, c.ftl)
         /\ c.copies \in 0 .. NumPages /\ c.victim \in Block
  <1>1. PICK r : r = Relocated(f, v)
    OBVIOUS
  <1>2. Moving(f, v, NumPages, r)
    BY <1>1, RelocatedInv
  <1>3. /\ InProgress(r) /\ r.victim = v /\ r.failed \in BOOLEAN /\ r.copies \in 0 .. NumPages
        /\ SsdInv(r.ftl) /\ OwnersStay(f, r.ftl) /\ Movable(r.ftl, v) /\ v \in Block
    BY <1>2 DEF Moving, Movable
  <1>4. c = IF r.failed THEN r ELSE [r EXCEPT !.ftl = EraseVictim(@, v)]
    BY <1>1 DEF Gc, Collected
  <1>5. CASE r.failed
    BY <1>3, <1>4, <1>5
  <1>6. CASE ~r.failed
    <2>1. \A p \in Page : r.ftl.map[p].blk # v
      <3>1. \A p \in Page : IF p < NumPages THEN r.ftl.map[p].blk # v
                                            ELSE r.ftl.map[p] = f.map[p]
        BY <1>2, <1>6 DEF Moving
      <3>2. \A p \in Page : p < NumPages
        BY FtlAssumption DEF Page
      <3>3. QED
        BY <3>1, <3>2
    <2>2. PICK g : g = EraseVictim(r.ftl, v)
      OBVIOUS
    <2>3. SsdInv(g) /\ OwnersStay(r.ftl, g)
      BY <1>3, <2>1, <2>2, EraseVictimInv
    <2>4. c = [r EXCEPT !.ftl = g]
      BY <1>4, <1>6, <2>2
    <2>5. c.ftl = g /\ c.copies = r.copies /\ c.victim = v
      BY <1>3, <2>4 DEF InProgress
    <2>6. f.next \in Nat /\ r.ftl.next \in Nat /\ g.next \in Nat
      BY <1>3, <2>3, TablesOf DEF SsdInv
    <2>7. OwnersStay(f, g)
      BY <1>3, <2>3, <2>6, OwnersTransitive
    <2>8. QED
      BY <1>3, <2>3, <2>5, <2>7
  <1>7. QED
    BY <1>3, <1>5, <1>6

\* The blocks a collection frees without moving anything.
LEMMA ReleaseInv ==
  ASSUME NEW f, SsdInv(f), NEW g, g = ReleaseEmptied(f)
  PROVE  /\ SsdInv(g) /\ OwnersStay(f, g)
         /\ \A v \in Victims(f) : Movable(g, v)
  <1>1. f \in FtlState
    BY DEF SsdInv
  <1>2. /\ f.map \in [Page -> Addr] /\ f.rev \in [Block -> SUBSET Page]
        /\ f.next \in 0 .. MaxBlocks /\ f.next \in Nat
        /\ f.owner \in [Block -> Subarray]
        /\ f.used \in [Block -> 0 .. PagesPerBlock] /\ f.valid \in [Block -> Nat]
        /\ f.erased \in [Block -> BOOLEAN] /\ f.free \subseteq Block
        /\ f.active \in [Subarray -> Block \cup {NoBlock}]
    BY <1>1, TablesOf
  <1>3. PICK E : E = Emptied(f)
    OBVIOUS
  <1>4. \A b \in Settled(f) :
          b \in Block /\ b < f.next /\ b \notin f.free /\ \A t \in Subarray : f.active[t] # b
    <2>1. ASSUME NEW b \in Settled(f), NEW t \in Subarray PROVE f.active[t] # b
      <3>1. b \in Block /\ b # NoBlock /\ f.active[f.owner[b]] # b
        BY BlockFacts DEF Settled
      <3>2. f.active[t] = b => f.owner[b] = t
        BY <3>1 DEF SsdInv, OpenBlocksHaveRoom
      <3>3. QED
        BY <3>1, <3>2
    <2>2. QED
      BY <2>1 DEF Settled
  <1>5. E \subseteq Settled(f) /\ \A b \in E : f.valid[b] = 0
    BY <1>3 DEF Emptied
  <1>6. \A b \in E : Here(f, b) = {}
    <2>1. ASSUME NEW b \in E PROVE Here(f, b) = {}
      <3>1. b \in Block /\ Cardinality(Here(f, b)) <= 0
        BY <1>4, <1>5 DEF SsdInv, Covered
      <3>2. \A p : p \in Here(f, b) => Cardinality(Here(f, b)) > 0
        BY HereFinite
      <3>3. Cardinality(Here(f, b)) \in Nat
        BY HereFinite
      <3>4. QED
        BY <3>1, <3>2, <3>3
    <2>2. QED
      BY <2>1
  <1>7. /\ g = AsRecord(g) /\ g.map = f.map /\ g.next = f.next /\ g.owner = f.owner
        /\ g.active = f.active /\ g.rev = f.rev /\ g.used = f.used /\ g.valid = f.valid
        /\ g.erased = [b \in Block |-> f.erased[b] /\ b \notin E]
        /\ g.free = f.free \cup E
    BY <1>1, <1>3 DEF ReleaseEmptied, FtlState, AsRecord
  <1>8. g \in FtlState
    <2>1. g.erased \in [Block -> BOOLEAN]
      BY <1>2, <1>7
    <2>2. g.free \subseteq Block
      BY <1>2, <1>4, <1>5, <1>7
    <2>3. QED
      BY <1>2, <1>7, <2>1, <2>2, FromTables
  <1>9. /\ \A p \in Page : Mapped(g, p) <=> Mapped(f, p)
        /\ \A c \in Block : Here(g, c) = Here(f, c)
    BY <1>7 DEF Mapped, Here
  <1>10. MappedPagesAllocated(g)
    <2>1. ASSUME NEW p \in Page, Mapped(g, p)
          PROVE  /\ g.map[p].blk \in Block /\ g.map[p].blk < g.next
                 /\ g.map[p].blk \notin g.free
                 /\ g.map[p].off < g.used[g.map[p].blk]
                 /\ g.owner[g.map[p].blk] = SubarrayOf[p]
      <3> DEFINE c == f.map[p].blk
      <3>1. /\ Mapped(f, p) /\ c \in Block /\ c < f.next /\ c \notin f.free
            /\ f.map[p].off < f.used[c] /\ f.owner[c] = SubarrayOf[p]
        BY <1>9, <2>1 DEF SsdInv, MappedPagesAllocated
      <3>2. c \notin E
        BY <1>6, <3>1 DEF Here
      <3>3. QED
        BY <1>7, <3>1, <3>2
    <2>2. QED
      BY <2>1 DEF MappedPagesAllocated
  <1>11. MappedPagesDistinct(g) /\ Covered(g)
    BY <1>7, <1>9 DEF SsdInv, MappedPagesDistinct, Covered
  <1>12. OpenBlocksHaveRoom(g)
    <2>1. \A t \in Subarray : f.active[t] \notin E
      BY <1>4, <1>5
    <2>2. QED
      BY <1>7, <2>1 DEF SsdInv, OpenBlocksHaveRoom
  <1>13. \A c \in g.free : c < g.next
    BY <1>4, <1>5, <1>7 DEF SsdInv
  <1>14. OwnersStay(f, g)
    BY <1>2, <1>7 DEF OwnersStay
  <1>15. \A v \in Victims(f) : Movable(g, v)
    <2>1. \A v \in Victims(f) : v \in Settled(f) /\ v \notin E
      BY <1>3 DEF Victims, Candidates
    <2>2. QED
      BY <1>4, <1>7, <2>1 DEF Movable
  <1>16. QED
    BY <1>8, <1>10, <1>11, <1>12, <1>13, <1>14, <1>15 DEF SsdInv

LEMMA CollectionsInv ==
  ASSUME NEW f, SsdInv(f), NEW s \in Subarray, NEW c \in Collections(f, s)
  PROVE  /\ SsdInv(c.ftl) /\ OwnersStay(f, c.ftl)
         /\ c.copies \in 0 .. NumPages /\ (c.copies > 0 => c.victim \in Block)
  <1>1. NumPages \in Nat /\ f.next \in Nat
    BY FtlAssumption, TablesOf DEF SsdInv
  <1>2. OwnersStay(f, f)
    BY <1>1 DEF OwnersStay
  <1>3. ASSUME NEW g, SsdInv(g), OwnersStay(f, g), c = NoGc(g)
        PROVE  /\ SsdInv(c.ftl) /\ OwnersStay(f, c.ftl)
               /\ c.copies \in 0 .. NumPages /\ (c.copies > 0 => c.victim \in Block)
    <2>1. c.ftl = g /\ c.copies = 0
      BY <1>3 DEF NoGc
    <2>2. QED
      BY <1>1, <1>3, <2>1
  <1>4. CASE c = NoGc(f)
    BY <1>2, <1>3, <1>4
  <1>5. CASE c \in GcOutcomes(f)
    <2>1. PICK g : g = ReleaseEmptied(f)
      OBVIOUS
    <2>2. SsdInv(g) /\ OwnersStay(f, g) /\ \A v \in Victims(f) : Movable(g, v)
      BY <2>1, ReleaseInv
    <2>3. c = NoGc(g) \/ \E v \in Victims(f) : c = Gc(g, v)
      BY <1>5, <2>1 DEF GcOutcomes
    <2>4. CASE c = NoGc(g)
      BY <1>3, <2>2, <2>4
    <2>5. ASSUME NEW v \in Victims(f), c = Gc(g, v)
          PROVE  /\ SsdInv(c.ftl) /\ OwnersStay(f, c.ftl)
                 /\ c.copies \in 0 .. NumPages /\ (c.copies > 0 => c.victim \in Block)
      <3>1. /\ SsdInv(c.ftl) /\ OwnersStay(g, c.ftl)
            /\ c.copies \in 0 .. NumPages /\ c.victim \in Block
        BY <2>2, <2>5, GcInv
      <3>2. g.next \in Nat /\ c.ftl.next \in Nat
        BY <2>2, <3>1, TablesOf DEF SsdInv
      <3>3. OwnersStay(f, c.ftl)
        BY <1>1, <2>2, <3>1, <3>2, OwnersTransitive
      <3>4. QED
        BY <3>1, <3>3
    <2>6. QED
      BY <2>3, <2>4, <2>5
  <1>6. QED
    BY <1>4, <1>5 DEF Collections

LEMMA SsdWritesInv ==
  ASSUME NEW f, SsdInv(f), NEW p \in Page,
         NEW c \in Collections(f, SubarrayOf[p]), NEW g \in SsdWrites(f, c, p)
  PROVE  SsdInv(g) /\ OwnersStay(f, g) /\ Mapped(g, p)
  <1> DEFINE s == SubarrayOf[p]
  <1>1. s \in Subarray /\ f.next \in Nat
    BY BlockFacts, TablesOf DEF SsdInv
  <1>2. ASSUME NEW h, SsdInv(h), NEW b \in Block, h.active[s] = b, g = SsdWriteInto(h, p, b)
        PROVE  SsdInv(g) /\ OwnersStay(h, g) /\ Mapped(g, p)
    <2>1. Placed(h, p, b, g)
      BY <1>2, SsdWriteTables
    <2>2. SsdInv(g) /\ OwnersStay(h, g)
      BY <1>2, <2>1, PlacedInv
    <2>3. h \in FtlState /\ g.map = MapAfter(h, p, b)
      BY <1>2, <2>1 DEF SsdInv, Placed, MapAfter
    <2>4. Mapped(g, p)
      BY <2>3, HereAfter
    <2>5. QED
      BY <2>2, <2>4
  <1>3. CASE f.active[s] # NoBlock
    <2>1. PICK b : b = f.active[s]
      OBVIOUS
    <2>2. b \in Block
      BY <1>1, <1>3, <2>1, TablesOf DEF SsdInv
    <2>3. g = SsdWriteInto(f, p, b)
      BY <1>3, <2>1 DEF SsdWrites
    <2>4. QED
      BY <1>2, <2>1, <2>2, <2>3
  <1>4. CASE f.active[s] = NoBlock
    <2>1. PICK k : k = c.ftl
      OBVIOUS
    <2>2. SsdInv(k) /\ OwnersStay(f, k)
      BY <1>1, <2>1, CollectionsInv
    <2>3. /\ k.next \in Nat /\ k.free \subseteq Block
          /\ k.active \in [Subarray -> Block \cup {NoBlock}]
      BY <2>2, TablesOf DEF SsdInv
    <2>4. PICK b \in AllocatableBlocks(k, s) :
            g = SsdWriteInto(Taken(k, s, b), p, Taken(k, s, b).active[s])
      BY <1>4, <2>1 DEF SsdWrites
    <2>5. b \in Block /\ (b \in Reusable(k, s) \/ b = k.next)
      BY <2>3, <2>4 DEF AllocatableBlocks, Reusable
    <2>6. PICK h : h = Taken(k, s, b)
      OBVIOUS
    <2>7. /\ SsdInv(h) /\ OwnersStay(k, h)
          /\ h.active = IF k.active[s] = NoBlock THEN [k.active EXCEPT ![s] = b] ELSE k.active
      BY <1>1, <2>2, <2>5, <2>6, TakenInv
    <2>8. PICK o : o = h.active[s]
      OBVIOUS
    <2>9. o \in Block
      BY <1>1, <2>3, <2>5, <2>7, <2>8
    <2>10. g = SsdWriteInto(h, p, o)
      BY <2>4, <2>6, <2>8
    <2>11. SsdInv(g) /\ OwnersStay(h, g) /\ Mapped(g, p)
      BY <1>2, <2>7, <2>8, <2>9, <2>10
    <2>12. h.next \in Nat /\ g.next \in Nat
      BY <2>7, <2>11, TablesOf DEF SsdInv
    <2>13. OwnersStay(f, h)
      BY <1>1, <2>2, <2>3, <2>7, <2>12, OwnersTransitive
    <2>14. OwnersStay(f, g)
      BY <1>1, <2>11, <2>12, <2>13, OwnersTransitive
    <2>15. QED
      BY <2>11, <2>14
  <1>5. QED
    BY <1>3, <1>4

-----------------------------------------------------------------------------
(***************************************************************************)
(* The media in SSD mode. The invariant of the tables is an invariant of   *)
(* the state; what it needs of the operations in flight is that the block  *)
(* they were given was allocated, so that it keeps its sub-array.          *)
(***************************************************************************)
FlightHome ==
  \A p \in Page : flight[p] # "none" /\ phys[p].blk \in Block =>
    phys[p].blk < ftl.next /\ ftl.owner[phys[p].blk] = SubarrayOf[p]

SsdMediaInv == SsdTypeOK /\ SsdInv(ftl) /\ FlightHome

LEMMA ProductBound ==
  ASSUME NEW a \in Nat, NEW b \in Nat, NEW c \in Nat, a <= b
  PROVE  a * c \in 0 .. b * c
  <1>1. PICK d \in Nat : b = a + d
    <2>1. b - a \in Nat /\ b = a + (b - a)
      OBVIOUS
    <2>2. QED
      BY <2>1
  <1>2. b * c = a * c + d * c /\ a * c \in Nat /\ d * c \in Nat
    BY <1>1
  <1>3. QED
    BY <1>2

LEMMA SsdInitInv == SsdInit => SsdMediaInv
  <1> SUFFICES ASSUME SsdInit PROVE SsdMediaInv
    OBVIOUS
  <1>1. /\ ftl = FtlInit /\ flight = [p \in Page |-> "none"]
        /\ phys = [p \in Page |-> Unmapped] /\ nand = [b \in Block |-> {}]
        /\ gcLeft = 0 /\ gcSub = CHOOSE s \in Subarray : TRUE
    BY DEF SsdInit, MediaInit
  <1>2. FtlInv(ftl)
    BY <1>1, FtlInitInv
  <1>3. Covered(ftl)
    <2>1. ASSUME NEW b \in Block
          PROVE  Here(ftl, b) \subseteq ftl.rev[b] /\ Cardinality(Here(ftl, b)) <= ftl.valid[b]
      <3>1. ftl.rev[b] = Here(ftl, b) /\ ftl.valid[b] = Cardinality(ftl.rev[b])
        BY <1>2 DEF FtlInv, ReverseIndexExact, Here
      <3>2. Cardinality(Here(ftl, b)) \in Nat
        BY HereFinite
      <3>3. QED
        BY <3>1, <3>2
    <2>2. QED
      BY <2>1 DEF Covered
  <1>4. SsdInv(ftl)
    BY <1>2, <1>3 DEF FtlInv, FreeBlocksDirty, SsdInv
  <1>5. MediaTypeOK
    <2>1. Unmapped \in Addr
      BY BlockFacts DEF Unmapped, Addr
    <2>2. QED
      BY <1>1, <1>4, <2>1 DEF MediaTypeOK, SsdInv, Stage
  <1>6. gcLeft \in 0 .. NumPages * TPROG
    BY <1>1, FtlAssumption, ProgramTime
  <1>7. gcSub \in Subarray
    BY <1>1, FtlAssumption
  <1>8. FlightHome
    BY <1>1 DEF FlightHome
  <1>9. QED
    BY <1>4, <1>5, <1>6, <1>7, <1>8 DEF SsdMediaInv, SsdTypeOK

\* The controller's own steps touch the erased marks at most.
LEMMA MarkKeepsTables ==
  ASSUME NEW f, SsdInv(f), NEW b, NEW x \in BOOLEAN, NEW g, g = [f EXCEPT !.erased[b] = x]
  PROVE  SsdInv(g) /\ g.next = f.next /\ g.owner = f.owner
  <1>1. f \in FtlState
    BY DEF SsdInv
  <1>2. /\ f.map \in [Page -> Addr] /\ f.rev \in [Block -> SUBSET Page]
        /\ f.next \in 0 .. MaxBlocks
        /\ f.owner \in [Block -> Subarray]
        /\ f.used \in [Block -> 0 .. PagesPerBlock] /\ f.valid \in [Block -> Nat]
        /\ f.erased \in [Block -> BOOLEAN] /\ f.free \subseteq Block
        /\ f.active \in [Subarray -> Block \cup {NoBlock}]
    BY <1>1, TablesOf
  <1>3. /\ g = AsRecord(g) /\ g.map = f.map /\ g.next = f.next /\ g.owner = f.owner
        /\ g.active = f.active /\ g.rev = f.rev /\ g.used = f.used /\ g.valid = f.valid
        /\ g.erased = [f.erased EXCEPT ![b] = x] /\ g.free = f.free
    BY <1>1 DEF FtlState, AsRecord
  <1>4. g.erased \in [Block -> BOOLEAN]
    <2>1. PICK e : e = f.erased
      OBVIOUS
    <2>2. e \in [Block -> BOOLEAN] /\ g.erased = [e EXCEPT ![b] = x]
      BY <1>2, <1>3, <2>1
    <2>3. [e EXCEPT ![b] = x] \in [Block -> BOOLEAN]
      <3>1. e \in [Block -> BOOLEAN]
        BY <2>2
      <3>2. QED
        BY <3>1, Zenon
    <2>4. QED
      BY <2>2, <2>3
  <1>5. g \in FtlState
    BY <1>2, <1>3, <1>4, FromTables
  <1>6. /\ \A p \in Page : Mapped(g, p) <=> Mapped(f, p)
        /\ \A c \in Block : Here(g, c) = Here(f, c)
    BY <1>3 DEF Mapped, Here
  <1>7. MappedPagesAllocated(g) /\ MappedPagesDistinct(g)
    BY <1>3, <1>6 DEF SsdInv, MappedPagesAllocated, MappedPagesDistinct
  <1>8. Covered(g)
    BY <1>3, <1>6 DEF SsdInv, Covered
  <1>9. OpenBlocksHaveRoom(g)
    BY <1>3 DEF SsdInv, OpenBlocksHaveRoom
  <1>10. \A c \in g.free : c < g.next
    BY <1>3 DEF SsdInv
  <1>11. QED
    BY <1>3, <1>5, <1>7, <1>8, <1>9, <1>10 DEF SsdInv

\* An operation in flight that the step leaves alone, or ends.
LEMMA FlightStays ==
  ASSUME SsdMediaInv, SsdInv(ftl)', OwnersStay(ftl, ftl'), NEW p \in Page,
         flight'[p] = "none" \/ (flight[p] # "none" /\ phys'[p] = phys[p])
  PROVE  flight'[p] # "none" /\ phys'[p].blk \in Block =>
           phys'[p].blk < ftl'.next /\ ftl'.owner[phys'[p].blk] = SubarrayOf[p]
  <1>1. ftl.next \in Nat /\ ftl'.next \in Nat
    BY TablesOf DEF SsdMediaInv, SsdInv
  <1>2. SUFFICES ASSUME flight[p] # "none", phys'[p] = phys[p], phys[p].blk \in Block
                 PROVE  phys'[p].blk < ftl'.next /\ ftl'.owner[phys'[p].blk] = SubarrayOf[p]
    OBVIOUS
  <1> DEFINE b == phys[p].blk
  <1>3. b \in Nat /\ b \in Block
    BY <1>2, BlockFacts
  <1>4. b < ftl.next /\ ftl.owner[b] = SubarrayOf[p]
    BY <1>2 DEF SsdMediaInv, FlightHome
  <1>5. ftl.next <= ftl'.next /\ ftl'.owner[b] = ftl.owner[b]
    BY <1>3, <1>4 DEF OwnersStay
  <1>6. QED
    BY <1>1, <1>2, <1>3, <1>4, <1>5

LEMMA SsdAdmitWriteStep ==
  ASSUME SsdMediaInv, NEW p \in Page, SsdAdmitWrite(p)
  PROVE  SsdMediaInv'
  <1>1. /\ ftl \in FtlState /\ flight \in [Page -> Stage] /\ phys \in [Page -> Addr]
        /\ nand \in [Block -> SUBSET Nat] /\ gcLeft \in 0 .. NumPages * TPROG
        /\ gcSub \in Subarray /\ SsdInv(ftl) /\ SubarrayOf[p] \in Subarray
    BY BlockFacts DEF SsdMediaInv, SsdTypeOK, MediaTypeOK
  <1>2. PICK c \in Collections(ftl, SubarrayOf[p]) :
          /\ ftl' \in SsdWrites(ftl, c, p)
          /\ nand' = [b \in Block |-> IF b = c.victim /\ ~c.failed THEN {}
                                        ELSE nand[b] \cup CopiedTo(c, b)]
          /\ IF c.copies > 0 /\ ~c.failed
               THEN gcLeft' = c.copies * TPROG /\ gcSub' = c.ftl.owner[c.victim]
               ELSE UNCHANGED gcVars
    BY DEF SsdAdmitWrite
  <1>3. /\ flight' = [flight EXCEPT ![p] = "write"]
        /\ phys' = [phys EXCEPT ![p] = ftl'.map[p]]
    BY DEF SsdAdmitWrite
  <1>4. /\ SsdInv(c.ftl) /\ OwnersStay(ftl, c.ftl)
        /\ c.copies \in 0 .. NumPages /\ (c.copies > 0 => c.victim \in Block)
    BY <1>1, CollectionsInv
  <1>5. SsdInv(ftl') /\ OwnersStay(ftl, ftl') /\ Mapped(ftl', p)
    BY <1>1, <1>2, SsdWritesInv
  <1>6. /\ c.ftl.map \in [Page -> Addr] /\ c.ftl.owner \in [Block -> Subarray]
        /\ ftl' \in FtlState /\ ftl'.map \in [Page -> Addr]
    BY <1>4, <1>5, TablesOf DEF SsdInv
  <1>7. nand' \in [Block -> SUBSET Nat]
    <2>1. \A b \in Block : CopiedTo(c, b) \subseteq Nat
      BY <1>6 DEF CopiedTo, Addr
    <2>2. QED
      BY <1>1, <1>2, <2>1
  <1>8. gcLeft' \in 0 .. NumPages * TPROG /\ gcSub' \in Subarray
    <2>1. CASE c.copies > 0 /\ ~c.failed
      <3>1. c.copies \in Nat /\ NumPages \in Nat /\ TPROG \in Nat /\ c.copies <= NumPages
        BY <1>4, FtlAssumption, ProgramTime
      <3>2. c.copies * TPROG \in 0 .. NumPages * TPROG
        BY <3>1, ProductBound
      <3>3. c.ftl.owner[c.victim] \in Subarray
        BY <1>4, <1>6, <2>1
      <3>4. QED
        BY <1>2, <2>1, <3>2, <3>3
    <2>2. CASE ~(c.copies > 0 /\ ~c.failed)
      BY <1>1, <1>2, <2>2 DEF gcVars
    <2>3. QED
      BY <2>1, <2>2
  <1>9. flight' \in [Page -> Stage] /\ phys' \in [Page -> Addr]
    BY <1>1, <1>3, <1>6 DEF Stage
  <1>10. ASSUME NEW q \in Page, flight'[q] # "none", phys'[q].blk \in Block
         PROVE  phys'[q].blk < ftl'.next /\ ftl'.owner[phys'[q].blk] = SubarrayOf[q]
    <2>1. CASE q = p
      <3>1. phys'[q] = ftl'.map[p]
        BY <1>1, <1>3, <2>1
      <3>2. /\ ftl'.map[p].blk < ftl'.next
            /\ ftl'.owner[ftl'.map[p].blk] = SubarrayOf[p]
        BY <1>5 DEF SsdInv, MappedPagesAllocated
      <3>3. QED
        BY <2>1, <3>1, <3>2
    <2>2. CASE q # p
      <3>1. flight'[q] = flight[q] /\ phys'[q] = phys[q]
        BY <1>1, <1>3, <2>2
      <3>2. QED
        BY <1>5, <1>10, <3>1, FlightStays
    <2>3. QED
      BY <2>1, <2>2
  <1>11. QED
    BY <1>5, <1>6, <1>7, <1>8, <1>9, <1>10
    DEF SsdMediaInv, SsdTypeOK, MediaTypeOK, FlightHome

LEMMA OperateStep ==
  ASSUME SsdMediaInv, NEW p \in Page, Operate(p)
  PROVE  SsdMediaInv'
  <1>1. /\ ftl \in FtlState /\ flight \in [Page -> Stage] /\ phys \in [Page -> Addr]
        /\ nand \in [Block -> SUBSET Nat] /\ gcLeft \in 0 .. NumPages * TPROG
        /\ gcSub \in Subarray /\ SsdInv(ftl)
    BY DEF SsdMediaInv, SsdTypeOK, MediaTypeOK
  <1>2. gcLeft' = gcLeft /\ gcSub' = gcSub
    BY DEF Operate, gcVars
  <1>3. \/ AdmitRead(p) \/ StartRead(p) \/ CacheHit(p)
        \/ StartErase(p) \/ EraseDone(p) \/ StartProgram(p)
        \/ MediaDone(p) \/ Retire(p)
    BY DEF Operate
  <1>4. /\ flight' \in [Page -> Stage] /\ phys' \in [Page -> Addr]
        /\ nand' \in [Block -> SUBSET Nat]
    <2>1. ReadAddr(ftl, p) \in Addr /\ Unmapped \in Addr
      BY <1>1, ReadAddrType, BlockFacts DEF Unmapped, Addr
    <2>2. flight' \in [Page -> Stage]
      BY <1>1, <1>3
      DEF AdmitRead, StartRead, CacheHit, StartErase, EraseDone, StartProgram, MediaDone,
          Retire, Stage
    <2>3. phys' \in [Page -> Addr]
      BY <1>1, <1>3, <2>1
      DEF AdmitRead, StartRead, CacheHit, StartErase, EraseDone, StartProgram, MediaDone, Retire
    <2>4. CASE StartErase(p)
      BY <1>1, <2>2, <2>3, <2>4 DEF StartErase
    <2>5. CASE StartProgram(p)
      <3>1. phys[p].off \in Nat
        BY <1>1 DEF Addr
      <3>2. QED
        BY <1>1, <2>2, <2>3, <2>5, <3>1 DEF StartProgram
    <2>6. CASE ~StartErase(p) /\ ~StartProgram(p)
      BY <1>1, <1>3, <2>2, <2>3, <2>6
      DEF AdmitRead, StartRead, CacheHit, EraseDone, MediaDone, Retire
    <2>7. QED
      BY <2>4, <2>5, <2>6
  <1>5. SsdInv(ftl') /\ ftl'.next = ftl.next /\ ftl'.owner = ftl.owner
    <2>1. CASE StartErase(p)
      <3>1. ftl' = [ftl EXCEPT !.erased[phys[p].blk] = FALSE]
        BY <2>1 DEF StartErase, MarkBlockErasing
      <3>2. QED
        BY <1>1, <3>1, MarkKeepsTables
    <2>2. CASE EraseDone(p)
      <3>1. ftl' = [ftl EXCEPT !.erased[phys[p].blk] = TRUE]
        BY <2>2 DEF EraseDone, MarkBlockErased
      <3>2. QED
        BY <1>1, <3>1, MarkKeepsTables, ZenonT(60)
    <2>3. CASE ~StartErase(p) /\ ~EraseDone(p)
      <3>1. ftl' = ftl
        BY <1>3, <2>3 DEF AdmitRead, StartRead, CacheHit, StartProgram, MediaDone, Retire
      <3>2. QED
        BY <1>1, <3>1
    <2>4. QED
      BY <2>1, <2>2, <2>3
  <1>6. OwnersStay(ftl, ftl') /\ ftl' \in FtlState
    <2>1. ftl.next \in Nat
      BY <1>1, TablesOf
    <2>2. QED
      BY <1>5, <2>1 DEF OwnersStay, SsdInv
  <1>7. ASSUME NEW q \in Page, flight'[q] # "none", phys'[q].blk \in Block
        PROVE  phys'[q].blk < ftl'.next /\ ftl'.owner[phys'[q].blk] = SubarrayOf[q]
    <2>1. CASE q = p /\ AdmitRead(p)
      <3>1. phys'[q] = ReadAddr(ftl, p) /\ ftl' = ftl
        BY <1>1, <2>1 DEF AdmitRead
      <3>2. CASE Mapped(ftl, p)
        BY <1>1, <2>1, <3>1, <3>2 DEF ReadAddr, SsdInv, MappedPagesAllocated
      <3>3. CASE ~Mapped(ftl, p)
        <4>1. phys'[q].blk >= MaxBlocks
          BY <3>1, <3>3, PseudoAddrAbove DEF ReadAddr
        <4>2. phys'[q].blk \in 0 .. MaxBlocks - 1 /\ MaxBlocks \in Nat
          BY <1>7, FtlAssumption DEF Block
        <4>3. QED
          BY <4>1, <4>2
      <3>4. QED
        BY <3>2, <3>3
    <2>2. CASE ~(q = p /\ AdmitRead(p))
      <3>1. flight'[q] = "none" \/ (flight[q] # "none" /\ phys'[q] = phys[q])
        BY <1>1, <1>3, <1>7, <2>2
        DEF AdmitRead, StartRead, CacheHit, StartErase, EraseDone, StartProgram, MediaDone,
            Retire
      <3>2. QED
        BY <1>5, <1>6, <1>7, <3>1, FlightStays
    <2>3. QED
      BY <2>1, <2>2
  <1>8. QED
    BY <1>1, <1>2, <1>4, <1>5, <1>6, <1>7 DEF SsdMediaInv, SsdTypeOK, MediaTypeOK, FlightHome

LEMMA SsdMediaInvStep == SsdMediaInv /\ [SsdNext]_ssdVars => SsdMediaInv'
  <1> SUFFICES ASSUME SsdMediaInv, [SsdNext]_ssdVars PROVE SsdMediaInv'
    OBVIOUS
  <1>1. CASE FtlCycle
    <2>1. gcLeft' \in 0 .. NumPages * TPROG
      <3>1. gcLeft \in 0 .. NumPages * TPROG /\ gcLeft > 0 /\ gcLeft' = gcLeft - 1
        BY <1>1 DEF SsdMediaInv, SsdTypeOK, FtlCycle
      <3>2. PICK m : m = NumPages * TPROG
        OBVIOUS
      <3>3. m \in Nat
        BY <3>2, FtlAssumption, ProgramTime
      <3>4. QED
        BY <3>1, <3>2, <3>3
    <2>2. QED
      BY <1>1, <2>1
      DEF SsdMediaInv, SsdTypeOK, MediaTypeOK, FlightHome, FtlCycle, mediaVars
  <1>2. ASSUME NEW p \in Page, SsdAdmitWrite(p) PROVE SsdMediaInv'
    BY <1>2, SsdAdmitWriteStep
  <1>3. ASSUME NEW p \in Page, Operate(p) PROVE SsdMediaInv'
    BY <1>3, OperateStep
  <1>4. CASE UNCHANGED ssdVars
    BY <1>4 DEF SsdMediaInv, SsdTypeOK, MediaTypeOK, FlightHome, ssdVars, mediaVars, gcVars
  <1>5. QED
    BY <1>1, <1>2, <1>3, <1>4 DEF SsdNext

\* The inductive invariant of the media in SSD mode.
THEOREM SsdMediaInvariant == SsdSpec => []SsdMediaInv
  <1>1. SsdInit => SsdMediaInv
    BY SsdInitInv
  <1>2. SsdMediaInv /\ [SsdNext]_ssdVars => SsdMediaInv'
    BY SsdMediaInvStep
  <1>3. QED
    BY <1>1, <1>2, PTL DEF SsdSpec

\* The tables that a collection works on claim at least what there is, also
\* after one that stopped half way (hbf_ftl.cc, gc()).
THEOREM SsdTables == SsdSpec => []TablesSound
  <1>1. SsdMediaInv => TablesSound
    <2> SUFFICES ASSUME SsdMediaInv PROVE TablesSound
      OBVIOUS
    <2>1. SsdTypeOK /\ SsdInv(ftl)
      BY DEF SsdMediaInv
    <2>2. IndexCovers
      BY <2>1 DEF SsdInv, Covered, Here, IndexCovers
    <2>3. NoTwoAtOnePlace /\ OpenBlocksUsable
      BY <2>1 DEF SsdInv, NoTwoAtOnePlace, OpenBlocksUsable
    <2>4. QED
      BY <2>1, <2>2, <2>3 DEF TablesSound
  <1>2. QED
    BY <1>1, SsdMediaInvariant, PTL

\* A collection keeps every page in its sub-array, below the cursor of an
\* allocated block (hbf_ftl.cc, allocate_page_for_gc()).
THEOREM SsdRelocation == SsdSpec => []RelocationKeepsAffinity
  <1>1. SsdMediaInv => RelocationKeepsAffinity
    BY DEF SsdMediaInv, SsdInv, RelocationKeepsAffinity
  <1>2. QED
    BY <1>1, SsdMediaInvariant, PTL

\* The address an operation has, fresh or stale, lies in the sub-array of its
\* page, so that no collection makes the scheduler's check fail
\* (hbf_controller.cc:858-864).
THEOREM SsdFlightAffinity == SsdSpec => []FlightKeepsAffinity
  <1>1. SsdMediaInv => FlightKeepsAffinity
    BY DEF SsdMediaInv, FlightHome, FlightKeepsAffinity
  <1>2. QED
    BY <1>1, SsdMediaInvariant, PTL
=============================================================================
