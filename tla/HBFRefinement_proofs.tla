------------------------ MODULE HBFRefinement_proofs ------------------------
(***************************************************************************)
(* The controller implements the media protocol of HBFMedia.tla and the    *)
(* device of HBFDevice.tla, and has the properties of HBFProperties.tla,   *)
(* in every configuration. ControllerInv and the invariant of the media    *)
(* protocol need each other: a page is admitted to well-formed tables, and *)
(* a step of the controller is one of the protocol.                        *)
(***************************************************************************)
EXTENDS HBFOrder, HBFController_proofs

\* The media protocol, as the controller's state shows it. SSD mode, for which
\* the last three stand, has no part in what is used of it.
M == INSTANCE HBFMedia_proofs
       WITH flight <- [p \in Page |-> StageOf(p)],
            phys <- [p \in Page |-> mshr[p].phys],
            Overprovisioning <- 0, gcLeft <- 0, gcSub <- CHOOSE s \in Subarray : TRUE

MediaPart == IF UseFtl THEN M!MediaInv ELSE ftl = FtlInit /\ nand = [b \in Block |-> {}]

-----------------------------------------------------------------------------
(***************************************************************************)
(* An instance of HBFMedia brings its own copy of every operator of the    *)
(* FTL. The copies are the operators.                                      *)
(***************************************************************************)
LEMMA SameFtl ==
  /\ \A f, p : M!FtlWrites(f, p) = FtlWrites(f, p)
  /\ \A f, p : Media!FtlWrites(f, p) = FtlWrites(f, p)
  /\ \A f, p : M!ReadAddr(f, p) = ReadAddr(f, p)
  /\ \A f, p : Media!ReadAddr(f, p) = ReadAddr(f, p)
  /\ M!Unmapped = Unmapped /\ Media!Unmapped = Unmapped
  /\ M!Page = Page /\ Media!Page = Page /\ M!Block = Block /\ Media!Block = Block
  <1>1. /\ \A f, p : M!FtlWrites(f, p) = FtlWrites(f, p)
        /\ \A f, p : M!ReadAddr(f, p) = ReadAddr(f, p)
        /\ M!Unmapped = Unmapped /\ M!Page = Page /\ M!Block = Block
    <2>1. /\ M!NoBlock = NoBlock /\ M!Unmapped = Unmapped
          /\ M!Page = Page /\ M!Block = Block
      BY DEF M!NoBlock, NoBlock, M!Unmapped, Unmapped, M!Page, Page, M!Block, Block
    <2>2. \A f, p : M!Mapped(f, p) <=> Mapped(f, p)
      BY <2>1 DEF M!Mapped, Mapped
    <2>3. \A f, s : M!Reusable(f, s) = Reusable(f, s)
      BY DEF M!Reusable, Reusable
    <2>4. \A f, s : M!AllocatableBlocks(f, s) = AllocatableBlocks(f, s)
      BY <2>1, <2>3 DEF M!AllocatableBlocks, AllocatableBlocks
    <2>5. \A f, s, b : M!OpenBlock(f, s, b) = OpenBlock(f, s, b)
      BY DEF M!OpenBlock, OpenBlock
    <2>6. \A f, s, b : M!ReservePage(f, s, b) = ReservePage(f, s, b)
      BY <2>1 DEF M!ReservePage, ReservePage
    <2>7. \A f, b : M!RetireBlock(f, b) = RetireBlock(f, b)
      BY <2>1 DEF M!RetireBlock, RetireBlock
    <2>8. \A f, p : M!Invalidate(f, p) = Invalidate(f, p)
      BY <2>1, <2>7 DEF M!Invalidate, Invalidate, M!LastValid, LastValid
    <2>9. \A f, p, b, o : M!CommitMapping(f, p, b, o) = CommitMapping(f, p, b, o)
      <3> SUFFICES ASSUME NEW f, NEW p, NEW b, NEW o
                   PROVE  M!CommitMapping(f, p, b, o) = CommitMapping(f, p, b, o)
        OBVIOUS
      <3> DEFINE g == IF M!Mapped(f, p) THEN M!Invalidate(f, p) ELSE f
                 h == IF Mapped(f, p) THEN Invalidate(f, p) ELSE f
                 Commit(x) == [x EXCEPT !.map[p] = [blk |-> b, off |-> o],
                                        !.rev[b] = @ \cup {p}]
      <3>1. g = h
        BY <2>2, <2>8
      <3>2. M!CommitMapping(f, p, b, o) = Commit(g) /\ CommitMapping(f, p, b, o) = Commit(h)
        BY DEF M!CommitMapping, CommitMapping
      <3> HIDE DEF g, h, Commit
      <3>3. QED
        BY <3>1, <3>2
    <2>10. \A f, p, b : M!WriteInto(f, p, b) = WriteInto(f, p, b)
      BY <2>6, <2>9 DEF M!WriteInto, WriteInto
    <2>11. \A f, p : M!FtlWrites(f, p) = FtlWrites(f, p)
      BY <2>1, <2>4, <2>5, <2>10 DEF M!FtlWrites, FtlWrites
    <2>12. \A f, p : M!ReadAddr(f, p) = ReadAddr(f, p)
      BY <2>2 DEF M!ReadAddr, ReadAddr, M!PseudoAddr, PseudoAddr
    <2>13. QED
      BY <2>1, <2>11, <2>12
  <1>2. /\ \A f, p : Media!FtlWrites(f, p) = FtlWrites(f, p)
        /\ \A f, p : Media!ReadAddr(f, p) = ReadAddr(f, p)
        /\ Media!Unmapped = Unmapped /\ Media!Page = Page /\ Media!Block = Block
    <2>1. /\ Media!NoBlock = NoBlock /\ Media!Unmapped = Unmapped
          /\ Media!Page = Page /\ Media!Block = Block
      BY DEF Media!NoBlock, NoBlock, Media!Unmapped, Unmapped, Media!Page, Page, Media!Block, Block
    <2>2. \A f, p : Media!Mapped(f, p) <=> Mapped(f, p)
      BY <2>1 DEF Media!Mapped, Mapped
    <2>3. \A f, s : Media!Reusable(f, s) = Reusable(f, s)
      BY DEF Media!Reusable, Reusable
    <2>4. \A f, s : Media!AllocatableBlocks(f, s) = AllocatableBlocks(f, s)
      BY <2>1, <2>3 DEF Media!AllocatableBlocks, AllocatableBlocks
    <2>5. \A f, s, b : Media!OpenBlock(f, s, b) = OpenBlock(f, s, b)
      BY DEF Media!OpenBlock, OpenBlock
    <2>6. \A f, s, b : Media!ReservePage(f, s, b) = ReservePage(f, s, b)
      BY <2>1 DEF Media!ReservePage, ReservePage
    <2>7. \A f, b : Media!RetireBlock(f, b) = RetireBlock(f, b)
      BY <2>1 DEF Media!RetireBlock, RetireBlock
    <2>8. \A f, p : Media!Invalidate(f, p) = Invalidate(f, p)
      BY <2>1, <2>7 DEF Media!Invalidate, Invalidate, Media!LastValid, LastValid
    <2>9. \A f, p, b, o : Media!CommitMapping(f, p, b, o) = CommitMapping(f, p, b, o)
      <3> SUFFICES ASSUME NEW f, NEW p, NEW b, NEW o
                   PROVE  Media!CommitMapping(f, p, b, o) = CommitMapping(f, p, b, o)
        OBVIOUS
      <3> DEFINE g == IF Media!Mapped(f, p) THEN Media!Invalidate(f, p) ELSE f
                 h == IF Mapped(f, p) THEN Invalidate(f, p) ELSE f
                 Commit(x) == [x EXCEPT !.map[p] = [blk |-> b, off |-> o],
                                        !.rev[b] = @ \cup {p}]
      <3>1. g = h
        BY <2>2, <2>8
      <3>2. Media!CommitMapping(f, p, b, o) = Commit(g) /\ CommitMapping(f, p, b, o) = Commit(h)
        BY DEF Media!CommitMapping, CommitMapping
      <3> HIDE DEF g, h, Commit
      <3>3. QED
        BY <3>1, <3>2
    <2>10. \A f, p, b : Media!WriteInto(f, p, b) = WriteInto(f, p, b)
      BY <2>6, <2>9 DEF Media!WriteInto, WriteInto
    <2>11. \A f, p : Media!FtlWrites(f, p) = FtlWrites(f, p)
      BY <2>1, <2>4, <2>5, <2>10 DEF Media!FtlWrites, FtlWrites
    <2>12. \A f, p : Media!ReadAddr(f, p) = ReadAddr(f, p)
      BY <2>2 DEF Media!ReadAddr, ReadAddr, Media!PseudoAddr, PseudoAddr
    <2>13. QED
      BY <2>1, <2>11, <2>12
  <1>3. QED
    BY <1>1, <1>2

-----------------------------------------------------------------------------
(***************************************************************************)
(* The steps of the controller as steps of the media protocol.             *)
(***************************************************************************)
flightOf == [p \in Page |-> StageOf(p)]
physOf   == [p \in Page |-> mshr[p].phys]

StageOfEntry(e) ==
  CASE e.op = "none" -> "none"
    [] e.op # "none" /\ (e.deliver \/ e.hit > 0) -> "done"
    [] e.op = "waiting" /\ ~e.deliver /\ e.hit = 0 ->
         IF e.write THEN "write" ELSE "read"
    [] OTHER -> e.op

LEMMA EntryStages ==
  ASSUME NEW p \in Page, NEW e \in Entry, EntryOK(p, e)
  PROVE  /\ e.op = "none" => StageOfEntry(e) = "none"
         /\ e.op # "none" /\ e.deliver => StageOfEntry(e) = "done"
         /\ e.hit > 0 => StageOfEntry(e) = "done"
         /\ Waits(e) => StageOfEntry(e) = IF e.write THEN "write" ELSE "read"
         /\ Served(e) => StageOfEntry(e) = e.op
         /\ ~Served(e) => StageOfEntry(e) \notin {"reading", "erasing", "programming"}
  <1>1. /\ e.op \in Op /\ e.hit \in Nat /\ e.deliver \in BOOLEAN /\ e.write \in BOOLEAN
        /\ e.hit > 0 => e.op = "waiting"
    BY EntryTypes DEF EntryOK
  <1> DEFINE none == e.op = "none"
             done == e.op # "none" /\ (e.deliver \/ e.hit > 0)
             wait == e.op = "waiting" /\ ~e.deliver /\ e.hit = 0
  <1>2. ~(none /\ done) /\ ~(none /\ wait) /\ ~(done /\ wait)
    OBVIOUS
  <1>3. /\ none => StageOfEntry(e) = "none"
        /\ done => StageOfEntry(e) = "done"
        /\ wait => StageOfEntry(e) = IF e.write THEN "write" ELSE "read"
        /\ ~none /\ ~done /\ ~wait => StageOfEntry(e) = e.op
    <2>1. CASE none
      BY <2>1 DEF StageOfEntry
    <2>2. CASE done
      BY <1>2, <2>2 DEF StageOfEntry
    <2>3. CASE wait
      BY <1>2, <2>3 DEF StageOfEntry
    <2>4. CASE ~none /\ ~done /\ ~wait
      BY <2>4 DEF StageOfEntry
    <2>5. QED
      BY <2>1, <2>2, <2>3, <2>4
  <1>4. /\ Waits(e) <=> wait
        /\ Served(e) <=> ~none /\ ~done /\ ~wait
    BY <1>1 DEF Waits, Served
  <1>5. e.hit > 0 => done
    BY <1>1
  <1>6. e.op # "none" /\ e.deliver => done
    OBVIOUS
  <1> HIDE DEF none, done, wait
  <1>7. ~Served(e) => StageOfEntry(e) \in {"none", "done", "write", "read"}
    BY <1>3, <1>4
  <1>8. e.op = "none" => none
    BY DEF none
  <1>9. QED
    BY <1>3, <1>4, <1>5, <1>6, <1>7, <1>8

LEMMA StageView ==
  /\ \A p \in Page : /\ StageOf(p) = StageOfEntry(mshr[p])
                     /\ flightOf[p] = StageOfEntry(mshr[p]) /\ physOf[p] = mshr[p].phys
  /\ \A p \in Page : /\ StageOf(p)' = StageOfEntry(mshr'[p])
                     /\ flightOf'[p] = StageOfEntry(mshr'[p]) /\ physOf'[p] = mshr'[p].phys
  <1>1. \A p \in Page : StageOf(p) = StageOfEntry(mshr[p])
    BY DEF StageOf, StageOfEntry, InMshr
  <1>2. \A p \in Page : StageOf(p)' = StageOfEntry(mshr'[p])
    BY DEF StageOf, StageOfEntry, InMshr
  <1>3. QED
    BY <1>1, <1>2 DEF flightOf, physOf

\* The entries move only within their stage.
LEMMA StagesKept ==
  ASSUME ControllerInv, UNCHANGED <<ftl, nand>>,
         \A p \in Page : /\ StageOfEntry(mshr'[p]) = StageOfEntry(mshr[p])
                         /\ mshr'[p].phys = mshr[p].phys
  PROVE  UNCHANGED Media!mediaVars
  <1>1. flightOf' = flightOf /\ physOf' = physOf
    <2>1. \A p \in Page : StageOf(p)' = StageOf(p)
      BY StageView
    <2>2. QED
      BY <2>1 DEF flightOf, physOf
  <1>2. QED
    BY <1>1 DEF Media!mediaVars, flightOf, physOf

\* The entry of p moves to another stage.
LEMMA StageMoves ==
  ASSUME ControllerInv, NEW p \in Page,
         \A q \in Page : q # p => mshr'[q] = mshr[q]
  PROVE  /\ flightOf' = [flightOf EXCEPT ![p] = StageOfEntry(mshr'[p])]
         /\ physOf' = [physOf EXCEPT ![p] = mshr'[p].phys]
         /\ mshr'[p].phys = mshr[p].phys => physOf' = physOf
  <1>1. \A q \in Page : q # p => StageOf(q)' = StageOf(q)
    BY StageView
  <1>2. StageOf(p)' = StageOfEntry(mshr'[p])
    BY StageView
  <1>3. flightOf' = [flightOf EXCEPT ![p] = StageOfEntry(mshr'[p])]
    BY <1>1, <1>2 DEF flightOf
  <1>4. QED
    BY <1>3 DEF physOf

\* An idle sub-array performs no operation of the protocol.
LEMMA IdleSubarray ==
  ASSUME ControllerInv, NEW s \in Subarray, busy[s] = 0
  PROVE  Media!SubarrayIdle(s)
  <1>1. ASSUME NEW q \in Page, SubarrayOf[q] = s
        PROVE  ~Media!OnMedia(flightOf[q])
    <2>1. ~Served(mshr[q])
      BY <1>1 DEF ControllerInv, ServiceInv
    <2>2. mshr[q] \in Entry /\ EntryOK(q, mshr[q])
      BY Types DEF ControllerInv, EntriesInv
    <2>3. flightOf[q] \notin {"reading", "erasing", "programming"}
      BY <2>1, <2>2, EntryStages, StageView
    <2>4. QED
      BY <2>3 DEF Media!OnMedia
  <1>2. QED
    BY <1>1, SameFtl DEF Media!SubarrayIdle, flightOf

LEMMA FlushAdmits ==
  ASSUME ControllerInv, ControllerInv', UseFtl, NEW p \in Page, ~InMshr(p),
         NEW reqs, NEW attached, FlushEntry(p, reqs, attached), nand' = nand
  PROVE  Media!AdmitWrite(p)
  <1> DEFINE e == WaitingEntry(reqs \o attached, TRUE, FALSE, ftl'.map[p])
  <1>1. mshr' = [mshr EXCEPT ![p] = e] /\ ftl' \in FtlWrites(ftl, p)
    BY DEF FlushEntry
  <1>2. mshr'[p] = e /\ \A q \in Page : q # p => mshr'[q] = mshr[q]
    BY <1>1, Types DEF ControllerInv
  <1>3. Waits(e) /\ e.write = TRUE /\ e.phys = ftl'.map[p]
    BY DEF Waits, WaitingEntry
  <1> HIDE DEF e
  <1>4. flightOf[p] = "none"
    BY StageView, EntryStages, Types DEF InMshr, ControllerInv, EntriesInv
  <1>5. StageOfEntry(mshr'[p]) = "write"
    <2>1. mshr'[p] \in Entry /\ EntryOK(p, mshr'[p])
      BY DEF ControllerInv, ControllerTypeOK, EntriesInv
    <2>2. QED
      BY <1>2, <1>3, <2>1, EntryStages
  <1>6. /\ flightOf' = [flightOf EXCEPT ![p] = "write"]
        /\ physOf' = [physOf EXCEPT ![p] = ftl'.map[p]]
    BY <1>2, <1>3, <1>5, StageMoves
  <1>7. QED
    BY <1>1, <1>4, <1>6, SameFtl DEF Media!AdmitWrite, flightOf, physOf

LEMMA MissAdmits ==
  ASSUME ControllerInv, ControllerInv', UseFtl, NEW r \in Req, ReadMiss(r)
  PROVE  Media!AdmitRead(PageOf[r])
  <1> DEFINE p == PageOf[r]
             agg == AggReads /\ 1 < ReadAggThreshold
             e == WaitingEntry(<<r>>, FALSE, agg, ReadAddr(ftl, p))
  <1>1. /\ mshr' = [mshr EXCEPT ![p] = e] /\ UNCHANGED <<ftl, nand>> /\ ~InMshr(p)
        /\ p \in Page
    BY Constants DEF ReadMiss
  <1>2. mshr'[p] = e /\ \A q \in Page : q # p => mshr'[q] = mshr[q]
    BY <1>1, Types DEF ControllerInv
  <1>3. Waits(e) /\ e.write = FALSE /\ e.phys = ReadAddr(ftl, p)
    BY DEF Waits, WaitingEntry
  <1> HIDE DEF e, p
  <1>4. flightOf[p] = "none"
    BY <1>1, StageView, EntryStages, Types DEF InMshr, ControllerInv, EntriesInv
  <1>5. StageOfEntry(mshr'[p]) = "read"
    <2>1. mshr'[p] \in Entry /\ EntryOK(p, mshr'[p])
      BY <1>1 DEF ControllerInv, ControllerTypeOK, EntriesInv
    <2>2. QED
      BY <1>1, <1>2, <1>3, <2>1, EntryStages
  <1>6. /\ flightOf' = [flightOf EXCEPT ![p] = "read"]
        /\ physOf' = [physOf EXCEPT ![p] = ReadAddr(ftl, p)]
    BY <1>1, <1>2, <1>3, <1>5, StageMoves
  <1>7. Media!AdmitRead(p)
    BY <1>1, <1>4, <1>6, SameFtl DEF Media!AdmitRead, flightOf, physOf
  <1>8. QED
    BY <1>7 DEF p

\* One entry changes, its address stays.
LEMMA EntryMoves ==
  ASSUME ControllerInv, ControllerInv', NEW p \in Page, NEW f,
         mshr' = [mshr EXCEPT ![p] = f], f.phys = mshr[p].phys
  PROVE  /\ mshr[p] \in Entry /\ EntryOK(p, mshr[p])
         /\ f \in Entry /\ EntryOK(p, f)
         /\ flightOf[p] = StageOfEntry(mshr[p]) /\ physOf[p] = mshr[p].phys
         /\ flightOf' = [flightOf EXCEPT ![p] = StageOfEntry(f)]
         /\ physOf' = physOf
  <1>1. mshr'[p] = f /\ \A q \in Page : q # p => mshr'[q] = mshr[q]
    BY Types DEF ControllerInv
  <1>2. mshr[p] \in Entry /\ EntryOK(p, mshr[p])
    BY Types DEF ControllerInv, EntriesInv
  <1>3. f \in Entry /\ EntryOK(p, f)
    <2>1. mshr'[p] \in Entry /\ EntryOK(p, mshr'[p])
      BY DEF ControllerInv, ControllerTypeOK, EntriesInv
    <2>2. QED
      BY <1>1, <2>1
  <1>4. QED
    BY <1>1, <1>2, <1>3, StageMoves, StageView

LEMMA EraseCompletes ==
  ASSUME ControllerInv, ControllerInv', NEW s \in Subarray, EraseComplete(s)
  PROVE  \E p \in Page : Media!EraseDone(p)
  <1>1. PICK p \in Page : Min(Serving(s)) = p /\ Served(mshr[p])
    BY TheServed DEF EraseComplete
  <1> DEFINE f == [mshr[p] EXCEPT !.op = "waiting"]
  <1>2. /\ mshr[p].op = "erasing" /\ mshr' = [mshr EXCEPT ![p] = f]
        /\ ftl' = MarkBlockErased(ftl, mshr[p].phys.blk) /\ nand' = nand
    BY <1>1 DEF EraseComplete, StepSubarray
  <1>3. mshr[p] \in Entry /\ EntryOK(p, mshr[p])
    BY Types DEF ControllerInv, EntriesInv
  <1>4. f.phys = mshr[p].phys /\ f.write = mshr[p].write /\ Waits(f)
    <2>1. mshr[p].hit = 0 /\ mshr[p].deliver = FALSE
      BY <1>2, <1>3, EntryTypes DEF EntryOK
    <2>2. /\ f.op = "waiting" /\ f.hit = mshr[p].hit /\ f.deliver = mshr[p].deliver
          /\ f.phys = mshr[p].phys /\ f.write = mshr[p].write
      BY <1>3 DEF Entry
    <2>3. QED
      BY <2>1, <2>2 DEF Waits
  <1> HIDE DEF f
  <1>5. /\ f \in Entry /\ EntryOK(p, f)
        /\ flightOf[p] = StageOfEntry(mshr[p]) /\ physOf[p] = mshr[p].phys
        /\ flightOf' = [flightOf EXCEPT ![p] = StageOfEntry(f)]
        /\ physOf' = physOf
    BY <1>2, <1>4, EntryMoves
  <1>6. StageOfEntry(mshr[p]) = "erasing" /\ StageOfEntry(f) = "write"
    <2>1. mshr[p].write = TRUE
      BY <1>2, <1>3, EntryTypes DEF EntryOK
    <2>2. QED
      BY <1>1, <1>2, <1>3, <1>4, <1>5, <2>1, EntryStages
  <1>7. Media!EraseDone(p)
    BY <1>2, <1>5, <1>6
    DEF Media!EraseDone, flightOf, physOf, Media!MarkBlockErased, MarkBlockErased
  <1>8. QED
    BY <1>7

LEMMA AccessCompletes ==
  ASSUME ControllerInv, ControllerInv', NEW s \in Subarray, AccessComplete(s)
  PROVE  \E p \in Page : Media!MediaDone(p)
  <1>1. PICK p \in Page : Min(Serving(s)) = p /\ Served(mshr[p])
    BY TheServed DEF AccessComplete
  <1> DEFINE f == [mshr[p] EXCEPT !.fill = (mshr[p].op = "reading"), !.deliver = TRUE]
  <1>2. /\ mshr[p].op # "erasing" /\ mshr' = [mshr EXCEPT ![p] = f]
        /\ ftl' = ftl /\ nand' = nand
    BY <1>1 DEF AccessComplete, StepSubarray
  <1>3. mshr[p] \in Entry /\ EntryOK(p, mshr[p])
    BY Types DEF ControllerInv, EntriesInv
  <1>4. f.phys = mshr[p].phys /\ f.op = mshr[p].op /\ f.deliver = TRUE
    BY <1>3 DEF Entry
  <1> HIDE DEF f
  <1>5. /\ f \in Entry /\ EntryOK(p, f)
        /\ flightOf[p] = StageOfEntry(mshr[p]) /\ physOf[p] = mshr[p].phys
        /\ flightOf' = [flightOf EXCEPT ![p] = StageOfEntry(f)]
        /\ physOf' = physOf
    BY <1>2, <1>4, EntryMoves
  <1>6. StageOfEntry(mshr[p]) \in {"reading", "programming"} /\ StageOfEntry(f) = "done"
    <2>1. mshr[p].op \in {"reading", "programming"}
      BY <1>1, <1>2, <1>3, EntryTypes DEF Served, Op
    <2>2. QED
      BY <1>1, <1>3, <1>4, <1>5, <2>1, EntryStages
  <1>7. Media!MediaDone(p)
    BY <1>2, <1>5, <1>6 DEF Media!MediaDone, flightOf, physOf
  <1>8. QED
    BY <1>7

\* The picked entry starts an operation on its idle sub-array.
LEMMA OperationStarts ==
  ASSUME ControllerInv, ControllerInv', NEW p \in Page, Issue(p),
         NEW o \in {"reading", "erasing", "programming"},
         mshr' = [mshr EXCEPT ![p].op = o]
  PROVE  /\ Media!SubarrayIdle(SubarrayOf[p])
         /\ flightOf[p] = IF mshr[p].write THEN "write" ELSE "read"
         /\ physOf[p] = mshr[p].phys
         /\ flightOf' = [flightOf EXCEPT ![p] = o] /\ physOf' = physOf
  <1> DEFINE f == [mshr[p] EXCEPT !.op = o]
  <1>1. /\ mshr[p] \in Entry /\ EntryOK(p, mshr[p]) /\ Waits(mshr[p])
        /\ mshr[p].deliver = FALSE /\ busy[SubarrayOf[p]] = 0
    BY PickedEntry
  <1>2. /\ mshr' = [mshr EXCEPT ![p] = f] /\ f.phys = mshr[p].phys
        /\ f.op = o /\ f.deliver = FALSE
    BY <1>1 DEF Entry
  <1> HIDE DEF f
  <1>3. /\ f \in Entry /\ EntryOK(p, f)
        /\ flightOf[p] = StageOfEntry(mshr[p]) /\ physOf[p] = mshr[p].phys
        /\ flightOf' = [flightOf EXCEPT ![p] = StageOfEntry(f)]
        /\ physOf' = physOf
    BY <1>2, EntryMoves
  <1>4. Served(f)
    BY <1>2 DEF Served
  <1>5. StageOfEntry(f) = o
    BY <1>2, <1>3, <1>4, EntryStages
  <1>6. StageOfEntry(mshr[p]) = IF mshr[p].write THEN "write" ELSE "read"
    BY <1>1, EntryStages
  <1>7. Media!SubarrayIdle(SubarrayOf[p])
    BY <1>1, Constants, IdleSubarray
  <1>8. QED
    BY <1>3, <1>5, <1>6, <1>7

LEMMA EraseStarts ==
  ASSUME ControllerInv, ControllerInv', NEW p \in Page, IssueErase(p)
  PROVE  Media!StartErase(p)
  <1>1. /\ Issue(p) /\ FrontWrite(p) /\ ~IsBlockErased(ftl, mshr[p].phys.blk)
        /\ ftl' = MarkBlockErasing(ftl, mshr[p].phys.blk)
        /\ nand' = [nand EXCEPT ![mshr[p].phys.blk] = {}]
        /\ mshr' = [mshr EXCEPT ![p].op = "erasing"]
    BY DEF IssueErase, MustErase
  <1>2. mshr[p].write
    BY <1>1, PickedEntry
  <1>3. /\ Media!SubarrayIdle(SubarrayOf[p])
        /\ flightOf[p] = IF mshr[p].write THEN "write" ELSE "read"
        /\ physOf[p] = mshr[p].phys
        /\ flightOf' = [flightOf EXCEPT ![p] = "erasing"] /\ physOf' = physOf
    <2> DEFINE o == "erasing"
    <2>1. o \in {"reading", "erasing", "programming"}
          /\ mshr' = [mshr EXCEPT ![p].op = o]
      BY <1>1
    <2> HIDE DEF o
    <2>2. flightOf' = [flightOf EXCEPT ![p] = o]
      BY <1>1, <2>1, OperationStarts
    <2>3. QED
      BY <1>1, <2>1, <2>2, OperationStarts DEF o
  <1>4. QED
    BY <1>1, <1>2, <1>3, SameFtl
    DEF Media!StartErase, flightOf, physOf, Media!MarkBlockErasing, MarkBlockErasing,
        Media!IsBlockErased, IsBlockErased

LEMMA ProgramStarts ==
  ASSUME ControllerInv, ControllerInv', UseFtl, NEW p \in Page, IssueProgram(p)
  PROVE  Media!StartProgram(p)
  <1>1. /\ Issue(p) /\ FrontWrite(p) /\ IsBlockErased(ftl, mshr[p].phys.blk)
        /\ ftl' = ftl
        /\ nand' = [nand EXCEPT ![mshr[p].phys.blk] = @ \cup {mshr[p].phys.off}]
        /\ mshr' = [mshr EXCEPT ![p].op = "programming"]
    BY DEF IssueProgram, MustErase
  <1>2. mshr[p].write
    BY <1>1, PickedEntry
  <1>3. /\ Media!SubarrayIdle(SubarrayOf[p])
        /\ flightOf[p] = IF mshr[p].write THEN "write" ELSE "read"
        /\ physOf[p] = mshr[p].phys
        /\ flightOf' = [flightOf EXCEPT ![p] = "programming"] /\ physOf' = physOf
    <2> DEFINE o == "programming"
    <2>1. o \in {"reading", "erasing", "programming"}
          /\ mshr' = [mshr EXCEPT ![p].op = o]
      BY <1>1
    <2> HIDE DEF o
    <2>2. flightOf' = [flightOf EXCEPT ![p] = o]
      BY <1>1, <2>1, OperationStarts
    <2>3. QED
      BY <1>1, <2>1, <2>2, OperationStarts DEF o
  <1>4. QED
    BY <1>1, <1>2, <1>3, SameFtl
    DEF Media!StartProgram, flightOf, physOf, Media!IsBlockErased, IsBlockErased

LEMMA ReadStarts ==
  ASSUME ControllerInv, ControllerInv', NEW p \in Page, IssueRead(p)
  PROVE  Media!StartRead(p)
  <1>1. /\ Issue(p) /\ ~FrontWrite(p) /\ UNCHANGED <<ftl, nand>>
        /\ mshr' = [mshr EXCEPT ![p].op = "reading"]
    BY DEF IssueRead
  <1>2. ~mshr[p].write
    BY <1>1, PickedEntry
  <1>3. /\ Media!SubarrayIdle(SubarrayOf[p])
        /\ flightOf[p] = IF mshr[p].write THEN "write" ELSE "read"
        /\ flightOf' = [flightOf EXCEPT ![p] = "reading"] /\ physOf' = physOf
    <2> DEFINE o == "reading"
    <2>1. o \in {"reading", "erasing", "programming"}
          /\ mshr' = [mshr EXCEPT ![p].op = o]
      BY <1>1
    <2> HIDE DEF o
    <2>2. flightOf' = [flightOf EXCEPT ![p] = o]
      BY <1>1, <2>1, OperationStarts
    <2>3. QED
      BY <1>1, <2>1, <2>2, OperationStarts DEF o
  <1>4. QED
    BY <1>1, <1>2, <1>3 DEF Media!StartRead, flightOf, physOf

LEMMA HitStarts ==
  ASSUME ControllerInv, ControllerInv', NEW p \in Page, IssueHit(p)
  PROVE  Media!CacheHit(p)
  <1> DEFINE n == Max({CacheHitLatency, 1})
             f == [mshr[p] EXCEPT !.hit = n]
  <1>1. /\ Issue(p) /\ ~FrontWrite(p) /\ UNCHANGED <<ftl, nand>>
        /\ mshr' = [mshr EXCEPT ![p] = f]
    BY DEF IssueHit
  <1>2. /\ mshr[p] \in Entry /\ EntryOK(p, mshr[p]) /\ Waits(mshr[p])
        /\ ~mshr[p].write
    BY <1>1, PickedEntry
  <1>3. n > 0
    BY Numbers, MaxOfTwo
  <1> HIDE DEF n
  <1>4. f.hit > 0 /\ f.phys = mshr[p].phys
    BY <1>2, <1>3 DEF Entry
  <1> HIDE DEF f
  <1>5. /\ f \in Entry /\ EntryOK(p, f)
        /\ flightOf[p] = StageOfEntry(mshr[p])
        /\ flightOf' = [flightOf EXCEPT ![p] = StageOfEntry(f)]
        /\ physOf' = physOf
    BY <1>1, <1>4, EntryMoves
  <1>6. StageOfEntry(mshr[p]) = "read" /\ StageOfEntry(f) = "done"
    BY <1>2, <1>4, <1>5, EntryStages
  <1>7. QED
    BY <1>1, <1>5, <1>6 DEF Media!CacheHit, flightOf, physOf

\* The last reply retires the operation, the earlier ones leave it alone.
LEMMA DeliveryRetires ==
  ASSUME ControllerInv, ControllerInv', NEW p \in Page, DeliverRequest(p)
  PROVE  Media!Retire(p) \/ UNCHANGED Media!mediaVars
  <1>1. /\ pc = "deliver" /\ todo # {} /\ p = Min(todo) /\ UNCHANGED <<ftl, nand>>
    BY DEF DeliverRequest
  <1>2. /\ mshr[p] \in Entry /\ EntryOK(p, mshr[p]) /\ mshr[p].deliver = TRUE
        /\ mshr[p].op # "none" /\ mshr \in [Page -> Entry]
    BY <1>1, NextDelivery, EntryTypes, Types DEF InMshr, ControllerInv
  <1>3. StageOfEntry(mshr[p]) = "done"
    BY <1>2, EntryStages
  <1>4. CASE Undelivered(p) = <<>>
    <2>1. mshr' = [mshr EXCEPT ![p] = NoEntry]
      BY <1>4 DEF DeliverRequest
    <2>2. mshr'[p] = NoEntry /\ \A q \in Page : q # p => mshr'[q] = mshr[q]
      BY <1>2, <2>1
    <2>3. /\ NoEntry \in Entry /\ EntryOK(p, NoEntry) /\ NoEntry.op = "none"
          /\ NoEntry.phys = Unmapped
      BY NoEntryOK DEF NoEntry, WaitingEntry
    <2>4. StageOfEntry(NoEntry) = "none"
      BY <2>3, EntryStages
    <2>5. /\ flightOf' = [flightOf EXCEPT ![p] = "none"]
          /\ physOf' = [physOf EXCEPT ![p] = Unmapped]
      BY <2>2, <2>3, <2>4, StageMoves
    <2>6. flightOf[p] = "done"
      BY <1>3, StageView
    <2>7. QED
      BY <1>1, <2>5, <2>6, SameFtl DEF Media!Retire, flightOf, physOf
  <1>5. CASE Undelivered(p) # <<>>
    <2> DEFINE f == [mshr[p] EXCEPT !.fill = FALSE, !.pending = Undelivered(p)]
    <2>1. mshr' = [mshr EXCEPT ![p] = f]
      BY <1>5 DEF DeliverRequest
    <2>2. f.phys = mshr[p].phys /\ f.op = mshr[p].op /\ f.deliver = TRUE
      BY <1>2 DEF Entry
    <2> HIDE DEF f
    <2>3. f \in Entry /\ EntryOK(p, f)
      BY <2>1, <2>2, EntryMoves
    <2>4. StageOfEntry(f) = "done"
      BY <1>2, <2>2, <2>3, EntryStages
    <2>5. \A q \in Page : /\ StageOfEntry(mshr'[q]) = StageOfEntry(mshr[q])
                          /\ mshr'[q].phys = mshr[q].phys
      BY <1>2, <1>3, <2>1, <2>2, <2>4
    <2>6. QED
      BY <1>1, <2>5, StagesKept
  <1>6. QED
    BY <1>4, <1>5

\* A stalled delivery only fills the cache.
LEMMA StallKeepsStages ==
  ASSUME ControllerInv, ControllerInv', NEW p \in Page, DeliverStalled(p)
  PROVE  UNCHANGED Media!mediaVars
  <1> DEFINE f == [mshr[p] EXCEPT !.fill = FALSE]
  <1>1. /\ pc = "deliver" /\ todo # {} /\ p = Min(todo) /\ UNCHANGED <<ftl, nand>>
        /\ mshr' = [mshr EXCEPT ![p] = f]
    BY DEF DeliverStalled
  <1>2. /\ mshr[p] \in Entry /\ EntryOK(p, mshr[p]) /\ mshr[p].deliver = TRUE
        /\ mshr[p].op # "none" /\ mshr \in [Page -> Entry]
    BY <1>1, NextDelivery, EntryTypes, Types DEF InMshr, ControllerInv
  <1>3. f.phys = mshr[p].phys /\ f.op = mshr[p].op /\ f.deliver = TRUE
    BY <1>2 DEF Entry
  <1> HIDE DEF f
  <1>4. f \in Entry /\ EntryOK(p, f)
    BY <1>1, <1>3, EntryMoves
  <1>5. StageOfEntry(f) = "done" /\ StageOfEntry(mshr[p]) = "done"
    BY <1>2, <1>3, <1>4, EntryStages
  <1>6. \A q \in Page : /\ StageOfEntry(mshr'[q]) = StageOfEntry(mshr[q])
                        /\ mshr'[q].phys = mshr[q].phys
    BY <1>1, <1>2, <1>3, <1>5
  <1>7. QED
    BY <1>1, <1>6, StagesKept

\* A read joins the entry.
LEMMA CoalesceKeepsStages ==
  ASSUME ControllerInv, NEW r \in Req, ReadCoalesce(r)
  PROVE  UNCHANGED Media!mediaVars
  <1> DEFINE p == PageOf[r]
             a == mshr[p].agg /\ Len(mshr[p].pending) + 1 < ReadAggThreshold
             f == [mshr[p] EXCEPT !.pending = Append(@, r), !.agg = a]
  <1>1. mshr' = [mshr EXCEPT ![p] = f] /\ UNCHANGED <<ftl, nand>> /\ p \in Page
    BY Constants DEF ReadCoalesce
  <1>2. mshr[p] \in Entry /\ mshr \in [Page -> Entry]
    BY <1>1, Types DEF ControllerInv
  <1>3. /\ f.phys = mshr[p].phys /\ f.op = mshr[p].op /\ f.deliver = mshr[p].deliver
        /\ f.hit = mshr[p].hit /\ f.write = mshr[p].write
    BY <1>2 DEF Entry
  <1> HIDE DEF f
  <1>4. StageOfEntry(f) = StageOfEntry(mshr[p])
    BY <1>3 DEF StageOfEntry
  <1>5. \A q \in Page : /\ StageOfEntry(mshr'[q]) = StageOfEntry(mshr[q])
                        /\ mshr'[q].phys = mshr[q].phys
    BY <1>1, <1>2, <1>3, <1>4
  <1>6. QED
    BY <1>1, <1>5, StagesKept

\* The window of an aggregated read passes.
LEMMA TickKeepsStages ==
  ASSUME ControllerInv, Tick
  PROVE  UNCHANGED Media!mediaVars
  <1>1. /\ \A p \in Page : mshr'[p] = ReleaseAggregated(mshr[p])
        /\ UNCHANGED <<ftl, nand>>
    BY DEF Tick
  <1>2. ASSUME NEW p \in Page
        PROVE  /\ StageOfEntry(mshr'[p]) = StageOfEntry(mshr[p])
               /\ mshr'[p].phys = mshr[p].phys
    <2> DEFINE f == ReleaseAggregated(mshr[p])
    <2>1. mshr[p] \in Entry /\ EntryOK(p, mshr[p]) /\ mshr'[p] = f
      BY <1>1, Types DEF ControllerInv, EntriesInv
    <2>2. /\ SameOp(mshr[p], f) /\ f.op = mshr[p].op /\ f.hit = mshr[p].hit
          /\ f.deliver = mshr[p].deliver /\ f.phys = mshr[p].phys
      BY <2>1, ReleasedEntry
    <2> HIDE DEF f
    <2>3. QED
      BY <2>1, <2>2 DEF SameOp, StageOfEntry
  <1>3. QED
    BY <1>1, <1>2, StagesKept

\* A cache hit stays done while its delivery is counted down.
LEMMA HitsKeepStages ==
  ASSUME ControllerInv, CacheHitsReady
  PROVE  UNCHANGED Media!mediaVars
  <1>1. /\ \A p \in Page : mshr'[p] = HitTick(mshr[p])
        /\ UNCHANGED <<ftl, nand>>
    BY DEF CacheHitsReady, HitTick
  <1>2. ASSUME NEW p \in Page
        PROVE  /\ StageOfEntry(mshr'[p]) = StageOfEntry(mshr[p])
               /\ mshr'[p].phys = mshr[p].phys
    <2> DEFINE e == mshr[p]
               f == HitTick(e)
    <2>1. e \in Entry /\ EntryOK(p, e) /\ mshr'[p] = f
      BY <1>1, Types DEF ControllerInv, EntriesInv
    <2>2. /\ f \in Entry /\ EntryOK(p, f) /\ f.op = e.op /\ f.phys = e.phys
          /\ e.hit > 0 => f.deliver \/ f.hit > 0
          /\ e.hit = 0 => f = e
      BY <2>1, HitTicks
    <2>3. e.hit \in Nat /\ f.hit \in Nat /\ (e.hit > 0 => e.op # "none")
      BY <2>1, <2>2, EntryTypes DEF EntryOK
    <2> HIDE DEF e, f
    <2>4. CASE e.hit > 0
      <3>1. StageOfEntry(e) = "done"
        BY <2>1, <2>4, EntryStages
      <3>2. StageOfEntry(f) = "done"
        BY <2>2, <2>3, <2>4, EntryStages
      <3>3. QED
        BY <2>1, <2>2, <3>1, <3>2 DEF e
    <2>5. CASE e.hit = 0
      BY <2>1, <2>2, <2>5 DEF e
    <2>6. QED
      BY <2>3, <2>4, <2>5
  <1>3. QED
    BY <1>1, <1>2, StagesKept

\* The entries themselves stay.
LEMMA EntriesKept ==
  ASSUME ControllerInv, UNCHANGED <<mshr, ftl, nand>>
  PROVE  UNCHANGED Media!mediaVars
  BY StagesKept

\* Every step of the controller is a step of the media protocol or of none.
LEMMA MediaStep ==
  ASSUME UseFtl, ControllerInv, ControllerInv', [Next]_vars
  PROVE  [Media!MediaNext]_Media!mediaVars
  <1> DEFINE Moved(p) == \/ Media!AdmitRead(p) \/ Media!AdmitWrite(p)
                         \/ Media!StartRead(p) \/ Media!CacheHit(p)
                         \/ Media!StartErase(p) \/ Media!EraseDone(p)
                         \/ Media!StartProgram(p)
                         \/ Media!MediaDone(p) \/ Media!Retire(p)
  <1>1. ASSUME NEW p \in Page, Moved(p) PROVE Media!MediaNext
    BY <1>1, SameFtl DEF Media!MediaNext
  <1>2. ASSUME Terminate PROVE UNCHANGED Media!mediaVars
    BY <1>2, EntriesKept DEF Terminate
  <1>3. CASE UNCHANGED vars
    BY <1>3, EntriesKept DEF vars
  <1>4. CASE Push
    <2>1. PICK r \in Req : \/ BufferWrite(r) \/ CompletePage(r)
                           \/ ReadBuffered(r) \/ ReadCoalesce(r) \/ ReadMiss(r)
      BY <1>4 DEF Push
    <2>2. PageOf[r] \in Page
      BY Constants
    <2>3. CASE BufferWrite(r)
      BY <2>3, EntriesKept DEF BufferWrite
    <2>4. CASE CompletePage(r)
      <3>1. CASE Terminate
        BY <1>2, <3>1
      <3>2. CASE ~Terminate
        <4>1. /\ FlushEntry(PageOf[r], Append(wb[PageOf[r]], r), <<>>)
              /\ ~InMshr(PageOf[r]) /\ nand' = nand
          BY <2>4, <3>2 DEF CompletePage, FlushAllowed
        <4>2. Media!AdmitWrite(PageOf[r])
          BY <2>2, <4>1, FlushAdmits
        <4>3. QED
          BY <1>1, <2>2, <4>2
      <3>3. QED
        BY <3>1, <3>2
    <2>5. CASE ReadBuffered(r)
      <3>1. CASE Terminate
        BY <1>2, <3>1
      <3>2. CASE ~Terminate
        <4>1. /\ FlushEntry(PageOf[r], wb[PageOf[r]], <<r>>)
              /\ ~InMshr(PageOf[r]) /\ nand' = nand
          BY <2>5, <3>2 DEF ReadBuffered, FlushAllowed
        <4>2. Media!AdmitWrite(PageOf[r])
          BY <2>2, <4>1, FlushAdmits
        <4>3. QED
          BY <1>1, <2>2, <4>2
      <3>3. QED
        BY <3>1, <3>2
    <2>6. CASE ReadCoalesce(r)
      BY <2>6, CoalesceKeepsStages
    <2>7. CASE ReadMiss(r)
      BY <1>1, <2>2, <2>7, MissAdmits
    <2>8. QED
      BY <2>1, <2>3, <2>4, <2>5, <2>6, <2>7
  <1>5. CASE PopReturn
    BY <1>5, EntriesKept DEF PopReturn
  <1>6. CASE Tick
    BY <1>6, TickKeepsStages
  <1>7. CASE Advance
    <2>1. ASSUME NEW s \in Subarray, MediaAdvance(s) PROVE UNCHANGED Media!mediaVars
      BY <2>1, EntriesKept DEF MediaAdvance, StepSubarray
    <2>2. ASSUME NEW s \in Subarray, EraseComplete(s) \/ AccessComplete(s)
          PROVE  Media!MediaNext
      BY <1>1, <2>2, EraseCompletes, AccessCompletes
    <2>3. CASE CacheHitsReady
      BY <2>3, HitsKeepStages
    <2>4. ASSUME NEW p \in Page, DeliverNoRoom(p) PROVE UNCHANGED Media!mediaVars
      BY <2>4, EntriesKept DEF DeliverNoRoom
    <2>5. ASSUME NEW p \in Page, DeliverStalled(p) \/ DeliverRequest(p)
          PROVE  [Media!MediaNext]_Media!mediaVars
      BY <1>1, <2>5, StallKeepsStages, DeliveryRetires
    <2>6. CASE UpdateWindow \/ FlushesDone \/ EndCycle
      BY <2>6, EntriesKept DEF UpdateWindow, FlushesDone, EndCycle
    <2>7. ASSUME NEW p \in Page, FlushNext(p)
          PROVE  [Media!MediaNext]_Media!mediaVars
      <3>1. CASE Terminate
        BY <1>2, <3>1
      <3>2. CASE FlushAllowed(p, FALSE) /\ ~Terminate
        <4>1. FlushEntry(p, wb[p], <<>>) /\ ~InMshr(p) /\ nand' = nand
          BY <2>7, <3>2 DEF FlushNext, FlushAllowed
        <4>2. Media!AdmitWrite(p)
          BY <4>1, FlushAdmits
        <4>3. QED
          BY <1>1, <4>2
      <3>3. CASE ~FlushAllowed(p, FALSE)
        BY <2>7, <3>3, EntriesKept DEF FlushNext
      <3>4. QED
        BY <3>1, <3>2, <3>3
    <2>8. ASSUME NEW p \in Page,
                 IssueErase(p) \/ IssueProgram(p) \/ IssueHit(p) \/ IssueRead(p)
          PROVE  Media!MediaNext
      BY <1>1, <2>8, EraseStarts, ProgramStarts, HitStarts, ReadStarts
    <2>9. QED
      BY <1>7, <2>1, <2>2, <2>3, <2>4, <2>5, <2>6, <2>7, <2>8 DEF Advance
  <1>8. QED
    BY <1>3, <1>4, <1>5, <1>6, <1>7 DEF Next

\* Without the FTL its tables and the media are left alone.
LEMMA NoFtlStep ==
  ASSUME ~UseFtl, ControllerInv, [Next]_vars
  PROVE  UNCHANGED <<ftl, nand>>
  <1>1. CASE UNCHANGED vars
    BY <1>1 DEF vars
  <1>2. CASE Push
    BY <1>2
    DEF Push, BufferWrite, CompletePage, ReadBuffered, ReadCoalesce, ReadMiss,
        FlushEntry, Terminate
  <1>3. CASE PopReturn \/ Tick
    BY <1>3 DEF PopReturn, Tick
  <1>4. CASE Advance
    \* An erase would be one of the FTL.
    <2>1. ASSUME NEW s \in Subarray, EraseComplete(s) PROVE FALSE
      <3>1. PICK p \in Page : Min(Serving(s)) = p
        BY <2>1, TheServed DEF EraseComplete
      <3>2. mshr[p].op = "erasing"
        BY <2>1, <3>1 DEF EraseComplete
      <3>3. QED
        BY <3>2 DEF ControllerInv, EntriesInv, EntryOK
    <2>2. CASE \E s \in Subarray : MediaAdvance(s) \/ AccessComplete(s)
      BY <2>2 DEF MediaAdvance, AccessComplete, StepSubarray
    <2>3. CASE CacheHitsReady \/ UpdateWindow \/ FlushesDone \/ EndCycle
      BY <2>3 DEF CacheHitsReady, UpdateWindow, FlushesDone, EndCycle
    <2>4. CASE \E p \in Page : DeliverNoRoom(p) \/ DeliverStalled(p) \/ DeliverRequest(p)
      BY <2>4 DEF DeliverNoRoom, DeliverStalled, DeliverRequest
    <2>5. CASE \E p \in Page : FlushNext(p)
      BY <2>5 DEF FlushNext, FlushEntry, Terminate
    <2>6. CASE \E p \in Page : IssueErase(p) \/ IssueProgram(p)
      BY <2>6 DEF IssueErase, IssueProgram, MustErase
    <2>7. CASE \E p \in Page : IssueHit(p) \/ IssueRead(p)
      BY <2>7 DEF IssueHit, IssueRead
    <2>8. QED
      BY <1>4, <2>1, <2>2, <2>3, <2>4, <2>5, <2>6, <2>7 DEF Advance
  <1>5. QED
    BY <1>1, <1>2, <1>3, <1>4 DEF Next

-----------------------------------------------------------------------------
(***************************************************************************)
(* The invariant of the media protocol holds of what the controller shows. *)
(***************************************************************************)
LEMMA SameSteps ==
  ASSUME [Media!MediaNext]_Media!mediaVars
  PROVE  [M!MediaNext]_M!mediaVars
  <1>1. CASE UNCHANGED Media!mediaVars
    BY <1>1 DEF Media!mediaVars, M!mediaVars
  <1>2. CASE Media!MediaNext
    <2>1. PICK p \in Page :
            \/ Media!AdmitRead(p) \/ Media!AdmitWrite(p)
            \/ Media!StartRead(p) \/ Media!CacheHit(p)
            \/ Media!StartErase(p) \/ Media!EraseDone(p)
            \/ Media!StartProgram(p)
            \/ Media!MediaDone(p) \/ Media!Retire(p)
      BY <1>2, SameFtl DEF Media!MediaNext
    <2>2. Media!SubarrayIdle(SubarrayOf[p]) => M!SubarrayIdle(SubarrayOf[p])
      BY SameFtl DEF Media!SubarrayIdle, M!SubarrayIdle, Media!OnMedia, M!OnMedia
    <2>3. \/ Media!AdmitRead(p) \/ Media!AdmitWrite(p) \/ Media!CacheHit(p)
          \/ Media!MediaDone(p) \/ Media!Retire(p)
          => \/ M!AdmitRead(p) \/ M!AdmitWrite(p) \/ M!CacheHit(p)
             \/ M!MediaDone(p) \/ M!Retire(p)
      BY SameFtl
      DEF Media!AdmitRead, M!AdmitRead, Media!AdmitWrite, M!AdmitWrite,
          Media!CacheHit, M!CacheHit, Media!MediaDone, M!MediaDone,
          Media!Retire, M!Retire
    <2>4. Media!StartRead(p) => M!StartRead(p)
      BY <2>2 DEF Media!StartRead, M!StartRead
    <2>5. Media!StartErase(p) => M!StartErase(p)
      BY <2>2, SameFtl
      DEF Media!StartErase, M!StartErase, Media!MarkBlockErasing, M!MarkBlockErasing,
          Media!IsBlockErased, M!IsBlockErased
    <2>6. Media!EraseDone(p) => M!EraseDone(p)
      BY DEF Media!EraseDone, M!EraseDone, Media!MarkBlockErased, M!MarkBlockErased
    <2>7. Media!StartProgram(p) => M!StartProgram(p)
      BY <2>2, SameFtl
      DEF Media!StartProgram, M!StartProgram, Media!IsBlockErased, M!IsBlockErased
    <2>8. M!MediaNext
      BY <2>1, <2>3, <2>4, <2>5, <2>6, <2>7, SameFtl DEF M!MediaNext
    <2>9. QED
      BY <2>8
  <1>3. QED
    BY <1>1, <1>2

LEMMA SameSets ==
  /\ \A S : M!IsFiniteSet(S) <=> IsFiniteSet(S)
  /\ \A S : M!Cardinality(S) = Cardinality(S)
  <1>1. \A S : M!IsFiniteSet(S) <=> IsFiniteSet(S)
    BY DEF M!IsFiniteSet, IsFiniteSet
  <1>2. \A S : M!Cardinality(S) = Cardinality(S)
    BY DEF M!Cardinality, Cardinality
  <1>3. QED
    BY <1>1, <1>2

\* What the protocol assumes of its constants.
LEMMA MediaConstants ==
  /\ NumPages \in Nat /\ MaxBlocks \in Nat /\ PagesPerBlock \in Nat \ {0}
  /\ Subarray # {} /\ M!IsFiniteSet(Subarray) /\ SubarrayOf \in [M!Page -> Subarray]
  /\ WearLeveling \in BOOLEAN
  /\ 0 \in Nat /\ TPROG \in Nat \ {0}
  <1>1. TPROG \in Nat \ {0}
    BY ControllerAssumption
  <1>2. QED
    BY <1>1, FtlAssumption, SameFtl, SameSets

LEMMA MediaKept ==
  ASSUME M!MediaInv, [Media!MediaNext]_Media!mediaVars
  PROVE  M!MediaInv'
  <1>1. [M!MediaNext]_M!mediaVars
    BY SameSteps
  <1>2. QED
    BY <1>1, MediaConstants, M!MediaInvStep

\* The tables of the FTL are sound.
LEMMA MediaInvFtl == M!MediaInv => FtlInv(ftl) /\ nand \in [Block -> SUBSET Nat]
  <1> SUFFICES ASSUME M!MediaInv PROVE FtlInv(ftl) /\ nand \in [Block -> SUBSET Nat]
    OBVIOUS
  <1>1. M!FtlInv(ftl) /\ M!MediaTypeOK
    BY DEF M!MediaInv
  <1>2. \A f, p : M!Mapped(f, p) <=> Mapped(f, p)
    BY SameFtl DEF M!Mapped, Mapped
  <1>3. M!FtlState = FtlState
    BY SameFtl DEF M!FtlState, FtlState, M!Addr, Addr, M!NoBlock, NoBlock
  <1>4. MappedPagesAllocated(ftl) /\ MappedPagesDistinct(ftl)
    BY <1>1, <1>2, SameFtl
    DEF M!FtlInv, M!MappedPagesAllocated, MappedPagesAllocated,
        M!MappedPagesDistinct, MappedPagesDistinct
  <1>5. ReverseIndexExact(ftl)
    BY <1>1, <1>2, SameFtl, SameSets
    DEF M!FtlInv, M!ReverseIndexExact, ReverseIndexExact
  <1>6. OpenBlocksHaveRoom(ftl) /\ FreeBlocksDirty(ftl)
    BY <1>1, SameFtl
    DEF M!FtlInv, M!OpenBlocksHaveRoom, OpenBlocksHaveRoom, M!NoBlock, NoBlock,
        M!FreeBlocksDirty, FreeBlocksDirty
  <1>7. nand \in [Block -> SUBSET Nat]
    BY <1>1, SameFtl DEF M!MediaTypeOK
  <1>8. QED
    BY <1>1, <1>3, <1>4, <1>5, <1>6, <1>7 DEF M!FtlInv, FtlInv

LEMMA MediaInit == Init => Media!MediaInit /\ M!MediaInit
  <1> SUFFICES ASSUME Init PROVE Media!MediaInit /\ M!MediaInit
    OBVIOUS
  <1>1. \A p \in Page : StageOf(p) = "none" /\ mshr[p].phys = Unmapped
    BY NoEntryOK DEF Init, StageOf, InMshr, NoEntry, WaitingEntry
  <1>2. Media!FtlInit = FtlInit /\ M!FtlInit = FtlInit
    BY SameFtl
    DEF Media!FtlInit, M!FtlInit, FtlInit, Media!NoBlock, M!NoBlock, NoBlock
  <1>3. QED
    BY <1>1, <1>2, SameFtl DEF Init, Media!MediaInit, M!MediaInit

-----------------------------------------------------------------------------
(***************************************************************************)
(* The inductive invariant of the composition, and what it implies.        *)
(***************************************************************************)
LEMMA MediaPartFtl == MediaPart => FtlPart /\ ftl \in FtlState /\ nand \in [Block -> SUBSET Nat]
  <1>1. CASE UseFtl
    BY <1>1, MediaInvFtl DEF MediaPart, FtlPart, FtlInv
  <1>2. CASE ~UseFtl
    BY <1>2, FtlInitInv DEF MediaPart, FtlPart, FtlInv
  <1>3. QED
    BY <1>1, <1>2

LEMMA InvInit == Init => ControllerInv /\ MediaPart
  <1> SUFFICES ASSUME Init PROVE MediaPart
    BY ControllerInitInv
  <1>1. CASE UseFtl
    BY <1>1, MediaInit, MediaConstants, M!InitInv DEF MediaPart
  <1>2. CASE ~UseFtl
    BY <1>2 DEF MediaPart, Init
  <1>3. QED
    BY <1>1, <1>2

LEMMA InvStep ==
  ASSUME ControllerInv, MediaPart, [Next]_vars
  PROVE  ControllerInv' /\ MediaPart'
  <1>1. ControllerInv'
    BY MediaPartFtl, ControllerInvStep
  <1>2. CASE UseFtl
    BY <1>1, <1>2, MediaStep, MediaKept DEF MediaPart
  <1>3. CASE ~UseFtl
    <2>1. ftl' = ftl /\ nand' = nand
      BY <1>3, NoFtlStep
    <2>2. ftl = FtlInit /\ nand = [b \in Block |-> {}]
      BY <1>3 DEF MediaPart
    <2>3. MediaPart'
      BY ONLY <1>3, <2>1, <2>2 DEF MediaPart
    <2>4. QED
      BY <1>1, <2>3
  <1>4. QED
    BY <1>1, <1>2, <1>3

(***************************************************************************)
(* In every reachable state the controller's records agree with each other *)
(* and with the tables of the FTL and the media.                           *)
(***************************************************************************)
THEOREM ControllerInvariant == Spec => [](ControllerInv /\ MediaPart)
  <1>1. ControllerInv /\ MediaPart /\ [Next]_vars => ControllerInv' /\ MediaPart'
    BY InvStep
  <1>2. QED
    BY InvInit, <1>1, PTL DEF Spec

(***************************************************************************)
(* The capacities the code promises, of the return queue, the page cache,  *)
(* the token buckets and the write window, hold in every state.            *)
(***************************************************************************)
THEOREM TypeCorrect == Spec => []TypeOK
  <1>1. ControllerInv /\ MediaPart => TypeOK
    BY MediaPartFtl DEF TypeOK, ControllerInv
  <1>2. QED
    BY <1>1, ControllerInvariant, PTL

(***************************************************************************)
(* With an FTL, every run of the controller is one of the media protocol:  *)
(* no queue, timer, coalesced read or refused flush makes it break the     *)
(* order of reservation, erase and program.                                *)
(***************************************************************************)
THEOREM ControllerImplementsMedia == UseFtl => (Spec => ImplementsMedia)
  <1> SUFFICES ASSUME UseFtl PROVE Spec => ImplementsMedia
    OBVIOUS
  <1>1. Init => Media!MediaInit
    BY MediaInit
  <1>2. /\ ControllerInv /\ ControllerInv' /\ [Next]_vars
        => [Media!MediaNext]_Media!mediaVars
    BY MediaStep
  <1>3. Spec => []ControllerInv
    BY ControllerInvariant, PTL
  <1>4. QED
    BY <1>1, <1>2, <1>3, PTL DEF Spec, ImplementsMedia, Media!MediaSpec

-----------------------------------------------------------------------------
(***************************************************************************)
(* Queue, MSHR and sub-arrays tell the same of every operation: a page is  *)
(* queued once and exactly while its entry waits, a busy sub-array serves  *)
(* one entry and an idle one none, and max_active is never exceeded.       *)
(***************************************************************************)
THEOREM ControllerScheduler == Spec => []SchedulerConsistent
  <1>1. ASSUME ControllerInv PROVE SchedulerConsistent
    <2>1. QueueMatchesMshr
      <3>1. \A i, j \in DOMAIN queue : queue[i] = queue[j] => i = j
        BY <1>1 DEF ControllerInv, QueueInv, IsInjective
      <3>2. \A p \in Page : Contains(queue, p) <=> p \in ToSet(queue)
        BY <1>1, Types, ElementsOfSeq DEF ControllerInv
      <3>3. \A p \in Page : p \in ToSet(queue) <=> Waits(mshr[p])
        BY <1>1 DEF ControllerInv, QueueInv
      <3>4. QED
        BY <3>1, <3>2, <3>3 DEF QueueMatchesMshr, Waits
    <2>2. ASSUME NEW s \in Subarray
          PROVE  Cardinality(Serving(s)) = IF busy[s] > 0 THEN 1 ELSE 0
      <3>1. \A p \in Page : p \in Serving(s) <=> SubarrayOf[p] = s /\ Served(mshr[p])
        BY DEF Serving, Served
      <3>2. Serving(s) \subseteq Page
        BY DEF Serving
      <3>3. CASE busy[s] > 0
        <4>1. PICK p \in Page : SubarrayOf[p] = s /\ Served(mshr[p])
          BY <1>1, <3>3 DEF ControllerInv, ServiceInv
        <4>2. Serving(s) = {p}
          BY <1>1, <3>1, <3>2, <4>1 DEF ControllerInv, ServiceInv
        <4>3. QED
          BY <3>3, <4>2, FS_Singleton
      <3>4. CASE ~(busy[s] > 0)
        <4>1. Serving(s) = {}
          BY <1>1, <3>1, <3>2, <3>4 DEF ControllerInv, ServiceInv
        <4>2. QED
          BY <3>4, <4>1, FS_EmptySet
      <3>5. QED
        BY <3>3, <3>4
    <2>3. QED
      BY <1>1, <2>1, <2>2
      DEF SchedulerConsistent, OneServedPerActive, ControllerInv, ServiceInv
  <1>2. QED
    BY <1>1, ControllerInvariant, PTL

(***************************************************************************)
(* The write counters count the write entries, full() bounds the pages the *)
(* device holds, and it reports work exactly while a request is waited for.*)
(***************************************************************************)
THEOREM ControllerCounters == Spec => []CountersExact
  <1>1. ASSUME ControllerInv PROVE CountersExact
    <2>1. ASSUME NEW p \in Page, InMshr(p) PROVE outstanding # {}
      <3>1. mshr[p].pending \in Seq(Req) /\ mshr[p].pending # <<>>
        BY <1>1, <2>1, Types, EntryTypes DEF ControllerInv, EntriesInv, EntryOK, InMshr
      <3>2. Head(mshr[p].pending) \in ToSet(mshr[p].pending)
        BY <3>1, ElementsOfSeq
      <3>3. QED
        BY <1>1, <3>2 DEF ControllerInv, RequestsInv
    <2>2. ASSUME HasWork PROVE outstanding # {}
      <3>1. CASE Mshr # {}
        BY <2>1, <3>1 DEF Mshr
      <3>2. CASE queue # <<>>
        <4>1. Head(queue) \in ToSet(queue)
          BY <1>1, <3>2, Types, ElementsOfSeq DEF ControllerInv
        <4>2. Head(queue) \in Page /\ InMshr(Head(queue))
          BY <1>1, <4>1 DEF ControllerInv, QueueInv, Waits, InMshr
        <4>3. QED
          BY <2>1, <4>2
      <3>3. CASE Buffered # {}
        <4>1. PICK p \in Page : wb[p] # <<>>
          BY <3>3 DEF Buffered
        <4>2. Head(wb[p]) \in ToSet(wb[p])
          BY <1>1, <4>1, Types, ElementsOfSeq DEF ControllerInv
        <4>3. QED
          BY <1>1, <4>2 DEF ControllerInv, RequestsInv
      <3>4. CASE Active # {}
        <4>1. PICK p \in Page : Served(mshr[p])
          BY <1>1, <3>4 DEF Active, ControllerInv, ServiceInv
        <4>2. QED
          BY <2>1, <4>1 DEF Served, InMshr
      <3>5. CASE returnq # <<>>
        <4>1. Head(returnq) \in ToSet(returnq)
          BY <1>1, <3>5, Types, ElementsOfSeq DEF ControllerInv
        <4>2. QED
          BY <1>1, <4>1 DEF ControllerInv, RequestsInv
      <3>6. QED
        BY <2>2, <3>1, <3>2, <3>3, <3>4, <3>5 DEF HasWork
    <2>3. ASSUME NEW r \in outstanding PROVE HasWork
      <3>1. r \in Req /\ PageOf[r] \in Page
        BY <1>1, Types, Constants DEF ControllerInv
      <3>2. CASE r \in ToSet(wb[PageOf[r]])
        <4>1. wb[PageOf[r]] # <<>>
          BY <1>1, <3>1, <3>2, Types, ElementsOfSeq DEF ControllerInv
        <4>2. QED
          BY <3>1, <4>1 DEF HasWork, Buffered
      <3>3. CASE r \in ToSet(mshr[PageOf[r]].pending)
        <4>1. mshr[PageOf[r]].pending # <<>>
          BY <1>1, <3>1, <3>3, Types, EntryTypes, ElementsOfSeq DEF ControllerInv
        <4>2. EntryOK(PageOf[r], mshr[PageOf[r]])
          BY <1>1, <3>1 DEF ControllerInv, EntriesInv
        <4>3. InMshr(PageOf[r])
          BY <4>1, <4>2, NoEntryOK DEF InMshr, EntryOK
        <4>4. QED
          BY <3>1, <4>3 DEF HasWork, Mshr
      <3>4. CASE r \in ToSet(returnq)
        <4>1. returnq # <<>>
          BY <1>1, <3>4, Types, ElementsOfSeq DEF ControllerInv
        <4>2. QED
          BY <4>1 DEF HasWork
      <3>5. QED
        BY <1>1, <3>2, <3>3, <3>4 DEF ControllerInv, RequestsInv
    <2>4. WorkIffOutstanding
      BY <2>2, <2>3 DEF WorkIffOutstanding
    <2>5. QED
      BY <1>1, <2>4 DEF CountersExact, ControllerInv
  <1>2. QED
    BY <1>1, ControllerInvariant, PTL

(***************************************************************************)
(* The page cache never serves a page that is being overwritten.           *)
(***************************************************************************)
THEOREM ControllerCache == Spec => []CacheNotStale
  <1>1. ControllerInv => CacheNotStale
    BY DEF ControllerInv, CacheInv, CacheNotStale
  <1>2. QED
    BY <1>1, ControllerInvariant, PTL

(***************************************************************************)
(* Under the strict write policy no path programs a page that the buffered *)
(* writes do not cover.                                                    *)
(***************************************************************************)
THEOREM ControllerStrictPrograms == Spec => []StrictProgramsFullPages
  <1>1. ControllerInv => StrictProgramsFullPages
    BY DEF ControllerInv, EntriesInv, EntryOK, StrictProgramsFullPages
  <1>2. QED
    BY <1>1, ControllerInvariant, PTL

\* Where a request r can be.
InBuffer(r, x) == \E p \in Page : \E i \in DOMAIN wb[p] : wb[p][i] = r /\ x = <<"wb", p, i>>
InEntry(r, x)  == \E p \in Page : \E i \in DOMAIN mshr[p].pending :
                    mshr[p].pending[i] = r /\ x = <<"mshr", p, i>>
InReturn(r, x) == \E i \in DOMAIN returnq : returnq[i] = r /\ x = <<"return", 0, i>>

LEMMA PlacesOf ==
  ASSUME NEW r
  PROVE  \A x : x \in Places(r) <=> InBuffer(r, x) \/ InEntry(r, x) \/ InReturn(r, x)
  BY DEF Places, Positions, InBuffer, InEntry, InReturn

(***************************************************************************)
(* No request is lost, duplicated or answered twice: one that the caller   *)
(* waits for is in exactly one place, one nobody waits for is nowhere.     *)
(***************************************************************************)
THEOREM ControllerExactlyOnce == Spec => []ExactlyOnce
  <1>1. ASSUME ControllerInv, NEW r \in Req
        PROVE  Cardinality(Places(r)) = IF r \in outstanding THEN 1 ELSE 0
    <2>1. /\ \A x : InBuffer(r, x) => r \in ToSet(wb[PageOf[r]])
          /\ \A x : InEntry(r, x) => r \in ToSet(mshr[PageOf[r]].pending)
          /\ \A x : InReturn(r, x) => r \in ToSet(returnq)
      <3>1. ASSUME NEW p \in Page, NEW i \in DOMAIN wb[p], wb[p][i] = r
            PROVE  r \in ToSet(wb[PageOf[r]])
        <4>1. r \in ToSet(wb[p])
          BY <3>1 DEF ToSet
        <4>2. QED
          BY <1>1, <4>1 DEF ControllerInv, RequestsInv
      <3>2. ASSUME NEW p \in Page, NEW i \in DOMAIN mshr[p].pending,
                   mshr[p].pending[i] = r
            PROVE  r \in ToSet(mshr[PageOf[r]].pending)
        <4>1. r \in ToSet(mshr[p].pending)
          BY <3>2 DEF ToSet
        <4>2. QED
          BY <1>1, <4>1 DEF ControllerInv, EntriesInv, EntryOK
      <3>3. QED
        BY <3>1, <3>2 DEF InBuffer, InEntry, InReturn, ToSet
    <2>2. \A p \in Page : /\ r \in ToSet(wb[p]) => PageOf[r] = p
                          /\ r \in ToSet(mshr[p].pending) => PageOf[r] = p
      BY <1>1 DEF ControllerInv, RequestsInv, EntriesInv, EntryOK
    <2>3. PageOf[r] \in Page
      BY Constants
    <2>4. /\ r \in ToSet(wb[PageOf[r]]) => /\ r \in outstanding
                                           /\ r \notin ToSet(mshr[PageOf[r]].pending)
                                           /\ r \notin ToSet(returnq)
          /\ r \in ToSet(mshr[PageOf[r]].pending) =>
               r \in outstanding /\ r \notin ToSet(returnq)
          /\ r \in ToSet(returnq) => r \in outstanding
      BY <1>1, <2>3 DEF ControllerInv, RequestsInv
    <2>5. CASE r \notin outstanding
      <3>1. Places(r) = {}
        BY <2>1, <2>4, <2>5, PlacesOf
      <3>2. QED
        BY <2>5, <3>1, FS_EmptySet
    <2>6. CASE r \in outstanding
      <3>1. PICK x : x \in Places(r)
        <4>1. CASE r \in ToSet(wb[PageOf[r]])
          BY <2>3, <4>1, PlacesOf DEF ToSet, InBuffer
        <4>2. CASE r \in ToSet(mshr[PageOf[r]].pending)
          BY <2>3, <4>2, PlacesOf DEF ToSet, InEntry
        <4>3. CASE r \in ToSet(returnq)
          BY <4>3, PlacesOf DEF ToSet, InReturn
        <4>4. QED
          BY <1>1, <2>6, <4>1, <4>2, <4>3 DEF ControllerInv, RequestsInv
      <3>2. ASSUME NEW y \in Places(r) PROVE y = x
        <4>1. /\ InBuffer(r, x) \/ InEntry(r, x) \/ InReturn(r, x)
              /\ InBuffer(r, y) \/ InEntry(r, y) \/ InReturn(r, y)
          BY <3>1, <3>2, PlacesOf
        <4>2. CASE InBuffer(r, x) /\ InBuffer(r, y)
          <5>1. PICK p, i : /\ p \in Page /\ i \in DOMAIN wb[p]
                         /\ wb[p][i] = r /\ x = <<"wb", p, i>>
            BY <4>2 DEF InBuffer
          <5>2. PICK q, j : /\ q \in Page /\ j \in DOMAIN wb[q]
                         /\ wb[q][j] = r /\ y = <<"wb", q, j>>
            BY <4>2 DEF InBuffer
          <5>3. p = PageOf[r] /\ q = PageOf[r]
            BY <2>2, <5>1, <5>2 DEF ToSet
          <5>4. IsInjective(wb[p])
            BY <1>1, <5>1 DEF ControllerInv, RequestsInv
          <5>5. i = j
            BY <5>1, <5>2, <5>3, <5>4 DEF IsInjective
          <5>6. QED
            BY <5>1, <5>2, <5>3, <5>5
        <4>3. CASE InEntry(r, x) /\ InEntry(r, y)
          <5>1. PICK p, i : /\ p \in Page /\ i \in DOMAIN mshr[p].pending
                         /\ mshr[p].pending[i] = r /\ x = <<"mshr", p, i>>
            BY <4>3 DEF InEntry
          <5>2. PICK q, j : /\ q \in Page /\ j \in DOMAIN mshr[q].pending
                         /\ mshr[q].pending[j] = r /\ y = <<"mshr", q, j>>
            BY <4>3 DEF InEntry
          <5>3. p = PageOf[r] /\ q = PageOf[r]
            BY <2>2, <5>1, <5>2 DEF ToSet
          <5>4. IsInjective(mshr[p].pending)
            BY <1>1, <5>1 DEF ControllerInv, EntriesInv, EntryOK
          <5>5. i = j
            BY <5>1, <5>2, <5>3, <5>4 DEF IsInjective
          <5>6. QED
            BY <5>1, <5>2, <5>3, <5>5
        <4>4. CASE InReturn(r, x) /\ InReturn(r, y)
          <5>1. IsInjective(returnq)
            BY <1>1 DEF ControllerInv, RequestsInv
          <5>2. QED
            BY <4>4, <5>1 DEF InReturn, IsInjective
        <4>5. QED
          BY <2>1, <2>4, <4>1, <4>2, <4>3, <4>4
      <3>3. Places(r) = {x}
        BY <3>1, <3>2
      <3>4. QED
        BY <2>6, <3>3, FS_Singleton
    <2>7. QED
      BY <2>5, <2>6
  <1>2. ControllerInv => ExactlyOnce
    BY <1>1 DEF ExactlyOnce
  <1>3. QED
    BY <1>2, ControllerInvariant, PTL

-----------------------------------------------------------------------------
(***************************************************************************)
(* The controller as a device: what happens to the requests the caller     *)
(* waits for and to the return queue.                                      *)
(***************************************************************************)
LEMMA PopTakes ==
  ASSUME ControllerInv, PopReturn
  PROVE  Device!Take
  <1>1. /\ returnq \in Seq(Req) /\ returnq # <<>>
        /\ returnq' = Tail(returnq) /\ outstanding' = outstanding \ {Head(returnq)}
    BY Types DEF PopReturn, ControllerInv
  <1>2. 1 \in DOMAIN returnq /\ Head(returnq) = returnq[1] /\ Len(returnq) \in Nat
    BY <1>1, ElementsOfSeq, LenProperties
  <1>3. {returnq[i] : i \in 1 .. 1} = {Head(returnq)}
    BY <1>2
  <1>4. SubSeq(returnq, 1 + 1, Len(returnq)) = Tail(returnq)
    BY <1>1, <1>2
  <1>5. QED
    BY <1>1, <1>2, <1>3, <1>4 DEF Device!Take

LEMMA DeliveryCompletes ==
  ASSUME ControllerInv, NEW p \in Page, DeliverRequest(p)
  PROVE  \E r \in Req : Device!Complete(r)
  <1> DEFINE r == Head(mshr[p].pending)
  <1>1. /\ pc = "deliver" /\ todo # {} /\ p = Min(todo) /\ Len(returnq) < ReturnCap
        /\ returnq' = Append(returnq, r) /\ outstanding' = outstanding
    BY DEF DeliverRequest, ReturnRoom
  <1>2. r \in Req /\ r \in ToSet(mshr[p].pending)
    BY <1>1, NextDelivery, ElementsOfSeq
  <1> HIDE DEF r
  <1>3. r \in outstanding /\ r \notin ToSet(returnq)
    BY <1>2 DEF ControllerInv, RequestsInv
  <1>4. Device!Completed = ToSet(returnq)
    BY DEF Device!Completed, ToSet
  <1>5. Device!Complete(r)
    BY <1>1, <1>3, <1>4 DEF Device!Complete
  <1>6. QED
    BY <1>2, <1>5

LEMMA DeviceStep ==
  ASSUME ControllerInv, [Next]_vars
  PROVE  [Device!DeviceNext]_<<outstanding, returnq>>
  <1>1. CASE UNCHANGED vars
    BY <1>1 DEF vars
  <1>2. CASE Push
    <2>1. PICK r \in Req : \/ BufferWrite(r) \/ CompletePage(r)
                           \/ ReadBuffered(r) \/ ReadCoalesce(r) \/ ReadMiss(r)
      BY <1>2 DEF Push
    <2>2. Device!Accept(r) \/ UNCHANGED <<outstanding, returnq>>
      BY <2>1
      DEF BufferWrite, CompletePage, ReadBuffered, ReadCoalesce, ReadMiss, MayPush,
          Terminate, Device!Accept
    <2>3. QED
      BY <2>2 DEF Device!DeviceNext
  <1>3. CASE PopReturn
    BY <1>3, PopTakes DEF Device!DeviceNext
  <1>4. CASE Tick
    BY <1>4 DEF Tick
  <1>5. CASE Advance
    <2>1. ASSUME NEW p \in Page, DeliverRequest(p) PROVE Device!DeviceNext
      BY <2>1, DeliveryCompletes DEF Device!DeviceNext
    <2>2. CASE \E s \in Subarray : MediaAdvance(s) \/ EraseComplete(s) \/ AccessComplete(s)
      BY <2>2 DEF MediaAdvance, EraseComplete, AccessComplete, StepSubarray
    <2>3. CASE CacheHitsReady \/ UpdateWindow \/ FlushesDone \/ EndCycle
      BY <2>3 DEF CacheHitsReady, UpdateWindow, FlushesDone, EndCycle
    <2>4. CASE \E p \in Page : DeliverNoRoom(p) \/ DeliverStalled(p)
      BY <2>4 DEF DeliverNoRoom, DeliverStalled
    <2>5. CASE \E p \in Page : FlushNext(p)
      BY <2>5 DEF FlushNext, Terminate
    <2>6. CASE \E p \in Page : IssueErase(p) \/ IssueProgram(p)
      BY <2>6 DEF IssueErase, IssueProgram, Issue
    <2>7. CASE \E p \in Page : IssueHit(p) \/ IssueRead(p)
      BY <2>7 DEF IssueHit, IssueRead, Issue
    <2>8. QED
      BY <1>5, <2>1, <2>2, <2>3, <2>4, <2>5, <2>6, <2>7 DEF Advance
  <1>6. QED
    BY <1>1, <1>2, <1>3, <1>4, <1>5 DEF Next

(***************************************************************************)
(* Whatever way a request takes inside, the controller hands it back once, *)
(* through a return queue that never overflows nor reorders.               *)
(***************************************************************************)
THEOREM ControllerImplementsDevice == Spec => ImplementsDevice
  <1>1. Init => Device!DeviceInit
    BY DEF Init, Device!DeviceInit
  <1>2. ControllerInv /\ [Next]_vars => [Device!DeviceNext]_<<outstanding, returnq>>
    BY DeviceStep
  <1>3. Spec => []ControllerInv
    BY ControllerInvariant, PTL
  <1>4. QED
    BY <1>1, <1>2, <1>3, PTL DEF Spec, ImplementsDevice, Device!DeviceSpec

-----------------------------------------------------------------------------
(***************************************************************************)
(* Acknowledged writes. The entry of a write has its page mapped: the      *)
(* mapping is made when the entry is, and is never undone.                 *)
(***************************************************************************)
WritesHaveAddress == \A p \in Page : mshr[p].write => Mapped(ftl, p)

\* What a step does to the entry of p: it keeps or adds requests, or replies
\* to the first one, or admits the page.
Gathers(p) == /\ mshr'[p].write = mshr[p].write
              /\ \/ mshr'[p].pending = mshr[p].pending
                 \/ Len(mshr'[p].pending) > Len(mshr[p].pending)
Replies(p) == DeliverRequest(p) /\ (mshr'[p].write => mshr[p].write)
Admits(p)  == ~mshr[p].write /\ (mshr'[p].write => Mapped(ftl', p))

EntryStep(p) == /\ Gathers(p) \/ Replies(p) \/ Admits(p)
                /\ Mapped(ftl, p) => Mapped(ftl', p)

LEMMA EntryUnchanged ==
  ASSUME NEW p \in Page, mshr'[p] = mshr[p], Mapped(ftl, p) => Mapped(ftl', p)
  PROVE  EntryStep(p)
  BY DEF EntryStep, Gathers

LEMMA FlushEntrySteps ==
  ASSUME ControllerInv, FtlPart, UseFtl, NEW p \in Page, ~InMshr(p),
         NEW reqs, NEW attached, FlushEntry(p, reqs, attached), NEW q \in Page
  PROVE  EntryStep(q)
  <1>1. ftl' \in FtlWrites(ftl, p) /\ FtlInv(ftl)
    BY DEF FlushEntry, FtlPart
  <1>2. Mapped(ftl', p) /\ \A t \in Page : t # p => ftl'.map[t] = ftl.map[t]
    BY <1>1, FtlWriteStep DEF WriteStep
  <1>3. \A t \in Page : Mapped(ftl, t) => Mapped(ftl', t)
    BY <1>2 DEF Mapped
  <1>4. CASE q = p
    <2>1. EntryOK(p, mshr[p])
      BY DEF ControllerInv, EntriesInv
    <2>2. ~mshr[p].write
      BY <2>1, NoEntryOK DEF EntryOK, InMshr
    <2>3. QED
      BY <1>2, <1>4, <2>2 DEF EntryStep, Admits
  <1>5. CASE q # p
    <2>1. mshr'[q] = mshr[q]
      BY <1>5, Types DEF FlushEntry, ControllerInv
    <2>2. QED
      BY <1>3, <2>1, EntryUnchanged
  <1>6. QED
    BY <1>4, <1>5

LEMMA EntrySteps ==
  ASSUME ControllerInv, FtlPart, UseFtl, [Next]_vars, NEW q \in Page
  PROVE  EntryStep(q)
  <1>1. ASSUME UNCHANGED <<mshr, ftl>> PROVE EntryStep(q)
    BY <1>1, EntryUnchanged
  <1>2. mshr \in [Page -> Entry] /\ mshr[q] \in Entry /\ EntryOK(q, mshr[q])
    BY Types DEF ControllerInv, EntriesInv
  <1>3. CASE UNCHANGED vars
    BY <1>1, <1>3 DEF vars
  <1>4. ASSUME Terminate PROVE EntryStep(q)
    BY <1>1, <1>4 DEF Terminate
  <1>5. CASE Push
    <2>1. PICK r \in Req : \/ BufferWrite(r) \/ CompletePage(r)
                           \/ ReadBuffered(r) \/ ReadCoalesce(r) \/ ReadMiss(r)
      BY <1>5 DEF Push
    <2>2. PageOf[r] \in Page
      BY Constants
    <2>3. CASE BufferWrite(r)
      BY <1>1, <2>3 DEF BufferWrite
    <2>4. CASE CompletePage(r)
      <3>1. CASE ~Terminate
        <4>1. /\ FlushEntry(PageOf[r], Append(wb[PageOf[r]], r), <<>>)
              /\ ~InMshr(PageOf[r])
          BY <2>4, <3>1 DEF CompletePage, FlushAllowed
        <4>2. QED
          BY <2>2, <4>1, FlushEntrySteps
      <3>2. QED
        BY <1>4, <3>1
    <2>5. CASE ReadBuffered(r)
      <3>1. CASE ~Terminate
        <4>1. /\ FlushEntry(PageOf[r], wb[PageOf[r]], <<r>>)
              /\ ~InMshr(PageOf[r])
          BY <2>5, <3>1 DEF ReadBuffered, FlushAllowed
        <4>2. QED
          BY <2>2, <4>1, FlushEntrySteps
      <3>2. QED
        BY <1>4, <3>1
    <2>6. CASE ReadCoalesce(r)
      <3> DEFINE p == PageOf[r]
                 a == mshr[p].agg /\ Len(mshr[p].pending) + 1 < ReadAggThreshold
                 f == [mshr[p] EXCEPT !.pending = Append(@, r), !.agg = a]
      <3>1. mshr' = [mshr EXCEPT ![p] = f] /\ UNCHANGED ftl
        BY <2>6 DEF ReadCoalesce
      <3>2. CASE p = q
        <4>1. mshr'[q] = f
          BY <1>2, <3>1, <3>2
        <4>2. f.write = mshr[q].write /\ f.pending = Append(mshr[q].pending, r)
          BY <1>2, <3>2 DEF Entry
        <4>3. Len(Append(mshr[q].pending, r)) > Len(mshr[q].pending)
          <5>1. mshr[q].pending \in Seq(Req)
            BY <1>2, EntryTypes
          <5>2. QED
            BY <5>1, LenProperties
        <4> HIDE DEF f
        <4>4. QED
          BY <3>1, <4>1, <4>2, <4>3 DEF EntryStep, Gathers
      <3>3. CASE p # q
        BY <1>2, <3>1, <3>3, EntryUnchanged
      <3>4. QED
        BY <3>2, <3>3
    <2>7. CASE ReadMiss(r)
      <3> DEFINE p == PageOf[r]
                 agg == AggReads /\ 1 < ReadAggThreshold
                 f == WaitingEntry(<<r>>, FALSE, agg, ReadAddr(ftl, p))
      <3>1. mshr' = [mshr EXCEPT ![p] = f] /\ UNCHANGED ftl /\ ~InMshr(p)
        BY <2>7 DEF ReadMiss
      <3>2. CASE p = q
        <4>1. mshr'[q] = f /\ f.write = FALSE
          BY <1>2, <3>1, <3>2 DEF WaitingEntry
        <4> HIDE DEF f
        <4>2. ~mshr[q].write /\ ~mshr'[q].write
          BY <1>2, <3>1, <3>2, <4>1, NoEntryOK DEF EntryOK, InMshr
        <4>3. QED
          BY <3>1, <4>2 DEF EntryStep, Admits
      <3>3. CASE p # q
        BY <1>2, <3>1, <3>3, EntryUnchanged
      <3>4. QED
        BY <3>2, <3>3
    <2>8. QED
      BY <2>1, <2>3, <2>4, <2>5, <2>6, <2>7
  <1>6. CASE PopReturn
    BY <1>1, <1>6 DEF PopReturn
  <1>7. CASE Tick
    <2>1. /\ mshr'[q] = ReleaseAggregated(mshr[q]) /\ UNCHANGED ftl
      BY <1>7 DEF Tick
    <2> DEFINE f == ReleaseAggregated(mshr[q])
    <2>2. SameOp(mshr[q], f) /\ f.pending = mshr[q].pending
      BY <1>2, ReleasedEntry
    <2> HIDE DEF f
    <2>3. QED
      BY <2>1, <2>2 DEF f, EntryStep, Gathers, SameOp
  <1>8. CASE Advance
    <2>1. ASSUME NEW s \in Subarray, MediaAdvance(s) PROVE EntryStep(q)
      BY <1>1, <2>1 DEF MediaAdvance
    <2>2. ASSUME NEW s \in Subarray, EraseComplete(s) \/ AccessComplete(s)
          PROVE  EntryStep(q)
      <3>1. PICK p \in Page : Min(Serving(s)) = p
        BY <2>2, TheServed DEF EraseComplete, AccessComplete
      <3>2. /\ mshr'[q].write = mshr[q].write
            /\ mshr'[q].pending = mshr[q].pending
        <4> DEFINE e == [mshr[p] EXCEPT !.op = "waiting"]
                   f == [mshr[p] EXCEPT !.fill = (mshr[p].op = "reading"),
                                        !.deliver = TRUE]
        <4>1. mshr' = [mshr EXCEPT ![p] = e] \/ mshr' = [mshr EXCEPT ![p] = f]
          BY <2>2, <3>1 DEF EraseComplete, AccessComplete
        <4>2. /\ e.write = mshr[p].write /\ f.write = mshr[p].write
              /\ e.pending = mshr[p].pending /\ f.pending = mshr[p].pending
          BY <1>2 DEF Entry
        <4> HIDE DEF e, f
        <4>3. QED
          BY <1>2, <4>1, <4>2
      <3>3. Mapped(ftl', q) <=> Mapped(ftl, q)
        BY <2>2 DEF EraseComplete, AccessComplete, MarkBlockErased, Mapped, FtlPart,
                    FtlInv, FtlState
      <3>4. QED
        BY <3>2, <3>3 DEF EntryStep, Gathers
    <2>3. CASE CacheHitsReady
      <3>1. mshr'[q] = HitTick(mshr[q]) /\ UNCHANGED ftl
        BY <2>3 DEF CacheHitsReady, HitTick
      <3> DEFINE f == HitTick(mshr[q])
      <3>2. f.write = mshr[q].write /\ f.pending = mshr[q].pending
        BY <1>2, HitTicks
      <3> HIDE DEF f
      <3>3. QED
        BY <3>1, <3>2 DEF f, EntryStep, Gathers
    <2>4. ASSUME NEW p \in Page, DeliverNoRoom(p) PROVE EntryStep(q)
      BY <1>1, <2>4 DEF DeliverNoRoom
    <2>5. ASSUME NEW p \in Page, DeliverStalled(p) PROVE EntryStep(q)
      <3>1. mshr' = [mshr EXCEPT ![p].fill = FALSE] /\ UNCHANGED ftl
        BY <2>5 DEF DeliverStalled
      <3>2. /\ mshr'[q].write = mshr[q].write
            /\ mshr'[q].pending = mshr[q].pending
        BY <1>2, <3>1 DEF Entry
      <3>3. QED
        BY <3>1, <3>2 DEF EntryStep, Gathers
    <2>6. ASSUME NEW p \in Page, DeliverRequest(p) PROVE EntryStep(q)
      <3>1. UNCHANGED ftl
        BY <2>6 DEF DeliverRequest
      <3>2. CASE p = q
        <4>1. \/ mshr' = [mshr EXCEPT ![q] = NoEntry]
              \/ mshr' = [mshr EXCEPT ![q].fill = FALSE, ![q].pending = Undelivered(q)]
          BY <2>6, <3>2 DEF DeliverRequest
        <4>2. mshr'[q].write => mshr[q].write
          BY <1>2, <4>1, NoEntryOK, ZenonT(60) DEF Entry
        <4>3. QED
          BY <2>6, <3>1, <3>2, <4>2 DEF EntryStep, Replies
      <3>3. CASE p # q
        <4>1. mshr'[q] = mshr[q]
          BY <1>2, <2>6, <3>3 DEF DeliverRequest
        <4>2. QED
          BY <3>1, <4>1, EntryUnchanged
      <3>4. QED
        BY <3>2, <3>3
    <2>7. CASE UpdateWindow \/ FlushesDone \/ EndCycle
      BY <1>1, <2>7 DEF UpdateWindow, FlushesDone, EndCycle
    <2>8. ASSUME NEW p \in Page, FlushNext(p) PROVE EntryStep(q)
      <3>1. CASE FlushAllowed(p, FALSE) /\ ~Terminate
        <4>1. FlushEntry(p, wb[p], <<>>) /\ ~InMshr(p)
          BY <2>8, <3>1 DEF FlushNext, FlushAllowed
        <4>2. QED
          BY <4>1, FlushEntrySteps
      <3>2. CASE ~FlushAllowed(p, FALSE)
        BY <1>1, <2>8, <3>2 DEF FlushNext
      <3>3. QED
        BY <1>4, <3>1, <3>2
    <2>9. ASSUME NEW p \in Page,
                 IssueErase(p) \/ IssueProgram(p) \/ IssueHit(p) \/ IssueRead(p)
          PROVE  EntryStep(q)
      <3>1. /\ mshr'[q].write = mshr[q].write
            /\ mshr'[q].pending = mshr[q].pending
        <4> DEFINE Started(o) == [mshr[p] EXCEPT !.op = o]
                   n == Max({CacheHitLatency, 1})
                   f == [mshr[p] EXCEPT !.hit = n]
        <4>1. \/ \E o \in {"erasing", "programming", "reading"} :
                    mshr' = [mshr EXCEPT ![p] = Started(o)]
              \/ mshr' = [mshr EXCEPT ![p] = f]
          BY <2>9 DEF IssueErase, IssueProgram, IssueHit, IssueRead
        <4> HIDE DEF n
        <4>2. /\ f.write = mshr[p].write /\ f.pending = mshr[p].pending
              /\ \A o : /\ Started(o).write = mshr[p].write
                        /\ Started(o).pending = mshr[p].pending
          BY <1>2 DEF Entry
        <4> HIDE DEF f, Started
        <4>3. QED
          BY <1>2, <4>1, <4>2
      <3>2. Mapped(ftl', q) <=> Mapped(ftl, q)
        BY <2>9 DEF IssueErase, IssueProgram, IssueHit, IssueRead, MarkBlockErasing,
                    Mapped, FtlPart, FtlInv, FtlState
      <3>3. QED
        BY <3>1, <3>2 DEF EntryStep, Gathers
    <2>10. QED
      BY <1>8, <2>1, <2>2, <2>3, <2>4, <2>5, <2>6, <2>7, <2>8, <2>9 DEF Advance
  <1>9. QED
    BY <1>3, <1>5, <1>6, <1>7, <1>8 DEF Next

\* A write entry that replies has its page on the media.
LEMMA RepliesAfterProgram ==
  ASSUME ControllerInv, M!MediaInv, WritesHaveAddress, NEW p \in Page,
         DeliverRequest(p), mshr[p].write
  PROVE  mshr[p].phys.off \in nand[mshr[p].phys.blk]
  <1>1. pc = "deliver" /\ todo # {} /\ p = Min(todo)
    BY DEF DeliverRequest
  <1>2. /\ mshr[p] \in Entry /\ EntryOK(p, mshr[p]) /\ mshr[p].deliver /\ InMshr(p)
    BY <1>1, NextDelivery
  <1>3. flightOf[p] = "done"
    BY <1>2, EntryStages, StageView DEF InMshr
  <1>4. M!Mapped(ftl, p)
    BY SameFtl DEF WritesHaveAddress, M!Mapped, Mapped
  <1>5. ftl.map[p].off \in nand[ftl.map[p].blk]
    BY <1>3, <1>4, SameFtl
    DEF M!MediaInv, M!WrittenPagesDurable, M!Unwritten, flightOf
  <1>6. mshr[p].phys = ftl.map[p]
    BY <1>3, <1>4, SameFtl
    DEF M!MediaInv, M!AddressFresh, M!ReadAddr, flightOf
  <1>7. QED
    BY <1>5, <1>6

(***************************************************************************)
(* With an FTL, a write is answered only when its page is on the media,    *)
(* whatever was coalesced onto its entry meanwhile.                        *)
(***************************************************************************)
THEOREM ControllerAcknowledges == UseFtl => (Spec => WriteAckedAfterProgram)
  <1> SUFFICES ASSUME UseFtl PROVE Spec => WriteAckedAfterProgram
    OBVIOUS
  <1> DEFINE Inv == ControllerInv /\ MediaPart /\ WritesHaveAddress
             Acked == \A p \in Page :
                        mshr[p].write /\ mshr'[p].pending # mshr[p].pending
                          => \/ Len(mshr'[p].pending) > Len(mshr[p].pending)
                             \/ mshr[p].phys.off \in nand[mshr[p].phys.blk]
  <1>1. Init => WritesHaveAddress
    BY NoEntryOK DEF Init, WritesHaveAddress
  <1>2. ASSUME Inv, [Next]_vars PROVE WritesHaveAddress' /\ Acked
    <2>1. \A p \in Page : EntryStep(p)
      BY <1>2, MediaPartFtl, EntrySteps
    <2>2. WritesHaveAddress'
      BY <1>2, <2>1 DEF WritesHaveAddress, EntryStep, Gathers, Replies, Admits
    <2>3. ASSUME NEW p \in Page, mshr[p].write, mshr'[p].pending # mshr[p].pending
          PROVE  \/ Len(mshr'[p].pending) > Len(mshr[p].pending)
                 \/ mshr[p].phys.off \in nand[mshr[p].phys.blk]
      <3>1. Gathers(p) \/ Replies(p)
        BY <2>1, <2>3 DEF EntryStep, Admits
      <3>2. CASE Gathers(p)
        BY <2>3, <3>2 DEF Gathers
      <3>3. CASE Replies(p)
        BY <1>2, <2>3, <3>3, RepliesAfterProgram DEF MediaPart, Replies
      <3>4. QED
        BY <3>1, <3>2, <3>3
    <2>4. QED
      BY <2>2, <2>3
  <1>3. Spec => []Inv
    <2>1. Init => Inv
      BY <1>1, InvInit
    <2>2. Inv /\ [Next]_vars => Inv'
      BY <1>2, InvStep
    <2>3. QED
      BY <2>1, <2>2, PTL DEF Spec
  <1>4. Inv /\ [Next]_vars => [Acked]_vars
    BY <1>2
  <1>5. QED
    BY <1>3, <1>4, PTL DEF Spec, WriteAckedAfterProgram

-----------------------------------------------------------------------------
(***************************************************************************)
(* The order of the writes of a page. While a write r waits behind a write *)
(* w of its page, w is ahead of r in the buffer entry, in the MSHR entry   *)
(* and between the two, and is answered when r is.                         *)
(***************************************************************************)
WaitsBehind(r, w) ==
  LET p == PageOf[r]
  IN /\ Before(wb[p], w, r) /\ Before(mshr[p].pending, w, r)
     /\ r \in ToSet(mshr[p].pending) => w \notin ToSet(wb[p])
     /\ r \in ToSet(returnq) => w \in ToSet(returnq)

OrderInv ==
  /\ ahead \in [Req -> SUBSET Req]
  /\ \A r \in Req : \A w \in ahead[r] :
       /\ w # r /\ w \in outstanding /\ r \in outstanding
       /\ PageOf[w] = PageOf[r]
       /\ IsWrite[r] => WaitsBehind(r, w)

\* What a step does to the requests of a page: it leaves them where they are,
\* or buffers a new one, or moves the buffered ones and perhaps a new one to an
\* empty entry, or lets a new read join the entry, or replies to the first one.
New(x)       == x \in Req /\ x \notin outstanding
Stays(p)     == wb'[p] = wb[p] /\ mshr'[p].pending = mshr[p].pending
Buffers(p)   == /\ \E x : New(x) /\ wb'[p] = Append(wb[p], x)
                /\ mshr'[p].pending = mshr[p].pending
Flushes(p)   == /\ wb'[p] = <<>>
                /\ \/ mshr'[p].pending = wb[p]
                   \/ \E x : New(x) /\ mshr'[p].pending = Append(wb[p], x)
Joins(p)     == /\ wb'[p] = wb[p]
                /\ \E x : /\ New(x) /\ ~IsWrite[x]
                          /\ mshr'[p].pending = Append(mshr[p].pending, x)
Delivers(p)  == /\ wb'[p] = wb[p]
                /\ mshr[p].pending # <<>> /\ mshr'[p].pending = Tail(mshr[p].pending)

PageStep(p) == Stays(p) \/ Buffers(p) \/ Flushes(p) \/ Joins(p) \/ Delivers(p)

\* What a step does to the return queue: only requests nobody waits for leave
\* it, and only the first one of an entry joins it.
ReturnStep ==
  /\ \A r \in outstanding : r \notin outstanding' => r \in ToSet(returnq)
  /\ \A r \in ToSet(returnq) : r \in outstanding' => r \in ToSet(returnq')
  /\ \A r \in ToSet(returnq') :
       \/ r \in ToSet(returnq)
       \/ mshr[PageOf[r]].pending # <<>> /\ r = Head(mshr[PageOf[r]].pending)

LEMMA FlushPageStep ==
  ASSUME ControllerInv, NEW p \in Page, NEW reqs, NEW attached,
         FlushEntry(p, reqs, attached),
         \/ reqs \o attached = wb[p]
         \/ \E x : New(x) /\ reqs \o attached = Append(wb[p], x),
         NEW q \in Page
  PROVE  PageStep(q)
  <1> DEFINE e == WaitingEntry(reqs \o attached, TRUE, FALSE,
                               IF UseFtl THEN ftl'.map[p] ELSE PseudoAddr(p))
  <1>1. mshr' = [mshr EXCEPT ![p] = e] /\ wb' = [wb EXCEPT ![p] = <<>>]
    BY DEF FlushEntry
  <1>2. e.pending = reqs \o attached
    BY DEF WaitingEntry
  <1> HIDE DEF e
  <1>3. mshr \in [Page -> Entry] /\ wb \in [Page -> Seq(Req)]
    BY Types DEF ControllerInv
  <1>4. CASE q = p
    <2>1. wb'[q] = <<>> /\ mshr'[q].pending = reqs \o attached
      BY <1>1, <1>2, <1>3, <1>4
    <2>2. QED
      BY <1>4, <2>1 DEF PageStep, Flushes
  <1>5. CASE q # p
    BY <1>1, <1>3, <1>5 DEF PageStep, Stays
  <1>6. QED
    BY <1>4, <1>5

LEMMA PageSteps ==
  ASSUME ControllerInv, [Next]_vars, NEW q \in Page
  PROVE  PageStep(q)
  <1>1. /\ mshr \in [Page -> Entry] /\ mshr[q] \in Entry /\ EntryOK(q, mshr[q])
        /\ wb \in [Page -> Seq(Req)]
    BY Types DEF ControllerInv, EntriesInv
  <1>2. ASSUME UNCHANGED <<wb, mshr>> PROVE PageStep(q)
    BY <1>2 DEF PageStep, Stays
  <1>3. ASSUME UNCHANGED wb, mshr'[q].pending = mshr[q].pending PROVE PageStep(q)
    BY <1>3 DEF PageStep, Stays
  <1>4. CASE UNCHANGED vars
    BY <1>2, <1>4 DEF vars
  <1>5. ASSUME Terminate PROVE PageStep(q)
    BY <1>2, <1>5 DEF Terminate, bufferVars
  <1>6. CASE Push
    <2>1. PICK r \in Req : \/ BufferWrite(r) \/ CompletePage(r)
                           \/ ReadBuffered(r) \/ ReadCoalesce(r) \/ ReadMiss(r)
      BY <1>6 DEF Push
    <2>2. PageOf[r] \in Page /\ New(r)
      BY <2>1, Constants
      DEF New, BufferWrite, CompletePage, ReadBuffered, ReadCoalesce, ReadMiss, MayPush
    <2> DEFINE p == PageOf[r]
    <2>3. wb[p] \in Seq(Req) /\ mshr[p] \in Entry
      BY <1>1, <2>2
    <2>4. CASE BufferWrite(r)
      <3>1. wb' = [wb EXCEPT ![p] = Append(wb[p], r)] /\ mshr' = mshr
        BY <2>4 DEF BufferWrite
      <3>2. CASE q = p
        BY <1>1, <2>2, <3>1, <3>2 DEF PageStep, Buffers
      <3>3. CASE q # p
        BY <1>1, <3>1, <3>3 DEF PageStep, Stays
      <3>4. QED
        BY <3>2, <3>3
    <2>5. CASE CompletePage(r)
      <3>1. CASE ~Terminate
        <4>1. FlushEntry(p, Append(wb[p], r), <<>>)
          BY <2>5, <3>1 DEF CompletePage
        <4>2. Append(wb[p], r) \o <<>> = Append(wb[p], r)
          BY <2>3, AppendElements, ConcatEmptySeq
        <4> HIDE DEF p
        <4>3. p \in Page
          BY <2>2 DEF p
        <4>4. QED
          BY <2>2, <4>1, <4>2, <4>3, FlushPageStep
      <3>2. QED
        BY <1>5, <3>1
    <2>6. CASE ReadBuffered(r)
      <3>1. CASE ~Terminate
        <4>1. FlushEntry(p, wb[p], <<r>>)
          BY <2>6, <3>1 DEF ReadBuffered
        <4>2. wb[p] \o <<r>> = Append(wb[p], r)
          BY <2>3, AppendIsConcat
        <4> HIDE DEF p
        <4>3. p \in Page
          BY <2>2 DEF p
        <4>4. QED
          BY <2>2, <4>1, <4>2, <4>3, FlushPageStep
      <3>2. QED
        BY <1>5, <3>1
    <2>7. CASE ReadCoalesce(r)
      <3> DEFINE a == mshr[p].agg /\ Len(mshr[p].pending) + 1 < ReadAggThreshold
                 f == [mshr[p] EXCEPT !.pending = Append(@, r), !.agg = a]
      <3>1. mshr' = [mshr EXCEPT ![p] = f] /\ UNCHANGED wb /\ ~IsWrite[r]
        BY <2>7 DEF ReadCoalesce, bufferVars
      <3>2. f.pending = Append(mshr[p].pending, r)
        BY <2>3 DEF Entry
      <3> HIDE DEF f
      <3>3. CASE q = p
        <4>1. mshr'[q].pending = Append(mshr[q].pending, r) /\ wb'[q] = wb[q]
          BY <1>1, <3>1, <3>2, <3>3
        <4>2. QED
          BY <2>2, <3>1, <4>1 DEF PageStep, Joins
      <3>4. CASE q # p
        BY <1>1, <1>3, <3>1, <3>4
      <3>5. QED
        BY <3>3, <3>4
    <2>8. CASE ReadMiss(r)
      <3> DEFINE f == WaitingEntry(<<r>>, FALSE, AggReads /\ 1 < ReadAggThreshold,
                                   IF UseFtl THEN ReadAddr(ftl, p) ELSE PseudoAddr(p))
      <3>1. /\ mshr' = [mshr EXCEPT ![p] = f] /\ UNCHANGED wb /\ ~IsWrite[r]
            /\ ~InMshr(p)
        BY <2>8 DEF ReadMiss, bufferVars
      <3>2. f.pending = <<r>>
        BY DEF WaitingEntry
      <3> HIDE DEF f
      <3>3. CASE q = p
        <4>1. mshr[q].pending = <<>>
          BY <1>1, <3>1, <3>3, NoEntryOK DEF EntryOK, InMshr
        <4>2. mshr'[q].pending = Append(mshr[q].pending, r) /\ wb'[q] = wb[q]
          BY <1>1, <3>1, <3>2, <3>3, <4>1
        <4>3. QED
          BY <2>2, <3>1, <4>2 DEF PageStep, Joins
      <3>4. CASE q # p
        BY <1>1, <1>3, <3>1, <3>4
      <3>5. QED
        BY <3>3, <3>4
    <2>9. QED
      BY <2>1, <2>4, <2>5, <2>6, <2>7, <2>8
  <1>7. CASE PopReturn
    BY <1>2, <1>7 DEF PopReturn, bufferVars
  <1>8. CASE Tick
    <2>1. mshr'[q] = ReleaseAggregated(mshr[q]) /\ UNCHANGED wb
      BY <1>8 DEF Tick
    <2>2. QED
      BY <1>1, <1>3, <2>1, ReleasedEntry
  <1>9. CASE Advance
    <2>1. ASSUME NEW s \in Subarray, MediaAdvance(s) PROVE PageStep(q)
      BY <1>2, <2>1 DEF MediaAdvance, StepSubarray, bufferVars
    <2>2. ASSUME NEW s \in Subarray, EraseComplete(s) \/ AccessComplete(s)
          PROVE  PageStep(q)
      <3>1. PICK p \in Page : Min(Serving(s)) = p
        BY <2>2, TheServed DEF EraseComplete, AccessComplete
      <3> DEFINE e == [mshr[p] EXCEPT !.op = "waiting"]
                 f == [mshr[p] EXCEPT !.fill = (mshr[p].op = "reading"),
                                      !.deliver = TRUE]
      <3>2. /\ mshr' = [mshr EXCEPT ![p] = e] \/ mshr' = [mshr EXCEPT ![p] = f]
            /\ UNCHANGED wb
        BY <2>2, <3>1 DEF EraseComplete, AccessComplete, StepSubarray, bufferVars
      <3>3. e.pending = mshr[p].pending /\ f.pending = mshr[p].pending
        BY <1>1 DEF Entry
      <3> HIDE DEF e, f
      <3>4. mshr'[q].pending = mshr[q].pending
        BY <1>1, <3>2, <3>3
      <3>5. QED
        BY <1>3, <3>2, <3>4
    <2>3. CASE CacheHitsReady
      <3>1. mshr'[q] = HitTick(mshr[q]) /\ UNCHANGED wb
        BY <2>3 DEF CacheHitsReady, HitTick, bufferVars
      <3>2. QED
        BY <1>1, <1>3, <3>1, HitTicks
    <2>4. ASSUME NEW p \in Page, DeliverNoRoom(p) PROVE PageStep(q)
      BY <1>2, <2>4 DEF DeliverNoRoom, bufferVars
    <2>5. ASSUME NEW p \in Page, DeliverStalled(p) PROVE PageStep(q)
      <3>1. mshr' = [mshr EXCEPT ![p].fill = FALSE] /\ UNCHANGED wb
        BY <2>5 DEF DeliverStalled, bufferVars
      <3>2. mshr'[q].pending = mshr[q].pending
        BY <1>1, <3>1 DEF Entry
      <3>3. QED
        BY <1>3, <3>1, <3>2
    <2>6. ASSUME NEW p \in Page, DeliverRequest(p) PROVE PageStep(q)
      <3>1. UNCHANGED wb
        BY <2>6 DEF DeliverRequest, bufferVars
      <3>2. CASE p = q
        <4>1. mshr[q].pending # <<>>
          BY <2>6, <3>2, NextDelivery DEF DeliverRequest
        <4>2. CASE Undelivered(q) = <<>>
          <5>1. mshr' = [mshr EXCEPT ![q] = NoEntry]
            BY <2>6, <3>2, <4>2 DEF DeliverRequest
          <5>2. mshr'[q].pending = Tail(mshr[q].pending)
            BY <1>1, <4>2, <5>1, NoEntryOK DEF Undelivered
          <5>3. QED
            BY <3>1, <4>1, <5>2 DEF PageStep, Delivers
        <4>3. CASE Undelivered(q) # <<>>
          <5>1. mshr' = [mshr EXCEPT ![q].fill = FALSE, ![q].pending = Undelivered(q)]
            BY <2>6, <3>2, <4>3 DEF DeliverRequest
          <5>2. mshr'[q].pending = Tail(mshr[q].pending)
            BY <1>1, <5>1 DEF Undelivered, Entry
          <5>3. QED
            BY <3>1, <4>1, <5>2 DEF PageStep, Delivers
        <4>4. QED
          BY <4>2, <4>3
      <3>3. CASE p # q
        <4>1. mshr'[q] = mshr[q]
          BY <1>1, <2>6, <3>3 DEF DeliverRequest
        <4>2. QED
          BY <1>3, <3>1, <4>1
      <3>4. QED
        BY <3>2, <3>3
    <2>7. CASE UpdateWindow \/ FlushesDone \/ EndCycle
      BY <1>2, <2>7 DEF UpdateWindow, FlushesDone, EndCycle, bufferVars
    <2>8. ASSUME NEW p \in Page, FlushNext(p) PROVE PageStep(q)
      <3>1. CASE FlushAllowed(p, FALSE) /\ ~Terminate
        <4>1. FlushEntry(p, wb[p], <<>>)
          BY <2>8, <3>1 DEF FlushNext
        <4>2. wb[p] \o <<>> = wb[p]
          BY <1>1, ConcatEmptySeq
        <4>3. QED
          BY <4>1, <4>2, FlushPageStep
      <3>2. CASE ~FlushAllowed(p, FALSE)
        BY <1>2, <2>8, <3>2 DEF FlushNext, bufferVars
      <3>3. QED
        BY <1>5, <3>1, <3>2
    <2>9. ASSUME NEW p \in Page,
                 IssueErase(p) \/ IssueProgram(p) \/ IssueHit(p) \/ IssueRead(p)
          PROVE  PageStep(q)
      <3> DEFINE Started(o) == [mshr[p] EXCEPT !.op = o]
                 n == Max({CacheHitLatency, 1})
                 f == [mshr[p] EXCEPT !.hit = n]
      <3>1. /\ \/ \E o \in {"erasing", "programming", "reading"} :
                    mshr' = [mshr EXCEPT ![p] = Started(o)]
               \/ mshr' = [mshr EXCEPT ![p] = f]
            /\ UNCHANGED wb
        BY <2>9 DEF IssueErase, IssueProgram, IssueHit, IssueRead, Issue, bufferVars
      <3> HIDE DEF n
      <3>2. f.pending = mshr[p].pending /\ \A o : Started(o).pending = mshr[p].pending
        BY <1>1 DEF Entry
      <3> HIDE DEF f, Started
      <3>3. mshr'[q].pending = mshr[q].pending
        BY <1>1, <3>1, <3>2
      <3>4. QED
        BY <1>3, <3>1, <3>3
    <2>10. QED
      BY <1>9, <2>1, <2>2, <2>3, <2>4, <2>5, <2>6, <2>7, <2>8, <2>9 DEF Advance
  <1>10. QED
    BY <1>4, <1>6, <1>7, <1>8, <1>9 DEF Next

LEMMA ReturnSteps ==
  ASSUME ControllerInv, [Next]_vars
  PROVE  ReturnStep
  <1>1. /\ returnq \in Seq(Req) /\ outstanding \in SUBSET Req
        /\ ToSet(returnq) \subseteq outstanding /\ IsInjective(returnq)
    BY Types DEF ControllerInv, RequestsInv
  <1>2. ASSUME outstanding \subseteq outstanding', UNCHANGED returnq
        PROVE  ReturnStep
    BY <1>2 DEF ReturnStep
  <1>3. ASSUME UNCHANGED <<outstanding, returnq>> PROVE ReturnStep
    BY <1>2, <1>3
  <1>4. CASE UNCHANGED vars
    BY <1>3, <1>4 DEF vars
  <1>5. CASE Push
    BY <1>2, <1>5
    DEF Push, BufferWrite, CompletePage, ReadBuffered, ReadCoalesce, ReadMiss, Terminate
  <1>6. CASE PopReturn
    <2>1. /\ returnq # <<>> /\ returnq' = Tail(returnq)
          /\ outstanding' = outstanding \ {Head(returnq)}
      BY <1>6 DEF PopReturn
    <2>2. /\ Head(returnq) \in ToSet(returnq)
          /\ ToSet(returnq') = ToSet(returnq) \ {Head(returnq)}
      BY <1>1, <2>1, TailElements
    <2>3. QED
      BY <2>1, <2>2 DEF ReturnStep
  <1>7. CASE Tick
    BY <1>3, <1>7 DEF Tick
  <1>8. CASE Advance
    <2>1. ASSUME NEW p \in Page, DeliverRequest(p) PROVE ReturnStep
      <3> DEFINE r == Head(mshr[p].pending)
      <3>1. /\ pc = "deliver" /\ todo # {} /\ p = Min(todo)
            /\ returnq' = Append(returnq, r) /\ outstanding' = outstanding
        BY <2>1 DEF DeliverRequest
      <3>2. mshr[p].pending \in Seq(Req) /\ mshr[p].pending # <<>> /\ r \in Req
        BY <3>1, NextDelivery
      <3>3. PageOf[r] = p
        <4>1. r \in ToSet(mshr[p].pending)
          BY <3>2, ElementsOfSeq
        <4>2. QED
          BY <4>1 DEF ControllerInv, EntriesInv, EntryOK
      <3>4. ToSet(returnq') = ToSet(returnq) \cup {r}
        <4> HIDE DEF r
        <4>1. QED
          BY <1>1, <3>1, <3>2, AppendElements
      <3>5. QED
        BY <3>1, <3>2, <3>3, <3>4 DEF ReturnStep
    <2>2. CASE \E s \in Subarray : MediaAdvance(s) \/ EraseComplete(s) \/ AccessComplete(s)
      BY <1>3, <2>2 DEF MediaAdvance, EraseComplete, AccessComplete, StepSubarray
    <2>3. CASE CacheHitsReady \/ UpdateWindow \/ FlushesDone \/ EndCycle
      BY <1>3, <2>3 DEF CacheHitsReady, UpdateWindow, FlushesDone, EndCycle
    <2>4. CASE \E p \in Page : DeliverNoRoom(p) \/ DeliverStalled(p)
      BY <1>3, <2>4 DEF DeliverNoRoom, DeliverStalled
    <2>5. CASE \E p \in Page : FlushNext(p)
      BY <1>3, <2>5 DEF FlushNext, Terminate
    <2>6. CASE \E p \in Page : IssueErase(p) \/ IssueProgram(p)
      BY <1>3, <2>6 DEF IssueErase, IssueProgram, Issue
    <2>7. CASE \E p \in Page : IssueHit(p) \/ IssueRead(p)
      BY <1>3, <2>7 DEF IssueHit, IssueRead, Issue
    <2>8. QED
      BY <1>8, <2>1, <2>2, <2>3, <2>4, <2>5, <2>6, <2>7 DEF Advance
  <1>9. QED
    BY <1>4, <1>5, <1>6, <1>7, <1>8 DEF Next

\* A write that waits goes on waiting behind the one ahead of it.
LEMMA StillBehind ==
  ASSUME ControllerInv, [Next]_vars, NEW r \in Req, NEW w \in Req, w # r,
         PageOf[w] = PageOf[r], r \in outstanding, w \in outstanding, w \in outstanding', WaitsBehind(r, w)
  PROVE  WaitsBehind(r, w)'
  <1> DEFINE p == PageOf[r]
  <1>1. /\ p \in Page /\ wb[p] \in Seq(Req) /\ mshr[p].pending \in Seq(Req)
        /\ IsInjective(mshr[p].pending)
    BY Constants, Types, EntryTypes DEF ControllerInv, EntriesInv, EntryOK
  <1>2. /\ Before(wb[p], w, r) /\ Before(mshr[p].pending, w, r)
        /\ r \in ToSet(mshr[p].pending) => w \notin ToSet(wb[p])
        /\ r \in ToSet(returnq) => w \in ToSet(returnq)
    BY DEF WaitsBehind
  <1>3. PageStep(p) /\ ReturnStep
    BY <1>1, PageSteps, ReturnSteps
  <1>4. \A x : New(x) => x \in Req /\ x # w /\ x # r
    BY DEF New
  <1>5. ToSet(<<>>) = {} /\ Before(<<>>, w, r)
    BY EmptySeq DEF ToSet, Before
  <1>6. w \in ToSet(wb[p]) \/ w \in ToSet(mshr[p].pending) \/ w \in ToSet(returnq)
    BY DEF ControllerInv, RequestsInv
  <1>7. /\ Before(wb'[p], w, r) /\ Before(mshr'[p].pending, w, r)
        /\ r \in ToSet(mshr'[p].pending) => w \notin ToSet(wb'[p])
    <2>1. CASE Stays(p)
      BY <1>2, <2>1 DEF Stays
    <2>2. CASE Buffers(p)
      <3>1. PICK x : New(x) /\ wb'[p] = Append(wb[p], x)
        BY <2>2 DEF Buffers
      <3>2. mshr'[p].pending = mshr[p].pending
        BY <2>2 DEF Buffers
      <3> HIDE DEF p
      <3>3. ToSet(wb'[p]) = ToSet(wb[p]) \cup {x}
        BY <1>1, <1>4, <3>1, AppendElements
      <3>4. Before(wb'[p], w, r)
        BY <1>1, <1>2, <1>4, <3>1, BeforeAppend
      <3>5. QED
        BY <1>2, <1>4, <3>1, <3>2, <3>3, <3>4
    <2>3. CASE Flushes(p)
      <3>1. wb'[p] = <<>>
        BY <2>3 DEF Flushes
      <3>2. CASE mshr'[p].pending = wb[p]
        BY <1>2, <1>5, <3>1, <3>2
      <3>3. ASSUME NEW x, New(x), mshr'[p].pending = Append(wb[p], x)
            PROVE  Before(mshr'[p].pending, w, r)
        <4> HIDE DEF p
        <4>1. QED
          BY <1>1, <1>2, <1>4, <3>3, BeforeAppend
      <3>4. QED
        BY <1>5, <2>3, <3>1, <3>2, <3>3 DEF Flushes
    <2>4. CASE Joins(p)
      <3>1. PICK x : New(x) /\ mshr'[p].pending = Append(mshr[p].pending, x)
        BY <2>4 DEF Joins
      <3>2. wb'[p] = wb[p]
        BY <2>4 DEF Joins
      <3> HIDE DEF p
      <3>3. ToSet(mshr'[p].pending) = ToSet(mshr[p].pending) \cup {x}
        BY <1>1, <1>4, <3>1, AppendElements
      <3>4. Before(mshr'[p].pending, w, r)
        BY <1>1, <1>2, <1>4, <3>1, BeforeAppend
      <3>5. QED
        BY <1>2, <1>4, <3>1, <3>2, <3>3, <3>4
    <2>5. CASE Delivers(p)
      <3>1. /\ wb'[p] = wb[p] /\ mshr[p].pending # <<>>
            /\ mshr'[p].pending = Tail(mshr[p].pending)
        BY <2>5 DEF Delivers
      <3> HIDE DEF p
      <3>2. ToSet(mshr'[p].pending) \subseteq ToSet(mshr[p].pending)
        BY <1>1, <3>1, TailElements
      <3>3. Before(mshr'[p].pending, w, r)
        BY <1>1, <1>2, <3>1, BeforeTail
      <3>4. QED
        BY <1>2, <3>1, <3>2, <3>3
    <2>6. QED
      BY <1>3, <2>1, <2>2, <2>3, <2>4, <2>5 DEF PageStep
  <1>8. ASSUME r \in ToSet(returnq') PROVE w \in ToSet(returnq')
    <2>1. CASE r \in ToSet(returnq)
      BY <1>2, <1>3, <2>1 DEF ReturnStep
    <2>2. CASE r \notin ToSet(returnq)
      <3>1. mshr[p].pending # <<>> /\ r = Head(mshr[p].pending)
        BY <1>3, <1>8, <2>2 DEF ReturnStep
      <3>2. r \in ToSet(mshr[p].pending)
        BY <1>1, <3>1, ElementsOfSeq
      <3>3. w \notin ToSet(mshr[p].pending)
        <4> HIDE DEF p
        <4>1. QED
          BY <1>1, <1>2, <3>1, BeforeTail
      <3>4. w \notin ToSet(wb[p])
        BY <1>2, <3>2
      <3>5. QED
        BY <1>3, <1>6, <3>3, <3>4 DEF ReturnStep
    <2>3. QED
      BY <2>1, <2>2
  <1>9. QED
    BY <1>7, <1>8 DEF WaitsBehind

\* A new write waits behind every write of its page that is not answered.
LEMMA StartsBehind ==
  ASSUME ControllerInv, [Next]_vars, NEW r \in Req, NEW w \in Req, w # r,
         IsWrite[r], r \notin outstanding, w \in outstanding, w \notin ToSet(returnq)
  PROVE  w \in outstanding' /\ WaitsBehind(r, w)'
  <1> DEFINE p == PageOf[r]
  <1>1. /\ p \in Page /\ wb[p] \in Seq(Req) /\ mshr[p].pending \in Seq(Req)
        /\ IsInjective(mshr[p].pending)
        /\ r \notin ToSet(wb[p]) /\ r \notin ToSet(mshr[p].pending)
        /\ r \notin ToSet(returnq)
    BY FreshRequest DEF ControllerInv, EntriesInv, EntryOK
  <1>2. PageStep(p) /\ ReturnStep
    BY <1>1, PageSteps, ReturnSteps
  <1>3. \A x : New(x) => x \in Req
    BY DEF New
  <1>4. ToSet(<<>>) = {} /\ Before(<<>>, w, r)
    BY EmptySeq DEF ToSet, Before
  <1>5. Before(wb[p], w, r) /\ Before(mshr[p].pending, w, r)
    BY <1>1 DEF Before, ToSet
  <1>6. /\ Before(wb'[p], w, r) /\ Before(mshr'[p].pending, w, r)
        /\ r \in ToSet(mshr'[p].pending) => w \notin ToSet(wb'[p])
    <2>1. CASE Stays(p)
      BY <1>1, <1>5, <2>1 DEF Stays
    <2>2. CASE Buffers(p)
      <3>1. PICK x : New(x) /\ wb'[p] = Append(wb[p], x)
        BY <2>2 DEF Buffers
      <3>2. mshr'[p].pending = mshr[p].pending
        BY <2>2 DEF Buffers
      <3> HIDE DEF p
      <3>3. Before(wb'[p], w, r)
        BY <1>1, <1>3, <3>1, BeforeAppend
      <3>4. QED
        BY <1>1, <1>5, <3>2, <3>3
    <2>3. CASE Flushes(p)
      <3>1. wb'[p] = <<>>
        BY <2>3 DEF Flushes
      <3>2. CASE mshr'[p].pending = wb[p]
        BY <1>1, <1>4, <1>5, <3>1, <3>2
      <3>3. ASSUME NEW x, New(x), mshr'[p].pending = Append(wb[p], x)
            PROVE  Before(mshr'[p].pending, w, r)
        <4> HIDE DEF p
        <4>1. QED
          BY <1>1, <1>3, <3>3, BeforeAppend
      <3>4. QED
        BY <1>4, <2>3, <3>1, <3>2, <3>3 DEF Flushes
    <2>4. CASE Joins(p)
      <3>1. PICK x : New(x) /\ ~IsWrite[x] /\ mshr'[p].pending = Append(mshr[p].pending, x)
        BY <2>4 DEF Joins
      <3>2. wb'[p] = wb[p]
        BY <2>4 DEF Joins
      <3> HIDE DEF p
      <3>3. ToSet(mshr'[p].pending) = ToSet(mshr[p].pending) \cup {x}
        BY <1>1, <1>3, <3>1, AppendElements
      <3>4. Before(mshr'[p].pending, w, r)
        BY <1>1, <1>3, <3>1, BeforeAppend
      <3>5. r \notin ToSet(mshr'[p].pending)
        BY <1>1, <3>1, <3>3
      <3>6. QED
        BY <1>5, <3>2, <3>4, <3>5
    <2>5. CASE Delivers(p)
      <3>1. /\ wb'[p] = wb[p] /\ mshr[p].pending # <<>>
            /\ mshr'[p].pending = Tail(mshr[p].pending)
        BY <2>5 DEF Delivers
      <3> HIDE DEF p
      <3>2. ToSet(mshr'[p].pending) \subseteq ToSet(mshr[p].pending)
        BY <1>1, <3>1, TailElements
      <3>3. Before(mshr'[p].pending, w, r)
        BY <1>1, <1>5, <3>1, BeforeTail
      <3>4. QED
        BY <1>1, <1>5, <3>1, <3>2, <3>3
    <2>6. QED
      BY <1>2, <2>1, <2>2, <2>3, <2>4, <2>5 DEF PageStep
  <1>7. r \notin ToSet(returnq')
    <2>1. mshr[p].pending # <<>> => Head(mshr[p].pending) # r
      BY <1>1, ElementsOfSeq
    <2>2. QED
      BY <1>1, <1>2, <2>1 DEF ReturnStep
  <1>8. w \in outstanding'
    BY <1>2 DEF ReturnStep
  <1>9. QED
    BY <1>6, <1>7, <1>8 DEF WaitsBehind

LEMMA OrderInvStep ==
  ASSUME ControllerInv, OrderInv, [OrderNext]_orderVars
  PROVE  OrderInv'
  <1>1. CASE UNCHANGED orderVars
    <2>1. UNCHANGED <<wb, mshr, returnq, outstanding, ahead>>
      BY <1>1 DEF orderVars, vars
    <2>2. QED
      BY <2>1 DEF OrderInv, WaitsBehind
  <1>2. CASE OrderNext
    <2>1. /\ Next /\ ahead \in [Req -> SUBSET Req]
          /\ outstanding \in SUBSET Req /\ returnq \in Seq(Req)
      BY <1>2, Types DEF OrderNext, OrderInv, ControllerInv
    <2>2. ahead' = [r \in Req |->
             IF r \in Pushed
               THEN {w \in Unanswered(PageOf[r]) : IsWrite[w]}
               ELSE IF r \in outstanding' THEN (ahead[r] \cap outstanding') \ Pushed
               ELSE {}]
      BY <1>2 DEF OrderNext
    <2>3. \A r \in Req : Unanswered(PageOf[r]) \subseteq Req
      BY <2>1 DEF Unanswered
    <2>4. ahead' \in [Req -> SUBSET Req]
      BY <2>1, <2>2, <2>3
    <2>5. ASSUME NEW r \in Req, NEW w \in ahead'[r]
          PROVE  /\ w # r /\ w \in outstanding' /\ r \in outstanding'
                 /\ PageOf[w] = PageOf[r]
                 /\ IsWrite[r] => WaitsBehind(r, w)'
      <3>1. CASE r \in Pushed
        <4>1. w \in Unanswered(PageOf[r])
          BY <2>2, <2>5, <3>1
        <4>2. /\ w \in outstanding /\ PageOf[w] = PageOf[r] /\ w \notin ToSet(returnq)
          BY <2>1, <4>1, ElementsOfSeq DEF Unanswered
        <4>3. r \notin outstanding /\ r \in outstanding' /\ w # r /\ w \in Req
          BY <2>1, <3>1, <4>2 DEF Pushed
        <4>4. w \in outstanding'
          <5>1. ReturnStep
            BY <2>1, ReturnSteps
          <5>2. QED
            BY <4>2, <5>1 DEF ReturnStep
        <4>5. IsWrite[r] => WaitsBehind(r, w)'
          BY <2>1, <4>2, <4>3, StartsBehind
        <4>6. QED
          BY <4>2, <4>3, <4>4, <4>5
      <3>2. CASE r \notin Pushed
        <4>1. w \in ahead[r] /\ w \in outstanding' /\ r \in outstanding'
          BY <2>2, <2>5, <3>2
        <4>2. /\ w # r /\ w \in outstanding /\ r \in outstanding /\ w \in Req
              /\ PageOf[w] = PageOf[r]
              /\ IsWrite[r] => WaitsBehind(r, w)
          BY <2>1, <4>1 DEF OrderInv
        <4>3. IsWrite[r] => WaitsBehind(r, w)'
          BY <2>1, <4>1, <4>2, StillBehind
        <4>4. QED
          BY <4>1, <4>2, <4>3
      <3>3. QED
        BY <3>1, <3>2
    <2>6. QED
      BY <2>4, <2>5 DEF OrderInv
  <1>3. QED
    BY <1>1, <1>2

(***************************************************************************)
(* Writes of one page are answered in the order they were pushed, through  *)
(* coalescing in the buffer, deferred flushes, retries and buffer entries  *)
(* behind an operation in flight.                                          *)
(***************************************************************************)
THEOREM WritesAnsweredInOrder == OrderSpec => []PageWritesInOrder
  <1>1. OrderSpec => Spec
    <2>1. OrderInit => Init
      BY DEF OrderInit
    <2>2. [OrderNext]_orderVars => [Next]_vars
      BY DEF OrderNext, orderVars
    <2>3. QED
      BY <2>1, <2>2, PTL DEF OrderSpec, Spec
  <1>2. OrderInit => OrderInv
    BY DEF OrderInit, OrderInv
  <1>3. ControllerInv /\ OrderInv /\ [OrderNext]_orderVars => OrderInv'
    BY OrderInvStep
  <1>4. ControllerInv /\ OrderInv => PageWritesInOrder
    <2> SUFFICES ASSUME ControllerInv, OrderInv, NEW r \in ToSet(returnq), IsWrite[r]
                 PROVE  Overtaken(r) = {}
      BY DEF PageWritesInOrder
    <2>1. returnq \in Seq(Req) /\ r \in Req
      BY Types, ElementsOfSeq DEF ControllerInv
    <2>2. ASSUME NEW w \in ahead[r] PROVE Contains(returnq, w)
      <3>1. w \in ToSet(returnq)
        BY <2>1 DEF OrderInv, WaitsBehind
      <3>2. QED
        BY <2>1, <3>1, ElementsOfSeq
    <2>3. QED
      BY <2>2 DEF Overtaken
  <1>5. Spec => []ControllerInv
    BY ControllerInvariant, PTL
  <1>6. OrderSpec => []OrderInv
    BY <1>1, <1>2, <1>3, <1>5, PTL DEF OrderSpec
  <1>7. QED
    BY <1>1, <1>4, <1>5, <1>6, PTL

=============================================================================
