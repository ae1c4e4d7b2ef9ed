------------------------ MODULE HBFController_proofs ------------------------
(***************************************************************************)
(* The properties of the controller for every configuration: number of     *)
(* pages, requests, sub-arrays and channels, limits, policies and timings. *)
(* This module proves that ControllerInv is inductive while the tables of  *)
(* the FTL are sound (FtlPart), HBFRefinement_proofs.tla draws the results *)
(* from it.                                                                *)
(***************************************************************************)
EXTENDS HBFProperties, HBFFtl_proofs

-----------------------------------------------------------------------------
(***************************************************************************)
(* The inductive invariant.                                                *)
(***************************************************************************)

\* What a loop of cycle() has still to visit.
LoopInv ==
  /\ pc \in {"idle", "sched"} => todo = {}
  /\ pc = "media" => todo \subseteq Active
  /\ pc = "deliver" => todo \subseteq {p \in Page : mshr[p].deliver}
  /\ pc \in {"timeout", "drain"} => todo \subseteq Buffered

\* An entry has requests of its own page; a write entry begins with a write
\* until it is delivered, and is delivered after its program only.
EntryOK(p, e) ==
  /\ e.op = "none" => e = NoEntry
  /\ e.op # "none" => e.pending # <<>>
  /\ IsInjective(e.pending)
  /\ \A r \in ToSet(e.pending) : PageOf[r] = p /\ (IsWrite[r] => e.write)
  /\ e.write /\ ~e.deliver =>
       IsWrite[Head(e.pending)] /\ (StrictWrites => PageFull(e.pending))
  /\ e.hit > 0 => e.op = "waiting" /\ ~e.deliver /\ ~e.write
  /\ e.fill => e.op = "reading"
  /\ e.op = "reading" => ~e.write
  /\ e.op \in {"erasing", "programming"} => e.write
  /\ e.op = "erasing" => ~e.deliver /\ UseFtl
  /\ e.deliver /\ e.write => e.op = "programming"

EntriesInv == \A p \in Page : EntryOK(p, mshr[p])

\* Every request waited for is in one place.
RequestsInv ==
  /\ \A p \in Page :
       /\ IsInjective(wb[p])
       /\ \A r \in ToSet(wb[p]) :
            /\ PageOf[r] = p /\ IsWrite[r] /\ r \in outstanding
            /\ r \notin ToSet(mshr[p].pending) /\ r \notin ToSet(returnq)
       /\ \A r \in ToSet(mshr[p].pending) :
            r \in outstanding /\ r \notin ToSet(returnq)
  /\ IsInjective(returnq) /\ ToSet(returnq) \subseteq outstanding
  /\ \A r \in outstanding :
       \/ r \in ToSet(wb[PageOf[r]])
       \/ r \in ToSet(mshr[PageOf[r]].pending)
       \/ r \in ToSet(returnq)

Waits(e)  == e.op = "waiting" /\ e.hit = 0 /\ ~e.deliver
Served(e) == e.op \notin {"none", "waiting"} /\ ~e.deliver

QueueInv ==
  IsInjective(queue) /\ ToSet(queue) = {p \in Page : Waits(mshr[p])}

ServiceInv ==
  /\ \A p \in Page : Served(mshr[p]) => busy[SubarrayOf[p]] > 0
  /\ \A p, q \in Page : Served(mshr[p]) /\ Served(mshr[q])
                         /\ SubarrayOf[p] = SubarrayOf[q] => p = q
  /\ \A s \in Subarray : busy[s] > 0 =>
       \E p \in Page : SubarrayOf[p] = s /\ Served(mshr[p])
  /\ Cardinality(Active) <= MaxActive

CacheInv ==
  /\ IsInjective(cache)
  /\ \A p \in ToSet(cache) : mshr[p].op \notin {"erasing", "programming"}

ControllerInv ==
  /\ ControllerTypeOK /\ LoopInv
  /\ EntriesInv /\ RequestsInv
  /\ QueueInv /\ ServiceInv /\ CacheInv
  /\ OutstandingWritesExact /\ OccupancyBounded

-----------------------------------------------------------------------------
(***************************************************************************)
(* The types, field by field.                                              *)
(***************************************************************************)
LEMMA Constants ==
  /\ Page \subseteq Nat /\ Subarray \subseteq Nat
  /\ IsFiniteSet(Page) /\ IsFiniteSet(Subarray)
  /\ SubarrayOf \in [Page -> Subarray] /\ ChannelOf \in [Page -> Channel]
  /\ PageOf \in [Req -> Page] /\ IsWrite \in [Req -> BOOLEAN]
  /\ Covers \in [Req -> SUBSET Sector]
  /\ {UseFtl, StrictWrites, AggReads} \subseteq BOOLEAN
  <1>1. Page \subseteq Nat
    BY FtlAssumption DEF Page
  <1>2. QED
    BY <1>1, FtlAssumption, ControllerAssumption, PagesFinite

LEMMA Numbers ==
  /\ MaxOutstanding \in Nat /\ MaxOutstandingWrites \in Nat /\ AggTimeout \in Nat
  /\ IdleQuiet \in Nat /\ DrainMaxwait \in Nat /\ ReadAggWindow \in Nat
  /\ CacheEntries \in Nat /\ CacheHitLatency \in Nat
  /\ ReadCost \in Nat /\ LinkBw \in Nat
  /\ MaxActive \in Nat \ {0} /\ ReturnCap \in Nat \ {0}
  /\ DrainHigh \in Nat \ {0} /\ ReadAggThreshold \in Nat \ {0}
  /\ TBUFF \in Nat \ {0} /\ TR \in Nat \ {0}
  /\ TPROG \in Nat \ {0} /\ TBERS \in Nat \ {0}
  /\ MaxCredit \in Nat /\ MaxCredit >= LinkBw /\ MaxCredit >= ReadCost
  <1>1. ReadCost \in Nat /\ LinkBw \in Nat
    BY ControllerAssumption
  <1>2. MaxCredit = IF LinkBw >= ReadCost THEN LinkBw ELSE ReadCost
    BY <1>1, MaxOfTwo DEF MaxCredit
  <1>3. QED
    BY <1>1, <1>2, ControllerAssumption

LEMMA EntryTypes ==
  ASSUME NEW e \in Entry
  PROVE  /\ e.op \in Op /\ e.hit \in Nat /\ e.age \in Nat
         /\ e.deliver \in BOOLEAN /\ e.fill \in BOOLEAN /\ e.agg \in BOOLEAN
         /\ e.write \in BOOLEAN /\ e.pending \in Seq(Req) /\ e.phys \in Addr
  BY DEF Entry

LEMMA NoEntryOK ==
  /\ NoEntry \in Entry /\ NoEntry.op = "none" /\ NoEntry.pending = <<>>
  /\ NoEntry.deliver = FALSE /\ NoEntry.write = FALSE /\ NoEntry.hit = 0
  /\ \A p : EntryOK(p, NoEntry)
  <1>1. /\ NoEntry.op = "none" /\ NoEntry.pending = <<>> /\ NoEntry.fill = FALSE
        /\ NoEntry.deliver = FALSE /\ NoEntry.write = FALSE /\ NoEntry.hit = 0
    BY DEF NoEntry, WaitingEntry
  <1>2. NoEntry \in Entry
    <2>1. Unmapped \in Addr /\ <<>> \in Seq(Req)
      BY EmptySeq DEF Addr, Unmapped, NoBlock
    <2>2. QED
      BY <2>1 DEF NoEntry, WaitingEntry, Entry, Op
  <1>3. IsInjective(<<>>) /\ ToSet(<<>>) = {}
    BY EmptySeq DEF IsInjective, ToSet
  <1>4. QED
    BY <1>1, <1>2, <1>3 DEF EntryOK

\* An entry that is admitted.
LEMMA WaitingEntryTypes ==
  ASSUME NEW reqs \in Seq(Req), NEW w \in BOOLEAN, NEW a \in BOOLEAN,
         NEW addr \in Addr
  PROVE  LET e == WaitingEntry(reqs, w, a, addr)
         IN /\ e \in Entry /\ e.op = "waiting" /\ e.pending = reqs
            /\ e.deliver = FALSE /\ e.fill = FALSE /\ e.agg = a /\ e.write = w
            /\ e.hit = 0 /\ e.age = 0 /\ e.phys = addr
  BY DEF WaitingEntry, Entry, Op

LEMMA Types ==
  ASSUME ControllerTypeOK
  PROVE  /\ mshr \in [Page -> Entry] /\ wb \in [Page -> Seq(Req)]
         /\ queue \in Seq(Page) /\ returnq \in Seq(Req) /\ cache \in Seq(Page)
         /\ outstanding \in SUBSET Req /\ busy \in [Subarray -> Nat]
         /\ outw \in [Channel -> Nat] /\ todo \in SUBSET (Page \cup Subarray)
         /\ \A p \in Page : mshr[p] \in Entry /\ wb[p] \in Seq(Req)
  BY DEF ControllerTypeOK

\* The sets the counters speak of are finite.
LEMMA FiniteSets ==
  /\ IsFiniteSet(Mshr) /\ IsFiniteSet(Buffered) /\ IsFiniteSet(Active)
  /\ \A S \in SUBSET Page : IsFiniteSet(S)
  <1>1. Mshr \subseteq Page /\ Buffered \subseteq Page /\ Active \subseteq Subarray
    BY DEF Mshr, Buffered, Active
  <1>2. QED
    BY <1>1, Constants, FS_Subset

-----------------------------------------------------------------------------
(***************************************************************************)
(* What a step that leaves something alone preserves.                      *)
(***************************************************************************)
SameOp(e, f) ==
  /\ f.op = "none" <=> e.op = "none"
  /\ Waits(f) <=> Waits(e)
  /\ Served(f) <=> Served(e)
  /\ f.write = e.write

\* Neither the operations nor the queue, the sub-arrays and the counters.
LEMMA OperationsKept ==
  ASSUME ControllerInv,
         \A p \in Page : SameOp(mshr[p], mshr'[p]),
         UNCHANGED <<queue, busy, outw>>
  PROVE  /\ QueueInv' /\ ServiceInv' /\ OutstandingWritesExact'
         /\ Mshr' = Mshr /\ Active' = Active
  <1>1. \A p \in Page : /\ Waits(mshr'[p]) <=> Waits(mshr[p])
                        /\ Served(mshr'[p]) <=> Served(mshr[p])
    BY DEF SameOp
  <1>2. QueueInv'
    BY <1>1 DEF ControllerInv, QueueInv
  <1>3. Active' = Active
    BY DEF Active
  <1>4. ServiceInv'
    BY <1>1, <1>3 DEF ControllerInv, ServiceInv
  <1>5. Mshr' = Mshr
    BY DEF SameOp, Mshr, InMshr
  <1>6. OutstandingWritesExact'
    <2>1. ASSUME NEW c \in Channel
          PROVE  {p \in Mshr' : mshr'[p].write /\ ChannelOf[p] = c}
                   = {p \in Mshr : mshr[p].write /\ ChannelOf[p] = c}
      BY <1>5 DEF SameOp, Mshr
    <2>2. QED
      BY <2>1 DEF ControllerInv, OutstandingWritesExact
  <1>7. QED
    BY <1>2, <1>3, <1>4, <1>5, <1>6

\* No request moves.
LEMMA RequestsKept ==
  ASSUME ControllerInv,
         \A p \in Page : mshr'[p].pending = mshr[p].pending,
         UNCHANGED <<wb, returnq, outstanding>>
  PROVE  RequestsInv'
  <1>1. \A r \in outstanding : PageOf[r] \in Page
    BY Types, Constants DEF ControllerInv
  <1>2. QED
    BY <1>1 DEF ControllerInv, RequestsInv

\* No page is added to or leaves the device.
LEMMA OccupancyKept ==
  ASSUME ControllerInv, Mshr' = Mshr, UNCHANGED wb
  PROVE  OccupancyBounded' /\ Buffered' = Buffered
  BY DEF ControllerInv, OccupancyBounded, Buffered

-----------------------------------------------------------------------------
LEMMA ControllerInitInv == Init => ControllerInv
  <1> SUFFICES ASSUME Init PROVE ControllerInv
    OBVIOUS
  <1>1. \A p \in Page : mshr[p] = NoEntry /\ wb[p] = <<>>
    BY DEF Init
  <1>2. /\ queue = <<>> /\ cache = <<>> /\ returnq = <<>> /\ outstanding = {}
        /\ ToSet(<<>>) = {} /\ IsInjective(<<>>) /\ Len(<<>>) = 0
        /\ \A S : <<>> \in Seq(S)
    BY EmptySeq DEF Init, ToSet, IsInjective
  <1>3. Mshr = {} /\ Buffered = {} /\ Active = {}
    BY <1>1, NoEntryOK DEF Init, Mshr, InMshr, Buffered, Active
  <1>4. ControllerTypeOK
    <2>1. /\ pc \in Phase /\ todo \in SUBSET (Page \cup Subarray)
          /\ outstanding \in SUBSET Req /\ readDue \in BOOLEAN
      BY DEF Init, Phase
    <2>5. issued \in Nat /\ drain \in NoWindow .. DrainMaxwait
      <3>1. DrainMaxwait \in Nat /\ NoWindow = -1 /\ drain = NoWindow /\ issued = 0
        BY Numbers DEF Init, NoWindow
      <3>2. QED
        BY <3>1
    <2>2. /\ wb \in [Page -> Seq(Req)] /\ mshr \in [Page -> Entry]
          /\ queue \in Seq(Page)
          /\ cache \in Seq(Page) /\ returnq \in Seq(Req)
          /\ Len(cache) <= CacheEntries /\ Len(returnq) <= ReturnCap
      BY <1>2, NoEntryOK, Numbers DEF Init
    <2>3. /\ wbAge \in [Page -> 0 .. AggTimeout + 1]
          /\ wbQuiet \in [Page -> 0 .. IdleQuiet + 1]
          /\ busy \in [Subarray -> Nat]
          /\ outw \in [Channel -> Nat] /\ credit \in [Channel -> 0 .. MaxCredit]
      BY Numbers DEF Init
    <2>4. QED
      BY <2>1, <2>2, <2>3, <2>5 DEF ControllerTypeOK
  <1>5. EntriesInv
    BY <1>1, NoEntryOK DEF EntriesInv
  <1>6. RequestsInv
    BY <1>1, <1>2, NoEntryOK DEF RequestsInv
  <1>7. QueueInv
    BY <1>1, <1>2, NoEntryOK DEF QueueInv, Waits
  <1>8. ServiceInv
    <2>1. \A s \in Subarray : ~(busy[s] > 0)
      BY DEF Init
    <2>2. Cardinality(Active) <= MaxActive
      BY <1>3, FS_EmptySet, Numbers
    <2>3. QED
      BY <1>1, <2>1, <2>2, NoEntryOK DEF ServiceInv, Served
  <1>9. OutstandingWritesExact /\ OccupancyBounded
    <2>1. \A c : {p \in Mshr : mshr[p].write /\ ChannelOf[p] = c} = {}
      BY <1>3
    <2>2. QED
      BY <1>3, <2>1, FS_EmptySet, ControllerAssumption
      DEF Init, OutstandingWritesExact, OccupancyBounded
  <1>10. QED
    BY <1>2, <1>4, <1>5, <1>6, <1>7, <1>8, <1>9
    DEF ControllerInv, LoopInv, CacheInv, Init

LEMMA TerminateStep ==
  ASSUME ControllerInv, Terminate
  PROVE  ControllerInv'
  <1>1. /\ UNCHANGED <<mshr, wb, outstanding, returnq, queue, busy, outw, cache>>
        /\ pc' = "fatal"
    BY DEF Terminate, bufferVars
  <1>2. ControllerTypeOK'
    BY DEF ControllerInv, ControllerTypeOK, Terminate, bufferVars, windowVars, Phase
  <1>3. QueueInv' /\ ServiceInv' /\ OutstandingWritesExact' /\ Mshr' = Mshr
    BY <1>1, OperationsKept DEF SameOp
  <1>4. RequestsInv'
    BY <1>1, RequestsKept
  <1>5. OccupancyBounded'
    BY <1>1, <1>3, OccupancyKept
  <1>6. QED
    BY <1>1, <1>2, <1>3, <1>4, <1>5
    DEF ControllerInv, LoopInv, EntriesInv, CacheInv

LEMMA BufferWriteStep ==
  ASSUME ControllerInv, NEW r \in Req, BufferWrite(r)
  PROVE  ControllerInv'
  <1> DEFINE p    == PageOf[r]
             reqs == Append(wb[p], r)
  <1>1. /\ p \in Page /\ wb[p] \in Seq(Req) /\ wb \in [Page -> Seq(Req)]
        /\ outstanding \in SUBSET Req /\ r \notin outstanding /\ IsWrite[r]
        /\ wb' = [wb EXCEPT ![p] = reqs] /\ outstanding' = outstanding \cup {r}
        /\ wbQuiet' = [wbQuiet EXCEPT ![p] = 0]
        /\ pc = "idle" /\ pc' \in {"idle", "drain"} /\ ~Full
        /\ todo' = (IF pc' = "drain" THEN Buffered \cup {p} ELSE {})
        /\ UNCHANGED <<mshr, returnq, queue, busy, outw, cache>>
    BY Types, Constants DEF ControllerInv, BufferWrite, MayPush
  <1>2. /\ reqs \in Seq(Req) /\ reqs # <<>> /\ ToSet(reqs) = ToSet(wb[p]) \cup {r}
        /\ IsInjective(wb[p]) /\ r \notin ToSet(wb[p]) => IsInjective(reqs)
    BY <1>1, AppendElements
  <1> HIDE DEF p, reqs
  <1>3. /\ wb'[p] = reqs /\ \A q \in Page : q # p => wb'[q] = wb[q]
        /\ wb' \in [Page -> Seq(Req)]
    BY <1>1, <1>2
  <1>4. Buffered' = Buffered \cup {p}
    BY <1>1, <1>2, <1>3 DEF Buffered
  <1>5. ControllerTypeOK'
    <2>1. pc' \in Phase /\ outstanding' \in SUBSET Req
      BY <1>1 DEF Phase
    <2>2. Buffered \cup {p} \subseteq Page
      BY <1>1 DEF Buffered
    <2>3. todo' \in SUBSET (Page \cup Subarray)
      BY <1>1, <2>2
    <2>4. wbQuiet' \in [Page -> 0 .. IdleQuiet + 1]
      BY <1>1, Numbers DEF ControllerInv, ControllerTypeOK
    <2>5. UNCHANGED <<issued, wbAge, credit, drain, readDue>>
      BY DEF BufferWrite, windowVars
    <2>6. QED
      BY <1>1, <1>3, <2>1, <2>3, <2>4, <2>5 DEF ControllerInv, ControllerTypeOK
  <1>6. QueueInv' /\ ServiceInv' /\ OutstandingWritesExact' /\ Mshr' = Mshr
    BY <1>1, OperationsKept DEF SameOp
  <1>7. RequestsInv'
    <2>1. /\ \A q \in Page : r \notin ToSet(wb[q]) /\ r \notin ToSet(mshr[q].pending)
          /\ r \notin ToSet(returnq) /\ PageOf[r] = p
      BY <1>1 DEF ControllerInv, RequestsInv, p
    <2>2. \A q \in outstanding : PageOf[q] \in Page
      BY <1>1, Constants
    <2>3. QED
      BY <1>1, <1>2, <1>3, <2>1, <2>2 DEF ControllerInv, RequestsInv
  <1>8. OccupancyBounded'
    <2>1. Cardinality(Buffered) \in Nat /\ Cardinality(Mshr) \in Nat
      BY FiniteSets, FS_CardinalityType
    <2>2. Cardinality(Buffered') \in {Cardinality(Buffered), Cardinality(Buffered) + 1}
      BY <1>4, FiniteSets, FS_AddElement
    <2>3. MaxOutstanding # 0 => Cardinality(Mshr) + Cardinality(Buffered) < MaxOutstanding
      BY <1>1, <2>1, Numbers DEF Full
    <2> DEFINE b == Cardinality(Buffered)
               n == Cardinality(Buffered')
               m == Cardinality(Mshr)
    <2>4. MaxOutstanding # 0 => m + n <= MaxOutstanding
      <3>1. /\ m \in Nat /\ b \in Nat /\ n \in {b, b + 1}
            /\ MaxOutstanding # 0 => m + b < MaxOutstanding
        BY <2>1, <2>2, <2>3
      <3> HIDE DEF b, n, m
      <3>2. QED
        BY <3>1, Numbers
    <2>5. QED
      BY <1>6, <2>4 DEF OccupancyBounded
  <1>9. LoopInv'
    BY <1>1, <1>4 DEF LoopInv
  <1>10. QED
    BY <1>1, <1>5, <1>6, <1>7, <1>8, <1>9 DEF ControllerInv, EntriesInv, CacheInv

-----------------------------------------------------------------------------
(***************************************************************************)
(* What a step that changes one entry does to the queue, the sub-arrays    *)
(* and the counters.                                                       *)
(***************************************************************************)
LEMMA QueueAppended ==
  ASSUME ControllerInv, NEW p \in Page,
         ~Waits(mshr[p]), Waits(mshr'[p]),
         \A q \in Page : q # p => mshr'[q] = mshr[q],
         queue' = Append(queue, p)
  PROVE  QueueInv' /\ queue' \in Seq(Page)
  <1>1. /\ queue \in Seq(Page) /\ IsInjective(queue)
        /\ ToSet(queue) = {q \in Page : Waits(mshr[q])}
    BY DEF ControllerInv, ControllerTypeOK, QueueInv
  <1>2. p \notin ToSet(queue)
    BY <1>1
  <1>3. /\ queue' \in Seq(Page) /\ IsInjective(queue')
        /\ ToSet(queue') = ToSet(queue) \cup {p}
    BY <1>1, <1>2, AppendElements
  <1>4. ToSet(queue') = {q \in Page : Waits(mshr'[q])}
    BY <1>1, <1>3
  <1>5. QED
    BY <1>3, <1>4 DEF QueueInv

LEMMA QueueRemoved ==
  ASSUME ControllerInv, NEW i \in DOMAIN queue, NEW p, p = queue[i],
         ~Waits(mshr'[p]),
         \A q \in Page : q # p => mshr'[q] = mshr[q],
         queue' = RemoveAt(queue, i)
  PROVE  QueueInv' /\ queue' \in Seq(Page)
  <1>1. /\ queue \in Seq(Page) /\ IsInjective(queue)
        /\ ToSet(queue) = {q \in Page : Waits(mshr[q])}
    BY DEF ControllerInv, ControllerTypeOK, QueueInv
  <1>2. /\ queue' \in Seq(Page) /\ IsInjective(queue')
        /\ ToSet(queue') = ToSet(queue) \ {p}
    BY <1>1, RemoveAtElements
  <1>3. ToSet(queue') = {q \in Page : Waits(mshr'[q])}
    BY <1>1, <1>2
  <1>4. QED
    BY <1>2, <1>3 DEF QueueInv

LEMMA ServiceStarted ==
  ASSUME ControllerInv, NEW p \in Page, NEW t \in Nat \ {0},
         busy[SubarrayOf[p]] = 0, Cardinality(Active) < MaxActive,
         busy' = [busy EXCEPT ![SubarrayOf[p]] = t],
         Served(mshr'[p]),
         \A q \in Page : q # p => mshr'[q] = mshr[q]
  PROVE  ServiceInv' /\ busy' \in [Subarray -> Nat]
  <1> DEFINE s == SubarrayOf[p]
  <1>1. s \in Subarray /\ busy \in [Subarray -> Nat]
    BY Types, Constants DEF ControllerInv
  <1>2. /\ busy' \in [Subarray -> Nat] /\ busy'[s] = t
        /\ \A u \in Subarray : u # s => busy'[u] = busy[u]
    BY <1>1
  <1>3. \A q \in Page : Served(mshr[q]) => SubarrayOf[q] # s
    BY DEF ControllerInv, ServiceInv
  <1>4. \A q \in Page : SubarrayOf[q] \in Subarray
    BY Constants
  <1>5. /\ \A q \in Page : Served(mshr'[q]) => busy'[SubarrayOf[q]] > 0
        /\ \A q, r \in Page : Served(mshr'[q]) /\ Served(mshr'[r])
                               /\ SubarrayOf[q] = SubarrayOf[r] => q = r
    BY <1>2, <1>3, <1>4 DEF ControllerInv, ServiceInv
  <1>6. ASSUME NEW u \in Subarray, busy'[u] > 0
        PROVE  \E q \in Page : SubarrayOf[q] = u /\ Served(mshr'[q])
    <2>1. CASE u = s
      BY <2>1
    <2>2. CASE u # s
      <3>1. PICK q \in Page : SubarrayOf[q] = u /\ Served(mshr[q])
        BY <1>2, <1>6, <2>2 DEF ControllerInv, ServiceInv
      <3>2. q # p
        BY <2>2, <3>1
      <3>3. QED
        BY <3>1, <3>2
    <2>3. QED
      BY <2>1, <2>2
  <1>7. Cardinality(Active') <= MaxActive
    <2>1. Active' = Active \cup {s} /\ s \notin Active
      BY <1>1, <1>2 DEF Active
    <2>2. Cardinality(Active') = Cardinality(Active) + 1
      BY <2>1, FiniteSets, FS_AddElement
    <2>3. Cardinality(Active) \in Nat
      BY FiniteSets, FS_CardinalityType
    <2>4. QED
      BY <2>2, <2>3, Numbers
  <1>8. QED
    BY <1>2, <1>5, <1>6, <1>7 DEF ServiceInv

LEMMA ServiceEnded ==
  ASSUME ControllerInv, NEW p \in Page, NEW s \in Subarray,
         SubarrayOf[p] = s, Served(mshr[p]), busy[s] = 1,
         busy' = [busy EXCEPT ![s] = @ - 1],
         ~Served(mshr'[p]),
         \A q \in Page : q # p => mshr'[q] = mshr[q]
  PROVE  ServiceInv' /\ busy' \in [Subarray -> Nat] /\ Active' = Active \ {s}
  <1>1. /\ busy \in [Subarray -> Nat] /\ busy'[s] = 0
        /\ busy' \in [Subarray -> Nat]
        /\ \A u \in Subarray : u # s => busy'[u] = busy[u]
    BY Types DEF ControllerInv
  <1>2. \A q \in Page : Served(mshr'[q]) => Served(mshr[q]) /\ SubarrayOf[q] # s
    BY DEF ControllerInv, ServiceInv
  <1>3. \A q \in Page : SubarrayOf[q] \in Subarray
    BY Constants
  <1>4. /\ \A q \in Page : Served(mshr'[q]) => busy'[SubarrayOf[q]] > 0
        /\ \A q, r \in Page : Served(mshr'[q]) /\ Served(mshr'[r])
                               /\ SubarrayOf[q] = SubarrayOf[r] => q = r
    BY <1>1, <1>2, <1>3 DEF ControllerInv, ServiceInv
  <1>5. ASSUME NEW u \in Subarray, busy'[u] > 0
        PROVE  \E q \in Page : SubarrayOf[q] = u /\ Served(mshr'[q])
    <2>1. u # s /\ busy[u] > 0
      BY <1>1, <1>5
    <2>2. PICK q \in Page : SubarrayOf[q] = u /\ Served(mshr[q])
      BY <2>1 DEF ControllerInv, ServiceInv
    <2>3. QED
      BY <2>1, <2>2
  <1>6. Active' = Active \ {s}
    BY <1>1 DEF Active
  <1>7. Cardinality(Active') <= MaxActive
    <2>1. Cardinality(Active') <= Cardinality(Active)
      BY <1>6, FiniteSets, FS_Subset
    <2>2. Cardinality(Active') \in Nat /\ Cardinality(Active) \in Nat
      BY <1>6, FiniteSets, FS_Subset, FS_CardinalityType
    <2>3. QED
      BY <2>1, <2>2, Numbers DEF ControllerInv, ServiceInv
  <1>8. QED
    BY <1>1, <1>4, <1>5, <1>6, <1>7 DEF ServiceInv

LEMMA ServiceKept ==
  ASSUME ControllerInv, busy' = busy,
         \A p \in Page : Served(mshr'[p]) <=> Served(mshr[p])
  PROVE  ServiceInv'
  <1>1. Active' = Active
    BY DEF Active
  <1>2. QED
    BY <1>1 DEF ControllerInv, ServiceInv

\* The write entries of a channel.
Writes(c) == {p \in Mshr : mshr[p].write /\ ChannelOf[p] = c}

LEMMA WritesCounted ==
  ASSUME ControllerInv
  PROVE  \A c \in Channel :
           /\ outw[c] = Cardinality(Writes(c)) /\ IsFiniteSet(Writes(c))
           /\ outw[c] \in Nat
  <1>1. ASSUME NEW c \in Channel PROVE IsFiniteSet(Writes(c))
    BY FiniteSets, FS_Subset DEF Writes
  <1>2. QED
    BY <1>1, Types DEF ControllerInv, OutstandingWritesExact, Writes

LEMMA WritesKept ==
  ASSUME ControllerInv, outw' = outw, \A c \in Channel : Writes(c)' = Writes(c)
  PROVE  OutstandingWritesExact'
  BY DEF ControllerInv, OutstandingWritesExact, Writes

\* A page enters the MSHR.
LEMMA PageAdmitted ==
  ASSUME ControllerInv, NEW p \in Page, ~InMshr(p), InMshr(p)',
         mshr'[p].write \in BOOLEAN,
         \A q \in Page : q # p => mshr'[q] = mshr[q],
         outw' = IF mshr'[p].write THEN [outw EXCEPT ![ChannelOf[p]] = @ + 1]
                                   ELSE outw
  PROVE  /\ Mshr' = Mshr \cup {p} /\ p \notin Mshr
         /\ OutstandingWritesExact' /\ outw' \in [Channel -> Nat]
  <1>1. Mshr' = Mshr \cup {p} /\ p \notin Mshr
    BY DEF Mshr, InMshr
  <1>2. ChannelOf[p] \in Channel /\ outw \in [Channel -> Nat]
    BY Types, Constants DEF ControllerInv
  <1>3. \A c \in Channel :
          Writes(c)' = IF c = ChannelOf[p] /\ mshr'[p].write
                         THEN Writes(c) \cup {p} ELSE Writes(c)
    BY <1>1 DEF Writes, Mshr
  <1>4. ASSUME NEW c \in Channel
        PROVE  /\ outw'[c] \in Nat /\ outw'[c] = Cardinality(Writes(c)')
    <2>1. /\ outw[c] = Cardinality(Writes(c)) /\ IsFiniteSet(Writes(c))
          /\ outw[c] \in Nat
      BY WritesCounted
    <2>2. p \notin Writes(c)
      BY <1>1 DEF Writes
    <2>3. Cardinality(Writes(c) \cup {p}) = Cardinality(Writes(c)) + 1
      BY <2>1, <2>2, FS_AddElement
    <2>4. Cardinality(Writes(c)') = IF c = ChannelOf[p] /\ mshr'[p].write
                                      THEN outw[c] + 1 ELSE outw[c]
      BY <1>3, <2>1, <2>3
    <2>5. outw'[c] = IF c = ChannelOf[p] /\ mshr'[p].write
                       THEN outw[c] + 1 ELSE outw[c]
      BY <1>2
    <2>6. QED
      BY <2>1, <2>4, <2>5
  <1>5. outw' \in [Channel -> Nat]
    BY <1>2, <1>4
  <1>6. QED
    BY <1>1, <1>4, <1>5 DEF OutstandingWritesExact, Writes

\* A page leaves the MSHR, with a write released as ReleaseWrite does.
LEMMA PageRetired ==
  ASSUME ControllerInv, NEW p \in Page, InMshr(p), ~InMshr(p)',
         \A q \in Page : q # p => mshr'[q] = mshr[q],
         ReleaseWrite(p)
  PROVE  /\ Mshr' = Mshr \ {p} /\ p \in Mshr
         /\ OutstandingWritesExact' /\ outw' \in [Channel -> Nat]
  <1>1. Mshr' = Mshr \ {p} /\ p \in Mshr
    BY DEF Mshr, InMshr
  <1>2. /\ ChannelOf[p] \in Channel /\ outw \in [Channel -> Nat]
        /\ mshr[p].write \in BOOLEAN
    BY Types, EntryTypes, Constants DEF ControllerInv
  <1>3. \A c \in Channel :
          Writes(c)' = IF c = ChannelOf[p] /\ mshr[p].write
                         THEN Writes(c) \ {p} ELSE Writes(c)
    BY <1>1 DEF Writes, Mshr
  <1>4. ASSUME NEW c \in Channel
        PROVE  /\ outw'[c] \in Nat /\ outw'[c] = Cardinality(Writes(c)')
    <2>1. /\ outw[c] = Cardinality(Writes(c)) /\ IsFiniteSet(Writes(c))
          /\ outw[c] \in Nat
      BY WritesCounted
    <2>2. CASE c = ChannelOf[p] /\ mshr[p].write
      <3>1. p \in Writes(c)
        BY <1>1, <2>2 DEF Writes
      <3>2. Cardinality(Writes(c) \ {p}) = Cardinality(Writes(c)) - 1
        BY <2>1, <3>1, FS_RemoveElement
      <3>3. outw[c] # 0
        BY <2>1, <3>1, FS_EmptySet
      <3>4. outw'[c] = outw[c] - 1
        BY <1>2, <2>1, <2>2, <3>3 DEF ReleaseWrite
      <3>5. Writes(c)' = Writes(c) \ {p}
        BY <1>3, <2>2
      <3>6. Cardinality(Writes(c)') = outw[c] - 1
        BY <2>1, <3>2, <3>5
      <3>7. QED
        BY <2>1, <3>3, <3>4, <3>6
    <2>3. CASE ~(c = ChannelOf[p] /\ mshr[p].write)
      BY <1>2, <1>3, <2>1, <2>3 DEF ReleaseWrite
    <2>4. QED
      BY <2>2, <2>3
  <1>5. outw' \in [Channel -> Nat]
    BY <1>2, <1>4 DEF ReleaseWrite
  <1>6. QED
    BY <1>1, <1>4, <1>5 DEF OutstandingWritesExact, Writes

-----------------------------------------------------------------------------
(***************************************************************************)
(* Flushes: the write buffer entry of a page becomes an MSHR entry.        *)
(***************************************************************************)
LEMMA PageFullMore ==
  ASSUME NEW s, NEW t, ToSet(s) \subseteq ToSet(t), ToSet(t) \subseteq Req,
         PageFull(s)
  PROVE  PageFull(t)
  <1>1. UNION {Covers[r] : r \in ToSet(s)} \subseteq UNION {Covers[r] : r \in ToSet(t)}
    OBVIOUS
  <1>2. UNION {Covers[r] : r \in ToSet(t)} \subseteq Sector
    BY Constants
  <1>3. QED
    BY <1>1, <1>2 DEF PageFull

\* Requests that stay with their page, and the new ones in X.
LEMMA RequestsMoved ==
  ASSUME ControllerInv, NEW p \in Page,
         NEW X \in SUBSET Req, \A r \in X : PageOf[r] = p /\ r \notin outstanding,
         outstanding' = outstanding \cup X, returnq' = returnq,
         \A q \in Page : q # p => /\ wb'[q] = wb[q]
                                  /\ mshr'[q].pending = mshr[q].pending,
         ToSet(wb'[p]) \cup ToSet(mshr'[p].pending)
           = ToSet(wb[p]) \cup ToSet(mshr[p].pending) \cup X,
         ToSet(wb'[p]) \cap ToSet(mshr'[p].pending) = {},
         IsInjective(wb'[p]), \A r \in ToSet(wb'[p]) : IsWrite[r]
  PROVE  RequestsInv'
  <1>1. /\ \A q \in Page :
             /\ IsInjective(wb[q])
             /\ \A r \in ToSet(wb[q]) :
                  /\ PageOf[r] = q /\ IsWrite[r] /\ r \in outstanding
                  /\ r \notin ToSet(mshr[q].pending) /\ r \notin ToSet(returnq)
             /\ \A r \in ToSet(mshr[q].pending) :
                  r \in outstanding /\ r \notin ToSet(returnq) /\ PageOf[r] = q
        /\ IsInjective(returnq) /\ ToSet(returnq) \subseteq outstanding
        /\ \A r \in outstanding :
             \/ r \in ToSet(wb[PageOf[r]])
             \/ r \in ToSet(mshr[PageOf[r]].pending)
             \/ r \in ToSet(returnq)
    BY DEF ControllerInv, RequestsInv, EntriesInv, EntryOK
  <1>2. \A r \in outstanding' : PageOf[r] \in Page
    BY Types, Constants DEF ControllerInv
  <1>3. ASSUME NEW q \in Page
        PROVE  /\ IsInjective(wb'[q])
               /\ \A r \in ToSet(wb'[q]) :
                    /\ PageOf[r] = q /\ IsWrite[r] /\ r \in outstanding'
                    /\ r \notin ToSet(mshr'[q].pending) /\ r \notin ToSet(returnq')
               /\ \A r \in ToSet(mshr'[q].pending) :
                    r \in outstanding' /\ r \notin ToSet(returnq')
    <2>1. CASE q # p
      BY <1>1, <2>1
    <2>2. CASE q = p
      <3>1. ASSUME NEW r, r \in ToSet(wb'[p]) \/ r \in ToSet(mshr'[p].pending)
            PROVE  PageOf[r] = p /\ r \in outstanding' /\ r \notin ToSet(returnq')
        <4>1. r \in ToSet(wb[p]) \/ r \in ToSet(mshr[p].pending) \/ r \in X
          BY <3>1
        <4>2. QED
          BY <1>1, <4>1
      <3>2. QED
        BY <2>2, <3>1
    <2>3. QED
      BY <2>1, <2>2
  <1>4. ASSUME NEW r \in outstanding'
        PROVE  \/ r \in ToSet(wb'[PageOf[r]])
               \/ r \in ToSet(mshr'[PageOf[r]].pending)
               \/ r \in ToSet(returnq')
    <2>1. CASE PageOf[r] = p
      BY <1>1, <2>1
    <2>2. CASE PageOf[r] # p
      BY <1>1, <1>2, <2>2
    <2>3. QED
      BY <2>1, <2>2
  <1>5. QED
    BY <1>1, <1>3, <1>4 DEF RequestsInv

\* What the FTL must be for the controller to use it.
FtlPart == UseFtl => FtlInv(ftl)

LEMMA AddressTypes ==
  ASSUME FtlPart, NEW p \in Page
  PROVE  /\ PseudoAddr(p) \in Addr
         /\ UseFtl => ReadAddr(ftl, p) \in Addr
         /\ UseFtl => \A g \in FtlWrites(ftl, p) : FtlInv(g) /\ g.map[p] \in Addr
  <1>1. PseudoAddr(p) \in Addr
    <2>1. p \in Nat /\ PagesPerBlock \in Nat \ {0} /\ MaxBlocks \in Nat
      BY FtlAssumption DEF Page
    <2>2. p \div PagesPerBlock \in Nat /\ p % PagesPerBlock \in Nat
      BY <2>1
    <2>3. QED
      BY <2>1, <2>2 DEF PseudoAddr, Addr
  <1>2. \A f \in FtlState : f.map[p] \in Addr
    BY DEF FtlState
  <1>3. UseFtl => ReadAddr(ftl, p) \in Addr
    BY <1>1, <1>2 DEF FtlPart, FtlInv, ReadAddr
  <1>4. UseFtl => \A g \in FtlWrites(ftl, p) : FtlInv(g)
    BY FtlWriteStep DEF FtlPart
  <1>5. QED
    BY <1>1, <1>2, <1>3, <1>4 DEF FtlInv

LEMMA FlushStep ==
  ASSUME ControllerInv, FtlPart, NEW p \in Page, ~InMshr(p),
         wb[p] # <<>> \/ ~Full,
         NEW reqs \in Seq(Req), NEW attached \in Seq(Req),
         reqs # <<>>, IsWrite[Head(reqs)], IsInjective(reqs \o attached),
         NEW X \in SUBSET Req, \A r \in X : PageOf[r] = p /\ r \notin outstanding,
         ToSet(reqs \o attached) = ToSet(wb[p]) \cup X,
         FlushEntry(p, reqs, attached),
         outstanding' = outstanding \cup X, UNCHANGED <<returnq, cache, busy>>
  PROVE  /\ EntriesInv' /\ RequestsInv' /\ QueueInv' /\ ServiceInv' /\ CacheInv'
         /\ OutstandingWritesExact' /\ OccupancyBounded'
         /\ Buffered' = Buffered \ {p}
         /\ mshr' \in [Page -> Entry] /\ wb' \in [Page -> Seq(Req)]
         /\ wbAge' \in [Page -> 0 .. AggTimeout + 1]
         /\ wbQuiet' \in [Page -> 0 .. IdleQuiet + 1]
         /\ queue' \in Seq(Page) /\ outw' \in [Channel -> Nat]
         /\ \A q \in Page : mshr'[q].deliver = mshr[q].deliver
  <1> DEFINE all  == reqs \o attached
             addr == IF UseFtl THEN ftl'.map[p] ELSE PseudoAddr(p)
             e    == WaitingEntry(all, TRUE, FALSE, addr)
  <1>1. /\ mshr \in [Page -> Entry] /\ wb \in [Page -> Seq(Req)]
        /\ all \in Seq(Req) /\ all # <<>> /\ Head(all) = Head(reqs)
        /\ ToSet(reqs) \subseteq ToSet(all) /\ ToSet(all) \subseteq Req
    BY Types, ConcatElements, ElementsOfSeq DEF ControllerInv
  <1>2. addr \in Addr
    BY AddressTypes DEF FlushEntry
  <1> HIDE DEF all, addr
  <1>3. /\ e \in Entry /\ e.op = "waiting" /\ e.pending = all
        /\ e.deliver = FALSE /\ e.fill = FALSE /\ e.write = TRUE /\ e.hit = 0
    BY <1>1, <1>2 DEF WaitingEntry, Entry, Op
  <1>4. /\ mshr' = [mshr EXCEPT ![p] = e] /\ wb' = [wb EXCEPT ![p] = <<>>]
        /\ queue' = Append(queue, p)
        /\ outw' = [outw EXCEPT ![ChannelOf[p]] = @ + 1]
    BY DEF FlushEntry, all, addr
  <1> HIDE DEF e
  <1>5. /\ mshr'[p] = e /\ \A q \in Page : q # p => mshr'[q] = mshr[q]
        /\ wb'[p] = <<>> /\ \A q \in Page : q # p => wb'[q] = wb[q]
        /\ mshr' \in [Page -> Entry] /\ wb' \in [Page -> Seq(Req)]
    BY <1>1, <1>3, <1>4, EmptySeq
  <1>6. mshr[p] = NoEntry
    BY DEF InMshr, ControllerInv, EntriesInv, EntryOK
  <1>7. EntriesInv'
    <2>1. EntryOK(p, e)
      <3>1. StrictWrites => PageFull(all)
        BY <1>1, PageFullMore DEF FlushEntry, FlushFatal
      <3>2. \A r \in ToSet(all) : PageOf[r] = p
        BY DEF all, ControllerInv, RequestsInv
      <3>3. IsInjective(all) /\ IsWrite[Head(all)]
        BY <1>1 DEF all
      <3>4. QED
        BY <1>1, <1>3, <3>1, <3>2, <3>3 DEF EntryOK
    <2>2. QED
      BY <1>5, <2>1 DEF EntriesInv, ControllerInv
  <1>8. RequestsInv'
    <2>1. ToSet(<<>>) = {} /\ IsInjective(<<>>)
      BY DEF ToSet, IsInjective
    <2>2. ToSet(mshr'[p].pending) = ToSet(wb[p]) \cup X
      BY <1>3, <1>5 DEF all
    <2>3. ToSet(mshr[p].pending) = {}
      BY <1>6, <2>1, NoEntryOK
    <2>4. QED
      BY <1>5, <2>1, <2>2, <2>3, RequestsMoved, ZenonT(60)
  <1>9. ~Waits(mshr[p]) /\ ~Served(mshr[p]) /\ Waits(mshr'[p]) /\ ~Served(mshr'[p])
    BY <1>3, <1>5, <1>6, NoEntryOK DEF Waits, Served
  <1>10. QueueInv' /\ queue' \in Seq(Page)
    BY <1>4, <1>5, <1>9, QueueAppended
  <1>11. ServiceInv'
    BY <1>5, <1>9, ServiceKept
  <1>12. CacheInv'
    <2>1. ToSet(cache) \subseteq Page
      BY Types, ElementsOfSeq DEF ControllerInv
    <2>2. QED
      BY <1>3, <1>5, <2>1 DEF CacheInv, ControllerInv
  <1>13. /\ Mshr' = Mshr \cup {p} /\ p \notin Mshr
         /\ OutstandingWritesExact' /\ outw' \in [Channel -> Nat]
    <2>1. InMshr(p)' /\ mshr'[p].write = TRUE
      BY <1>3, <1>5 DEF InMshr
    <2>2. QED
      BY <1>4, <1>5, <2>1, PageAdmitted
  <1>14. Buffered' = Buffered \ {p}
    BY <1>5 DEF Buffered
  <1>15. OccupancyBounded'
    <2> DEFINE b == Cardinality(Buffered)
               m == Cardinality(Mshr)
    <2>1. m \in Nat /\ b \in Nat
      BY FiniteSets, FS_CardinalityType
    <2>2. Cardinality(Mshr') = m + 1
      BY <1>13, FiniteSets, FS_AddElement
    <2>3. Cardinality(Buffered') = IF p \in Buffered THEN b - 1 ELSE b
      BY <1>14, FiniteSets, FS_RemoveElement
    <2>4. p \in Buffered \/ ~Full
      BY DEF Buffered
    <2>5. ASSUME MaxOutstanding # 0
          PROVE  m + b <= MaxOutstanding /\ (p \notin Buffered => m + b < MaxOutstanding)
      BY <2>1, <2>4, <2>5, Numbers DEF ControllerInv, OccupancyBounded, Full
    <2> HIDE DEF b, m
    <2>6. MaxOutstanding # 0 =>
            Cardinality(Mshr') + Cardinality(Buffered') <= MaxOutstanding
      BY <2>1, <2>2, <2>3, <2>5, Numbers
    <2>7. QED
      BY <2>6 DEF OccupancyBounded
  <1>16. /\ wbAge' \in [Page -> 0 .. AggTimeout + 1]
         /\ wbQuiet' \in [Page -> 0 .. IdleQuiet + 1]
    <2>1. /\ wbAge \in [Page -> 0 .. AggTimeout + 1]
          /\ wbQuiet \in [Page -> 0 .. IdleQuiet + 1]
          /\ wbAge' = [wbAge EXCEPT ![p] = 0] /\ wbQuiet' = [wbQuiet EXCEPT ![p] = 0]
      BY DEF ControllerInv, ControllerTypeOK, FlushEntry
    <2>2. QED
      BY <2>1, Numbers
  <1>17. \A q \in Page : mshr'[q].deliver = mshr[q].deliver
    BY <1>3, <1>5, <1>6, NoEntryOK
  <1>18. QED
    BY <1>5, <1>7, <1>8, <1>10, <1>11, <1>12, <1>13, <1>14, <1>15, <1>16, <1>17

\* A request that is not waited for is nowhere.
LEMMA FreshRequest ==
  ASSUME ControllerInv, NEW r \in Req, r \notin outstanding
  PROVE  /\ PageOf[r] \in Page /\ r \notin ToSet(returnq)
         /\ \A p \in Page : r \notin ToSet(wb[p]) /\ r \notin ToSet(mshr[p].pending)
         /\ \A p \in Page : wb[p] \in Seq(Req) /\ mshr[p].pending \in Seq(Req)
  BY Types, EntryTypes, Constants DEF ControllerInv, RequestsInv

LEMMA CompletePageStep ==
  ASSUME ControllerInv, FtlPart, NEW r \in Req, CompletePage(r)
  PROVE  ControllerInv'
  <1> DEFINE p    == PageOf[r]
             reqs == Append(wb[p], r)
  <1>1. CASE Terminate
    BY <1>1, TerminateStep
  <1>2. CASE ~Terminate
    <2>1. /\ pc = "idle" /\ r \notin outstanding /\ ~Full /\ IsWrite[r]
          /\ ~InMshr(p) /\ FlushEntry(p, reqs, <<>>)
          /\ outstanding' = outstanding \cup {r}
          /\ UNCHANGED <<pc, todo, issued, busy, credit, cache, returnq,
                         drain, readDue>>
      BY <1>2 DEF CompletePage, MayPush, FlushAllowed, windowVars
    <2>2. p \in Page /\ wb[p] \in Seq(Req) /\ r \notin ToSet(wb[p]) /\ IsInjective(wb[p])
      BY <2>1, FreshRequest DEF ControllerInv, RequestsInv
    <2>3. /\ reqs \in Seq(Req) /\ reqs # <<>> /\ IsInjective(reqs)
          /\ ToSet(reqs) = ToSet(wb[p]) \cup {r}
          /\ Head(reqs) = IF wb[p] = <<>> THEN r ELSE Head(wb[p])
      BY <2>2, AppendElements
    <2>4. IsWrite[Head(reqs)]
      <3>1. wb[p] # <<>> => Head(wb[p]) \in ToSet(wb[p])
        BY <2>2, ElementsOfSeq
      <3>2. QED
        BY <2>1, <2>2, <2>3, <3>1 DEF ControllerInv, RequestsInv
    <2>5. <<>> \in Seq(Req) /\ reqs \o <<>> = reqs
      BY <2>3, EmptySeq, ConcatEmptySeq
    <2> DEFINE none == <<>>
               X    == {r}
    <2>6. /\ X \in SUBSET Req /\ \A q \in X : PageOf[q] = p /\ q \notin outstanding
          /\ outstanding' = outstanding \cup X /\ FlushEntry(p, reqs, none)
          /\ none \in Seq(Req) /\ IsInjective(reqs \o none)
          /\ ToSet(reqs \o none) = ToSet(wb[p]) \cup X
      BY <2>1, <2>3, <2>5
    <2> HIDE DEF p, reqs, none, X
    <2>7. /\ EntriesInv' /\ RequestsInv' /\ QueueInv' /\ ServiceInv' /\ CacheInv'
          /\ OutstandingWritesExact' /\ OccupancyBounded'
          /\ mshr' \in [Page -> Entry] /\ wb' \in [Page -> Seq(Req)]
          /\ wbAge' \in [Page -> 0 .. AggTimeout + 1]
          /\ wbQuiet' \in [Page -> 0 .. IdleQuiet + 1]
          /\ queue' \in Seq(Page) /\ outw' \in [Channel -> Nat]
      BY <2>1, <2>2, <2>3, <2>4, <2>6, FlushStep
    <2>8. outstanding' \in SUBSET Req
      BY <2>6, Types DEF ControllerInv
    <2>9. ControllerTypeOK'
      BY <2>1, <2>7, <2>8 DEF ControllerInv, ControllerTypeOK
    <2>10. LoopInv'
      BY <2>1 DEF ControllerInv, LoopInv
    <2>11. QED
      BY <2>7, <2>9, <2>10 DEF ControllerInv
  <1>3. QED
    BY <1>1, <1>2

LEMMA ReadBufferedStep ==
  ASSUME ControllerInv, FtlPart, NEW r \in Req, ReadBuffered(r)
  PROVE  ControllerInv'
  <1> DEFINE p    == PageOf[r]
             reqs == wb[p]
             one  == <<r>>
             X    == {r}
  <1>1. CASE Terminate
    BY <1>1, TerminateStep
  <1>2. CASE ~Terminate
    <2>1. /\ pc = "idle" /\ r \notin outstanding /\ wb[p] # <<>>
          /\ ~InMshr(p) /\ FlushEntry(p, reqs, one)
          /\ outstanding' = outstanding \cup {r}
          /\ UNCHANGED <<pc, todo, issued, busy, credit, cache, returnq,
                         drain, readDue>>
      BY <1>2 DEF ReadBuffered, MayPush, FlushAllowed, windowVars
    <2>2. p \in Page /\ wb[p] \in Seq(Req) /\ r \notin ToSet(wb[p]) /\ IsInjective(wb[p])
      BY <2>1, FreshRequest DEF ControllerInv, RequestsInv
    <2>3. /\ one = Append(<<>>, r) /\ one \in Seq(Req)
          /\ reqs \o one = Append(reqs, r)
      <3>1. one = Append(<<>>, r)
        OBVIOUS
      <3>2. one \in Seq(Req)
        OBVIOUS
      <3>3. reqs \o one = Append(reqs, r)
        BY <2>2, AppendIsConcat
      <3>4. QED
        BY <3>1, <3>2, <3>3
    <2>4. /\ IsInjective(reqs \o one)
          /\ ToSet(reqs \o one) = ToSet(wb[p]) \cup X
      <3>1. /\ IsInjective(Append(wb[p], r))
            /\ ToSet(Append(wb[p], r)) = ToSet(wb[p]) \cup {r}
        BY <2>2, AppendElements
      <3>2. QED
        BY <2>3, <3>1
    <2>5. IsWrite[Head(reqs)]
      <3>1. Head(wb[p]) \in ToSet(wb[p])
        BY <2>1, <2>2, ElementsOfSeq
      <3>2. QED
        BY <2>2, <3>1 DEF ControllerInv, RequestsInv
    <2>6. /\ X \in SUBSET Req /\ \A q \in X : PageOf[q] = p /\ q \notin outstanding
          /\ outstanding' = outstanding \cup X /\ reqs \in Seq(Req) /\ reqs # <<>>
          /\ wb[p] # <<>>
      BY <2>1, <2>2
    <2> HIDE DEF p, reqs, one, X
    <2>7. /\ EntriesInv' /\ RequestsInv' /\ QueueInv' /\ ServiceInv' /\ CacheInv'
          /\ OutstandingWritesExact' /\ OccupancyBounded'
          /\ mshr' \in [Page -> Entry] /\ wb' \in [Page -> Seq(Req)]
          /\ wbAge' \in [Page -> 0 .. AggTimeout + 1]
          /\ wbQuiet' \in [Page -> 0 .. IdleQuiet + 1]
          /\ queue' \in Seq(Page) /\ outw' \in [Channel -> Nat]
      BY <2>1, <2>2, <2>3, <2>4, <2>5, <2>6, FlushStep
    <2>8. outstanding' \in SUBSET Req
      BY <2>6, Types DEF ControllerInv
    <2>9. ControllerTypeOK'
      BY <2>1, <2>7, <2>8 DEF ControllerInv, ControllerTypeOK
    <2>10. LoopInv'
      BY <2>1 DEF ControllerInv, LoopInv
    <2>11. QED
      BY <2>7, <2>9, <2>10 DEF ControllerInv
  <1>3. QED
    BY <1>1, <1>2

LEMMA FlushNextStep ==
  ASSUME ControllerInv, FtlPart, NEW p \in Page, FlushNext(p)
  PROVE  ControllerInv'
  <1>1. CASE Terminate
    BY <1>1, TerminateStep
  <1>2. CASE FlushAllowed(p, FALSE) /\ ~Terminate
    <2> DEFINE reqs == wb[p]
               none == <<>>
               X    == {}
    <2>1. /\ pc \in {"timeout", "drain"} /\ todo # {} /\ p = Min(todo)
          /\ ~InMshr(p) /\ FlushEntry(p, reqs, none)
          /\ todo' = todo \ {p}
          /\ UNCHANGED <<pc, issued, outstanding, busy, credit, cache, returnq,
                         drain, readDue>>
      BY <1>2 DEF FlushNext, FlushAllowed, windowVars
    <2>2. p \in Buffered
      <3>1. todo \subseteq Buffered /\ todo \subseteq Nat
        BY <2>1, Constants DEF ControllerInv, LoopInv, Buffered
      <3>2. QED
        BY <2>1, <3>1, LeastNat
    <2>3. reqs \in Seq(Req) /\ IsInjective(reqs) /\ wb[p] # <<>> /\ reqs # <<>>
      BY <2>2, Types DEF ControllerInv, RequestsInv, Buffered
    <2>4. IsWrite[Head(reqs)]
      <3>1. Head(wb[p]) \in ToSet(wb[p])
        BY <2>3, ElementsOfSeq
      <3>2. QED
        BY <3>1 DEF ControllerInv, RequestsInv
    <2>5. <<>> \in Seq(Req) /\ reqs \o <<>> = reqs
      BY <2>3, EmptySeq, ConcatEmptySeq
    <2>6. /\ X \in SUBSET Req /\ \A q \in X : PageOf[q] = p /\ q \notin outstanding
          /\ outstanding' = outstanding \cup X
          /\ none \in Seq(Req) /\ IsInjective(reqs \o none)
          /\ ToSet(reqs \o none) = ToSet(wb[p]) \cup X
      BY <2>1, <2>3, <2>5
    <2> HIDE DEF reqs, none, X
    <2>7. /\ EntriesInv' /\ RequestsInv' /\ QueueInv' /\ ServiceInv' /\ CacheInv'
          /\ OutstandingWritesExact' /\ OccupancyBounded' /\ Buffered' = Buffered \ {p}
          /\ mshr' \in [Page -> Entry] /\ wb' \in [Page -> Seq(Req)]
          /\ wbAge' \in [Page -> 0 .. AggTimeout + 1]
          /\ wbQuiet' \in [Page -> 0 .. IdleQuiet + 1]
          /\ queue' \in Seq(Page) /\ outw' \in [Channel -> Nat]
      BY <2>1, <2>3, <2>4, <2>6, FlushStep
    <2>8. todo' \in SUBSET (Page \cup Subarray)
      BY <2>1, Types DEF ControllerInv
    <2>9. ControllerTypeOK'
      BY <2>1, <2>7, <2>8 DEF ControllerInv, ControllerTypeOK
    <2>10. LoopInv'
      BY <2>1, <2>7 DEF ControllerInv, LoopInv
    <2>11. QED
      BY <2>7, <2>9, <2>10 DEF ControllerInv
  <1>3. CASE ~FlushAllowed(p, FALSE)
    <2>1. /\ pc \in {"timeout", "drain"} /\ todo' = todo \ {p}
          /\ UNCHANGED <<pc, issued, outstanding, wb, wbAge, wbQuiet, mshr, queue,
                         busy, outw, credit, cache, returnq, drain, readDue>>
      BY <1>3 DEF FlushNext, windowVars, bufferVars
    <2>2. /\ QueueInv' /\ ServiceInv' /\ OutstandingWritesExact' /\ Mshr' = Mshr
          /\ RequestsInv'
      BY <2>1, OperationsKept, RequestsKept DEF SameOp
    <2>3. OccupancyBounded' /\ Buffered' = Buffered
      BY <2>1, <2>2, OccupancyKept
    <2>4. ControllerTypeOK'
      BY <2>1, Types DEF ControllerInv, ControllerTypeOK
    <2>5. LoopInv'
      BY <2>1, <2>3 DEF ControllerInv, LoopInv
    <2>6. QED
      BY <2>1, <2>2, <2>3, <2>4, <2>5 DEF ControllerInv, EntriesInv, CacheInv
  <1>4. QED
    BY <1>1, <1>2, <1>3

-----------------------------------------------------------------------------
(***************************************************************************)
(* Reads, completions and the tick.                                        *)
(***************************************************************************)
LEMMA ReadCoalesceStep ==
  ASSUME ControllerInv, NEW r \in Req, ReadCoalesce(r)
  PROVE  ControllerInv'
  <1> DEFINE p == PageOf[r]
             e == mshr[p]
             f == [e EXCEPT !.pending = Append(@, r),
                            !.agg = @ /\ Len(e.pending) + 1 < ReadAggThreshold]
  <1>1. /\ pc = "idle" /\ r \notin outstanding /\ ~IsWrite[r] /\ InMshr(p)
        /\ mshr' = [mshr EXCEPT ![p] = f]
        /\ outstanding' = outstanding \cup {r}
        /\ UNCHANGED <<pc, todo, issued, wb, wbAge, wbQuiet, queue, busy, outw,
                       credit, cache, returnq, drain, readDue>>
    BY DEF ReadCoalesce, MayPush, bufferVars, windowVars
  <1>2. /\ p \in Page /\ e \in Entry /\ EntryOK(p, e) /\ mshr \in [Page -> Entry]
        /\ e.pending \in Seq(Req) /\ r \notin ToSet(e.pending)
        /\ e.pending # <<>> /\ IsInjective(e.pending)
    BY <1>1, FreshRequest, Types DEF ControllerInv, EntriesInv, EntryOK, InMshr
  <1>3. /\ f \in Entry /\ f.pending = Append(e.pending, r)
        /\ f.op = e.op /\ f.hit = e.hit /\ f.deliver = e.deliver /\ f.fill = e.fill
        /\ f.write = e.write
    <2>1. Append(e.pending, r) \in Seq(Req)
      BY <1>2, AppendElements
    <2>2. (e.agg /\ Len(e.pending) + 1 < ReadAggThreshold) \in BOOLEAN
      OBVIOUS
    <2>3. QED
      BY <1>2, <2>1, <2>2 DEF Entry
  <1>4. /\ f.pending # <<>> /\ ToSet(f.pending) = ToSet(e.pending) \cup {r}
        /\ IsInjective(f.pending) /\ Head(f.pending) = Head(e.pending)
        /\ ToSet(f.pending) \subseteq Req
    BY <1>2, <1>3, AppendElements, ElementsOfSeq
  <1>5. EntryOK(p, f)
    <2>1. PageFull(e.pending) => PageFull(f.pending)
      BY <1>4, PageFullMore
    <2>2. f # NoEntry /\ f.op # "none"
      BY <1>1, <1>3 DEF InMshr, NoEntry, WaitingEntry
    <2> HIDE DEF e, f
    <2>3. PageOf[r] = p /\ ~IsWrite[r]
      BY <1>1
    <2>4. QED
      BY <1>2, <1>3, <1>4, <2>1, <2>2, <2>3 DEF EntryOK
  <1> HIDE DEF f
  <1>6. /\ mshr'[p] = f /\ \A q \in Page : q # p => mshr'[q] = mshr[q]
        /\ mshr' \in [Page -> Entry]
    BY <1>1, <1>2, <1>3
  <1>7. \A q \in Page : SameOp(mshr[q], mshr'[q]) /\ mshr'[q].deliver = mshr[q].deliver
    BY <1>3, <1>6 DEF SameOp, Waits, Served
  <1>8. QueueInv' /\ ServiceInv' /\ OutstandingWritesExact' /\ Mshr' = Mshr
    BY <1>1, <1>7, OperationsKept
  <1>9. OccupancyBounded'
    BY <1>1, <1>8, OccupancyKept
  <1>10. RequestsInv'
    <2> DEFINE X == {r}
    <2>1. /\ X \in SUBSET Req /\ \A q \in X : PageOf[q] = p /\ q \notin outstanding
          /\ outstanding' = outstanding \cup X
      BY <1>1
    <2>2. ToSet(wb'[p]) \cup ToSet(mshr'[p].pending)
            = ToSet(wb[p]) \cup ToSet(mshr[p].pending) \cup X
      BY <1>1, <1>4, <1>6
    <2>3. /\ ToSet(wb'[p]) \cap ToSet(mshr'[p].pending) = {}
          /\ IsInjective(wb'[p]) /\ \A q \in ToSet(wb'[p]) : IsWrite[q]
      BY <1>1, <1>2, <1>4, <1>6 DEF ControllerInv, RequestsInv
    <2> HIDE DEF X, p
    <2>4. QED
      BY <1>1, <1>2, <1>6, <2>1, <2>2, <2>3, RequestsMoved
  <1>11. EntriesInv'
    BY <1>5, <1>6 DEF EntriesInv, ControllerInv
  <1>12. CacheInv'
    <2>1. ToSet(cache) \subseteq Page
      BY Types, ElementsOfSeq DEF ControllerInv
    <2>2. QED
      BY <1>1, <1>3, <1>6, <2>1 DEF CacheInv, ControllerInv
  <1>13. ControllerTypeOK'
    BY <1>1, <1>6, Types DEF ControllerInv, ControllerTypeOK
  <1>14. QED
    BY <1>1, <1>8, <1>9, <1>10, <1>11, <1>12, <1>13 DEF ControllerInv, LoopInv

LEMMA ReadMissStep ==
  ASSUME ControllerInv, FtlPart, NEW r \in Req, ReadMiss(r)
  PROVE  ControllerInv'
  <1> DEFINE p    == PageOf[r]
             one  == <<r>>
             addr == IF UseFtl THEN ReadAddr(ftl, p) ELSE PseudoAddr(p)
             agg  == AggReads /\ 1 < ReadAggThreshold
             e    == WaitingEntry(one, FALSE, agg, addr)
  <1>1. /\ pc = "idle" /\ r \notin outstanding /\ ~Full /\ ~IsWrite[r] /\ ~InMshr(p)
        /\ wb[p] = <<>>
        /\ mshr' = [mshr EXCEPT ![p] = e] /\ queue' = Append(queue, p)
        /\ outstanding' = outstanding \cup {r}
        /\ UNCHANGED <<pc, todo, issued, wb, wbAge, wbQuiet, busy, outw, credit,
                       cache, returnq, drain, readDue>>
    BY DEF ReadMiss, MayPush, bufferVars, windowVars
  <1>2. p \in Page /\ mshr \in [Page -> Entry] /\ wb[p] \in Seq(Req)
    BY <1>1, FreshRequest, Types DEF ControllerInv
  <1>3. /\ one \in Seq(Req) /\ one # <<>> /\ ToSet(one) = {r} /\ IsInjective(one)
    <2> DEFINE none == <<>>
    <2>1. one = Append(none, r) /\ none \in Seq(Req) /\ ToSet(none) = {} /\ IsInjective(none)
      BY EmptySeq DEF ToSet, IsInjective
    <2> HIDE DEF one, none
    <2>2. /\ Append(none, r) \in Seq(Req) /\ Append(none, r) # <<>>
          /\ ToSet(Append(none, r)) = ToSet(none) \cup {r}
          /\ IsInjective(none) /\ r \notin ToSet(none) => IsInjective(Append(none, r))
      BY <2>1, AppendElements
    <2>3. QED
      BY <2>1, <2>2
  <1>4. addr \in Addr /\ agg \in BOOLEAN
    BY <1>2, AddressTypes
  <1> HIDE DEF one, addr, agg
  <1>5. /\ e \in Entry /\ e.op = "waiting" /\ e.pending = one
        /\ e.deliver = FALSE /\ e.fill = FALSE /\ e.write = FALSE /\ e.hit = 0
    BY <1>3, <1>4 DEF WaitingEntry, Entry, Op
  <1> HIDE DEF e
  <1>6. /\ mshr'[p] = e /\ \A q \in Page : q # p => mshr'[q] = mshr[q]
        /\ mshr' \in [Page -> Entry]
    BY <1>1, <1>2, <1>5
  <1>7. mshr[p] = NoEntry
    BY <1>1, <1>2 DEF InMshr, ControllerInv, EntriesInv, EntryOK
  <1>8. EntriesInv'
    <2>1. EntryOK(p, e)
      BY <1>1, <1>3, <1>5 DEF EntryOK
    <2>2. QED
      BY <1>6, <2>1 DEF EntriesInv, ControllerInv
  <1>9. ~Waits(mshr[p]) /\ ~Served(mshr[p]) /\ Waits(mshr'[p]) /\ ~Served(mshr'[p])
    BY <1>5, <1>6, <1>7, NoEntryOK DEF Waits, Served
  <1>10. QueueInv' /\ queue' \in Seq(Page)
    BY <1>1, <1>2, <1>6, <1>9, QueueAppended
  <1>11. ServiceInv'
    BY <1>1, <1>6, <1>9, ServiceKept
  <1>12. /\ Mshr' = Mshr \cup {p} /\ p \notin Mshr /\ OutstandingWritesExact'
    <2>1. InMshr(p)' /\ mshr'[p].write = FALSE
      BY <1>5, <1>6 DEF InMshr
    <2>2. QED
      BY <1>1, <1>2, <1>6, <2>1, PageAdmitted
  <1>13. OccupancyBounded'
    <2> DEFINE b == Cardinality(Buffered)
               m == Cardinality(Mshr)
    <2>1. m \in Nat /\ b \in Nat
      BY FiniteSets, FS_CardinalityType
    <2>2. Cardinality(Mshr') = m + 1 /\ Cardinality(Buffered') = b
      BY <1>1, <1>12, FiniteSets, FS_AddElement DEF Buffered
    <2>3. MaxOutstanding # 0 => m + b < MaxOutstanding
      BY <1>1, <2>1, Numbers DEF Full
    <2> HIDE DEF b, m
    <2>4. MaxOutstanding # 0 =>
            Cardinality(Mshr') + Cardinality(Buffered') <= MaxOutstanding
      BY <2>1, <2>2, <2>3, Numbers
    <2>5. QED
      BY <2>4 DEF OccupancyBounded
  <1>14. RequestsInv'
    <2> DEFINE X == {r}
    <2>1. /\ X \in SUBSET Req /\ \A q \in X : PageOf[q] = p /\ q \notin outstanding
          /\ outstanding' = outstanding \cup X
      BY <1>1
    <2>2. ToSet(<<>>) = {} /\ IsInjective(<<>>) /\ mshr[p].pending = <<>>
      BY <1>7, NoEntryOK DEF ToSet, IsInjective
    <2>3. ToSet(wb'[p]) \cup ToSet(mshr'[p].pending)
            = ToSet(wb[p]) \cup ToSet(mshr[p].pending) \cup X
      BY <1>1, <1>3, <1>5, <1>6, <2>2
    <2>4. /\ ToSet(wb'[p]) = {} /\ IsInjective(wb'[p])
          /\ ToSet(wb'[p]) \cap ToSet(mshr'[p].pending) = {}
          /\ \A q \in ToSet(wb'[p]) : IsWrite[q]
          /\ returnq' = returnq
          /\ \A q \in Page : q # p => /\ wb'[q] = wb[q]
                                     /\ mshr'[q].pending = mshr[q].pending
      BY <1>1, <1>6, <2>2
    <2> HIDE DEF X, p
    <2>5. QED
      BY <1>2, <2>1, <2>3, <2>4, RequestsMoved
  <1>15. CacheInv'
    <2>1. ToSet(cache) \subseteq Page
      BY Types, ElementsOfSeq DEF ControllerInv
    <2>2. QED
      BY <1>1, <1>5, <1>6, <2>1 DEF CacheInv, ControllerInv
  <1>16. ControllerTypeOK'
    BY <1>1, <1>6, <1>10, Types DEF ControllerInv, ControllerTypeOK
  <1>17. LoopInv'
    BY <1>1 DEF ControllerInv, LoopInv
  <1>18. QED
    BY <1>8, <1>10, <1>11, <1>12, <1>13, <1>14, <1>15, <1>16, <1>17
    DEF ControllerInv

LEMMA PopReturnStep ==
  ASSUME ControllerInv, PopReturn
  PROVE  ControllerInv'
  <1> DEFINE h == Head(returnq)
  <1>1. /\ pc = "idle" /\ returnq # <<>> /\ returnq' = Tail(returnq)
        /\ outstanding' = outstanding \ {h}
        /\ UNCHANGED <<pc, todo, issued, wb, wbAge, wbQuiet, mshr, queue, busy, outw,
                       credit, cache, drain, readDue>>
    BY DEF PopReturn, bufferVars, windowVars
  <1>2. /\ returnq \in Seq(Req) /\ IsInjective(returnq) /\ Len(returnq) <= ReturnCap
        /\ outstanding \in SUBSET Req /\ Len(returnq) \in Nat
    BY LenProperties DEF ControllerInv, ControllerTypeOK, RequestsInv
  <1>3. /\ returnq' \in Seq(Req) /\ Len(returnq') = Len(returnq) - 1
        /\ h \in ToSet(returnq) /\ ToSet(returnq') = ToSet(returnq) \ {h}
        /\ IsInjective(returnq')
    BY <1>1, <1>2, TailElements
  <1> HIDE DEF h
  <1>4. RequestsInv'
    <2>1. \A r \in outstanding : PageOf[r] \in Page
      BY <1>2, Constants
    <2>2. QED
      BY <1>1, <1>3, <2>1 DEF ControllerInv, RequestsInv
  <1>5. /\ QueueInv' /\ ServiceInv' /\ OutstandingWritesExact' /\ Mshr' = Mshr
    BY <1>1, OperationsKept DEF SameOp
  <1>6. OccupancyBounded'
    BY <1>1, <1>5, OccupancyKept
  <1>7. Len(returnq') <= ReturnCap
    BY <1>2, <1>3, Numbers
  <1>8. ControllerTypeOK'
    BY <1>1, <1>2, <1>3, <1>7 DEF ControllerInv, ControllerTypeOK
  <1>9. QED
    BY <1>1, <1>4, <1>5, <1>6, <1>8
    DEF ControllerInv, LoopInv, EntriesInv, CacheInv

LEMMA ReleasedEntry ==
  ASSUME NEW p \in Page, NEW e \in Entry, EntryOK(p, e)
  PROVE  LET f == ReleaseAggregated(e)
         IN /\ f \in Entry /\ EntryOK(p, f) /\ SameOp(e, f)
            /\ f.op = e.op /\ f.hit = e.hit /\ f.deliver = e.deliver
            /\ f.pending = e.pending /\ f.phys = e.phys
  <1> DEFINE f == ReleaseAggregated(e)
  <1>1. e.age \in Nat /\ e.age + 1 \in Nat /\ 0 \in Nat /\ FALSE \in BOOLEAN
    BY EntryTypes
  <1>2. f \in Entry
    BY <1>1 DEF ReleaseAggregated, Entry
  <1>3. /\ f.op = e.op /\ f.deliver = e.deliver /\ f.fill = e.fill
        /\ f.write = e.write /\ f.hit = e.hit /\ f.pending = e.pending
        /\ f.phys = e.phys
    BY DEF ReleaseAggregated, Entry
  <1>4. e.op = "none" => f = NoEntry
    <2>1. ~NoEntry.agg
      BY DEF NoEntry, WaitingEntry
    <2>2. QED
      BY <2>1 DEF ReleaseAggregated, EntryOK
  <1> HIDE DEF f
  <1>5. EntryOK(p, f)
    BY <1>3, <1>4 DEF EntryOK
  <1>6. SameOp(e, f)
    BY <1>3 DEF SameOp, Waits, Served
  <1>7. QED
    BY <1>2, <1>3, <1>5, <1>6 DEF f

LEMMA TickStep ==
  ASSUME ControllerInv, Tick
  PROVE  ControllerInv'
  <1>1. /\ pc' = "media" /\ todo' = Active
        /\ mshr' = [p \in Page |-> ReleaseAggregated(mshr[p])]
        /\ UNCHANGED <<issued, outstanding, wb, queue, busy, outw, cache,
                       returnq, drain, readDue>>
    BY DEF Tick, windowVars
  <1>2. ASSUME NEW p \in Page
        PROVE  /\ mshr'[p] \in Entry /\ EntryOK(p, mshr'[p]) /\ SameOp(mshr[p], mshr'[p])
               /\ mshr'[p].op = mshr[p].op /\ mshr'[p].pending = mshr[p].pending
    BY <1>1, Types, ReleasedEntry DEF ControllerInv, EntriesInv
  <1>3. mshr' \in [Page -> Entry]
    BY <1>1, <1>2
  <1>4. /\ QueueInv' /\ ServiceInv' /\ OutstandingWritesExact' /\ Mshr' = Mshr
        /\ Active' = Active
    BY <1>1, <1>2, OperationsKept
  <1>5. OccupancyBounded'
    BY <1>1, <1>4, OccupancyKept
  <1>6. RequestsInv'
    BY <1>1, <1>2, RequestsKept
  <1>7. EntriesInv'
    BY <1>2 DEF EntriesInv
  <1>8. CacheInv'
    <2>1. ToSet(cache) \subseteq Page
      BY Types, ElementsOfSeq DEF ControllerInv
    <2>2. QED
      BY <1>1, <1>2, <2>1 DEF CacheInv, ControllerInv
  <1>9. /\ wbAge' \in [Page -> 0 .. AggTimeout + 1]
        /\ wbQuiet' \in [Page -> 0 .. IdleQuiet + 1]
    <2>1. ASSUME NEW n \in Nat, NEW a \in 0 .. n + 1
          PROVE  Older(a, n + 1) \in 0 .. n + 1
      BY DEF Older
    <2>2. /\ wbAge \in [Page -> 0 .. AggTimeout + 1]
          /\ wbQuiet \in [Page -> 0 .. IdleQuiet + 1]
      BY DEF ControllerInv, ControllerTypeOK
    <2>3. ASSUME NEW p \in Page
          PROVE  /\ Older(wbAge[p], AggTimeout + 1) \in 0 .. AggTimeout + 1
                 /\ Older(wbQuiet[p], IdleQuiet + 1) \in 0 .. IdleQuiet + 1
                 /\ 0 \in 0 .. AggTimeout + 1 /\ 0 \in 0 .. IdleQuiet + 1
      BY <2>1, <2>2, Numbers
    <2>4. QED
      BY <2>3 DEF Tick
  <1>10. credit' \in [Channel -> 0 .. MaxCredit]
    <2>1. ASSUME NEW c \in Channel
          PROVE  Min({credit[c] + LinkBw, MaxCredit}) \in 0 .. MaxCredit
      <3>1. credit[c] \in 0 .. MaxCredit
        BY DEF ControllerInv, ControllerTypeOK
      <3>2. credit[c] + LinkBw \in Nat
        BY <3>1, Numbers
      <3>3. Min({credit[c] + LinkBw, MaxCredit})
              = IF credit[c] + LinkBw <= MaxCredit THEN credit[c] + LinkBw ELSE MaxCredit
        BY <3>2, Numbers, MinOfTwo
      <3>4. QED
        BY <3>2, <3>3, Numbers
    <2>2. QED
      BY <2>1 DEF Tick
  <1>11. Active \in SUBSET (Page \cup Subarray)
    BY DEF Active
  <1>12. pc' \in Phase
    BY <1>1 DEF Phase
  <1>13. ControllerTypeOK'
    BY <1>1, <1>3, <1>9, <1>10, <1>11, <1>12, Types DEF ControllerInv, ControllerTypeOK
  <1>14. LoopInv'
    BY <1>1, <1>4 DEF LoopInv
  <1>15. QED
    BY <1>4, <1>5, <1>6, <1>7, <1>8, <1>13, <1>14 DEF ControllerInv

-----------------------------------------------------------------------------
(***************************************************************************)
(* The sub-arrays: the one that turns idle serves exactly one entry.       *)
(***************************************************************************)
LEMMA TheServed ==
  ASSUME ControllerInv, NEW s \in Subarray, StepSubarray(s)
  PROVE  /\ s \in Active /\ busy[s] \in Nat \ {0}
         /\ \E p \in Page : /\ Serving(s) = {p} /\ Min(Serving(s)) = p
                            /\ Served(mshr[p]) /\ SubarrayOf[p] = s
  <1>1. todo # {} /\ s = Min(todo) /\ todo \subseteq Active
    BY DEF StepSubarray, ControllerInv, LoopInv
  <1>2. s \in Active
    <2>1. todo \subseteq Nat
      BY <1>1, Constants DEF Active
    <2>2. QED
      BY <1>1, <2>1, LeastNat
  <1>3. busy[s] \in Nat \ {0}
    BY <1>2, Types DEF Active, ControllerInv
  <1>4. PICK p \in Page : SubarrayOf[p] = s /\ Served(mshr[p])
    BY <1>2 DEF Active, ControllerInv, ServiceInv
  <1>5. \A q \in Page : q \in Serving(s) <=> SubarrayOf[q] = s /\ Served(mshr[q])
    BY DEF Serving, Served
  <1>6. Serving(s) = {p}
    <2>1. Serving(s) \subseteq Page
      BY DEF Serving
    <2>2. QED
      BY <1>4, <1>5, <2>1 DEF ControllerInv, ServiceInv
  <1>7. Min({p}) = p
    BY Constants, MinOfTwo DEF Min
  <1>8. QED
    BY <1>2, <1>3, <1>4, <1>6, <1>7

LEMMA MediaAdvanceStep ==
  ASSUME ControllerInv, NEW s \in Subarray, MediaAdvance(s)
  PROVE  ControllerInv'
  <1>1. /\ StepSubarray(s) /\ busy' = [busy EXCEPT ![s] = @ - 1] /\ todo' = todo \ {s}
        /\ UNCHANGED <<pc, issued, outstanding, wb, wbAge, wbQuiet, mshr, queue,
                       outw, credit, cache, returnq, drain, readDue>>
    BY DEF MediaAdvance, StepSubarray, bufferVars, windowVars
  <1>2. /\ busy \in [Subarray -> Nat] /\ busy[s] \in Nat /\ busy[s] > 1
    <2>1. busy[s] > 1 \/ Serving(s) = {}
      BY DEF MediaAdvance
    <2>2. Serving(s) # {}
      BY <1>1, TheServed
    <2>3. QED
      BY <2>1, <2>2, Types DEF ControllerInv
  <1>3. /\ busy' \in [Subarray -> Nat]
        /\ \A u \in Subarray : busy'[u] > 0 <=> busy[u] > 0
    BY <1>1, <1>2
  <1>4. Active' = Active
    BY <1>3 DEF Active
  <1>5. ServiceInv'
    <2>1. \A q \in Page : SubarrayOf[q] \in Subarray
      BY Constants
    <2>2. QED
      BY <1>1, <1>3, <1>4, <2>1 DEF ControllerInv, ServiceInv
  <1>6. Mshr' = Mshr /\ RequestsInv'
    BY <1>1, RequestsKept DEF Mshr, InMshr
  <1>7. OccupancyBounded'
    BY <1>1, <1>6, OccupancyKept
  <1>8. ControllerTypeOK'
    BY <1>1, <1>3, Types DEF ControllerInv, ControllerTypeOK
  <1>9. LoopInv'
    BY <1>1, <1>4 DEF ControllerInv, LoopInv, StepSubarray
  <1>10. QueueInv' /\ OutstandingWritesExact' /\ CacheInv' /\ EntriesInv'
    BY <1>1, <1>6
    DEF ControllerInv, QueueInv, OutstandingWritesExact, CacheInv, EntriesInv
  <1>11. QED
    BY <1>5, <1>6, <1>7, <1>8, <1>9, <1>10 DEF ControllerInv

LEMMA EraseCompleteStep ==
  ASSUME ControllerInv, NEW s \in Subarray, EraseComplete(s)
  PROVE  ControllerInv'
  <1>1. PICK p \in Page : /\ Min(Serving(s)) = p /\ Served(mshr[p])
                          /\ SubarrayOf[p] = s
    BY TheServed DEF EraseComplete
  <1> DEFINE e == mshr[p]
             f == [e EXCEPT !.op = "waiting"]
  <1>2. /\ pc = "media" /\ busy[s] = 1 /\ busy' = [busy EXCEPT ![s] = @ - 1]
        /\ todo' = todo \ {s} /\ e.op = "erasing"
        /\ mshr' = [mshr EXCEPT ![p] = f] /\ queue' = Append(queue, p)
        /\ UNCHANGED <<pc, issued, outstanding, wb, wbAge, wbQuiet, outw, credit,
                       cache, returnq, drain, readDue>>
    BY <1>1 DEF EraseComplete, StepSubarray, bufferVars, windowVars
  <1>3. e \in Entry /\ EntryOK(p, e) /\ mshr \in [Page -> Entry]
    BY Types DEF ControllerInv, EntriesInv
  <1>4. /\ f \in Entry /\ f.op = "waiting" /\ f.deliver = e.deliver /\ f.fill = e.fill
        /\ f.write = e.write /\ f.hit = e.hit /\ f.pending = e.pending
    BY <1>3 DEF Entry, Op
  <1>5. e.deliver = FALSE /\ e.fill = FALSE /\ e.hit = 0 /\ e.write
    BY <1>2, <1>3, EntryTypes DEF EntryOK
  <1> HIDE DEF e, f
  <1>6. /\ mshr'[p] = f /\ \A q \in Page : q # p => mshr'[q] = mshr[q]
        /\ mshr' \in [Page -> Entry] /\ mshr[p] = e
    BY <1>2, <1>3, <1>4 DEF e
  <1>7. EntriesInv'
    <2>1. EntryOK(p, f)
      BY <1>2, <1>3, <1>4, <1>5 DEF EntryOK
    <2>2. QED
      BY <1>6, <2>1 DEF EntriesInv, ControllerInv
  <1>8. ~Waits(mshr[p]) /\ Waits(mshr'[p]) /\ ~Served(mshr'[p])
    BY <1>2, <1>4, <1>5, <1>6 DEF Waits, Served
  <1>9. QueueInv' /\ queue' \in Seq(Page)
    BY <1>2, <1>6, <1>8, QueueAppended
  <1>10. ServiceInv' /\ busy' \in [Subarray -> Nat] /\ Active' = Active \ {s}
    BY <1>1, <1>2, <1>6, <1>8, ServiceEnded
  <1>11. \A q \in Page : /\ mshr'[q].op = "none" <=> mshr[q].op = "none"
                         /\ mshr'[q].write = mshr[q].write
                         /\ mshr'[q].pending = mshr[q].pending
    BY <1>2, <1>4, <1>6
  <1>12. Mshr' = Mshr /\ RequestsInv'
    BY <1>2, <1>11, RequestsKept DEF Mshr, InMshr
  <1>13. OutstandingWritesExact'
    <2>1. \A c \in Channel : Writes(c)' = Writes(c)
      BY <1>11, <1>12 DEF Writes, Mshr
    <2>2. QED
      BY <1>2, <2>1, WritesKept
  <1>14. OccupancyBounded'
    BY <1>2, <1>12, OccupancyKept
  <1>15. CacheInv'
    <2>1. ToSet(cache) \subseteq Page
      BY Types, ElementsOfSeq DEF ControllerInv
    <2>2. QED
      BY <1>2, <1>4, <1>6, <2>1 DEF CacheInv, ControllerInv
  <1>16. ControllerTypeOK'
    BY <1>2, <1>6, <1>9, <1>10, Types DEF ControllerInv, ControllerTypeOK
  <1>17. LoopInv'
    BY <1>2, <1>10 DEF ControllerInv, LoopInv
  <1>18. QED
    BY <1>7, <1>9, <1>10, <1>12, <1>13, <1>14, <1>15, <1>16, <1>17 DEF ControllerInv

LEMMA AccessCompleteStep ==
  ASSUME ControllerInv, NEW s \in Subarray, AccessComplete(s)
  PROVE  ControllerInv'
  <1>1. PICK p \in Page : /\ Min(Serving(s)) = p /\ Served(mshr[p])
                          /\ SubarrayOf[p] = s
    BY TheServed DEF AccessComplete
  <1> DEFINE e == mshr[p]
             f == [e EXCEPT !.fill = (e.op = "reading"), !.deliver = TRUE]
  <1>2. /\ pc = "media" /\ busy[s] = 1 /\ busy' = [busy EXCEPT ![s] = @ - 1]
        /\ todo' = todo \ {s} /\ e.op \notin {"none", "waiting", "erasing"}
        /\ mshr' = [mshr EXCEPT ![p] = f]
        /\ UNCHANGED <<pc, issued, outstanding, wb, wbAge, wbQuiet, queue, outw,
                       credit, cache, returnq, drain, readDue>>
    BY <1>1 DEF AccessComplete, StepSubarray, bufferVars, windowVars, Served
  <1>3. e \in Entry /\ EntryOK(p, e) /\ mshr \in [Page -> Entry]
    BY Types DEF ControllerInv, EntriesInv
  <1>4. /\ f \in Entry /\ f.op = e.op /\ f.deliver = TRUE
        /\ f.fill = (e.op = "reading")
        /\ f.write = e.write /\ f.hit = e.hit /\ f.pending = e.pending
    BY <1>3 DEF Entry
  <1>5. e.op \in {"reading", "programming"} /\ e.hit = 0
    BY <1>2, <1>3, EntryTypes DEF EntryOK, Op
  <1> HIDE DEF e, f
  <1>6. /\ mshr'[p] = f /\ \A q \in Page : q # p => mshr'[q] = mshr[q]
        /\ mshr' \in [Page -> Entry] /\ mshr[p] = e
    BY <1>2, <1>3, <1>4 DEF e
  <1>7. EntriesInv'
    <2>1. EntryOK(p, f)
      BY <1>2, <1>3, <1>4, <1>5 DEF EntryOK
    <2>2. QED
      BY <1>6, <2>1 DEF EntriesInv, ControllerInv
  <1>8. ~Waits(mshr[p]) /\ ~Waits(mshr'[p]) /\ ~Served(mshr'[p])
    BY <1>2, <1>4, <1>6 DEF Waits, Served
  <1>9. QueueInv'
    BY <1>2, <1>6, <1>8 DEF QueueInv, ControllerInv
  <1>10. ServiceInv' /\ busy' \in [Subarray -> Nat] /\ Active' = Active \ {s}
    BY <1>1, <1>2, <1>6, <1>8, ServiceEnded
  <1>11. \A q \in Page : /\ mshr'[q].op = mshr[q].op
                         /\ mshr'[q].write = mshr[q].write
                         /\ mshr'[q].pending = mshr[q].pending
    BY <1>4, <1>6
  <1>12. Mshr' = Mshr /\ RequestsInv'
    BY <1>2, <1>11, RequestsKept DEF Mshr, InMshr
  <1>13. OutstandingWritesExact'
    <2>1. \A c \in Channel : Writes(c)' = Writes(c)
      BY <1>11, <1>12 DEF Writes, Mshr
    <2>2. QED
      BY <1>2, <2>1, WritesKept
  <1>14. OccupancyBounded'
    BY <1>2, <1>12, OccupancyKept
  <1>15. CacheInv'
    <2>1. ToSet(cache) \subseteq Page
      BY Types, ElementsOfSeq DEF ControllerInv
    <2>2. QED
      BY <1>2, <1>11, <2>1 DEF CacheInv, ControllerInv
  <1>16. ControllerTypeOK'
    BY <1>2, <1>6, <1>10, Types DEF ControllerInv, ControllerTypeOK
  <1>17. LoopInv'
    BY <1>2, <1>10 DEF ControllerInv, LoopInv
  <1>18. QED
    BY <1>7, <1>9, <1>10, <1>12, <1>13, <1>14, <1>15, <1>16, <1>17 DEF ControllerInv

\* A cache hit one tick closer to its delivery.
HitTick(e) == IF e.hit > 0 THEN [e EXCEPT !.hit = @ - 1, !.deliver = (e.hit = 1)]
                           ELSE e

LEMMA HitTicks ==
  ASSUME NEW p \in Page, NEW e \in Entry, EntryOK(p, e)
  PROVE  LET f == HitTick(e)
         IN /\ f \in Entry /\ EntryOK(p, f) /\ SameOp(e, f)
            /\ f.op = e.op /\ f.pending = e.pending /\ f.phys = e.phys
            /\ f.write = e.write
            /\ e.hit > 0 => f.deliver \/ f.hit > 0
            /\ e.hit = 0 => f = e
  <1> DEFINE f == HitTick(e)
  <1>1. e.hit \in Nat /\ (e.hit > 0 => e.hit - 1 \in Nat)
    BY EntryTypes
  <1>2. CASE e.hit > 0
    <2>1. /\ f.op = e.op /\ f.deliver = (e.hit = 1) /\ f.fill = e.fill
          /\ f.write = e.write /\ f.hit = e.hit - 1 /\ f.pending = e.pending
          /\ f.phys = e.phys /\ f.agg = e.agg /\ f.age = e.age
      BY <1>2 DEF HitTick, Entry
    <2>2. f \in Entry
      BY <1>1, <1>2 DEF HitTick, Entry
    <2> HIDE DEF f
    <2>3. e.op = "waiting" /\ ~e.deliver /\ ~e.write
      BY <1>2 DEF EntryOK
    <2>9. (e.hit = 1 => f.deliver) /\ (e.hit # 1 => ~f.deliver)
      BY <2>1, Zenon
    <2>10. (e.hit = 1 => ~(f.hit > 0)) /\ (e.hit # 1 => f.hit > 0)
      BY <1>1, <1>2, <2>1
    <2>4. f.hit > 0 => ~f.deliver
      BY <2>9, <2>10
    <2>5. f.deliver \/ f.hit > 0
      BY <2>9, <2>10
    <2>6. EntryOK(p, f)
      BY <1>2, <2>1, <2>3, <2>4 DEF EntryOK
    <2>7. SameOp(e, f)
      BY <1>1, <1>2, <2>1, <2>3, <2>5 DEF SameOp, Waits, Served
    <2>8. QED
      BY <1>1, <1>2, <2>1, <2>2, <2>5, <2>6, <2>7 DEF f
  <1>3. CASE ~(e.hit > 0)
    <2>1. f = e /\ e.hit = 0
      BY <1>1, <1>3 DEF HitTick
    <2>2. QED
      BY <1>3, <2>1 DEF SameOp
  <1>4. QED
    BY <1>2, <1>3

LEMMA CacheHitsReadyStep ==
  ASSUME ControllerInv, CacheHitsReady
  PROVE  ControllerInv'
  <1>1. /\ mshr' = [p \in Page |-> HitTick(mshr[p])]
        /\ pc' = "deliver" /\ todo' = {p \in Page : mshr'[p].deliver}
        /\ UNCHANGED <<issued, outstanding, wb, wbAge, wbQuiet, queue, busy, outw,
                       credit, cache, returnq, drain, readDue>>
    BY DEF CacheHitsReady, HitTick, bufferVars, windowVars
  <1>2. ASSUME NEW p \in Page
        PROVE  /\ mshr'[p] \in Entry /\ EntryOK(p, mshr'[p]) /\ SameOp(mshr[p], mshr'[p])
               /\ mshr'[p].op = mshr[p].op /\ mshr'[p].pending = mshr[p].pending
    BY <1>1, Types, HitTicks DEF ControllerInv, EntriesInv
  <1>3. mshr' \in [Page -> Entry]
    BY <1>1, <1>2
  <1>4. QueueInv' /\ ServiceInv' /\ OutstandingWritesExact' /\ Mshr' = Mshr
    BY <1>1, <1>2, OperationsKept
  <1>5. OccupancyBounded'
    BY <1>1, <1>4, OccupancyKept
  <1>6. RequestsInv'
    BY <1>1, <1>2, RequestsKept
  <1>7. EntriesInv'
    BY <1>2 DEF EntriesInv
  <1>8. CacheInv'
    <2>1. ToSet(cache) \subseteq Page
      BY Types, ElementsOfSeq DEF ControllerInv
    <2>2. QED
      BY <1>1, <1>2, <2>1 DEF CacheInv, ControllerInv
  <1>9. todo' \in SUBSET (Page \cup Subarray) /\ pc' \in Phase
    BY <1>1 DEF Phase
  <1>10. ControllerTypeOK'
    BY <1>1, <1>3, <1>9 DEF ControllerInv, ControllerTypeOK
  <1>11. LoopInv'
    BY <1>1 DEF LoopInv
  <1>12. QED
    BY <1>4, <1>5, <1>6, <1>7, <1>8, <1>10, <1>11 DEF ControllerInv

-----------------------------------------------------------------------------
(***************************************************************************)
(* The page cache.                                                         *)
(***************************************************************************)
LEMMA PrefixElements ==
  ASSUME NEW S, NEW s \in Seq(S), NEW n \in Nat, n <= Len(s), IsInjective(s)
  PROVE  LET u == SubSeq(s, 1, n)
         IN /\ u \in Seq(S) /\ Len(u) = n /\ IsInjective(u)
            /\ ToSet(u) \subseteq ToSet(s)
  <1> DEFINE u == SubSeq(s, 1, n)
  <1>1. Len(s) \in Nat /\ DOMAIN s = 1 .. Len(s) /\ \A i \in 1 .. Len(s) : s[i] \in S
    BY LenProperties, ElementOfSeq
  <1>2. /\ u \in Seq(S) /\ Len(u) = n /\ DOMAIN u = 1 .. n
        /\ \A i \in 1 .. n : u[i] = s[i]
    <2>1. /\ u \in Seq(S) /\ Len(u) = IF 1 <= n THEN n - 1 + 1 ELSE 0
          /\ \A i \in 1 .. n - 1 + 1 : u[i] = s[1 + i - 1]
      BY <1>1, SubSeqProperties
    <2> HIDE DEF u
    <2>2. QED
      BY <1>1, <2>1, LenProperties
  <1> HIDE DEF u
  <1>3. IsInjective(u) /\ ToSet(u) \subseteq ToSet(s)
    BY <1>1, <1>2 DEF IsInjective, ToSet
  <1>4. QED
    BY <1>2, <1>3 DEF u

LEMMA SingletonElements ==
  ASSUME NEW S, NEW e \in S
  PROVE  /\ <<e>> \in Seq(S) /\ Len(<<e>>) = 1 /\ IsInjective(<<e>>)
         /\ ToSet(<<e>>) = {e}
  BY DEF IsInjective, ToSet

\* A page put in front of pages it is not one of.
LEMMA FrontElements ==
  ASSUME NEW S, NEW e \in S, NEW t \in Seq(S), IsInjective(t), e \notin ToSet(t)
  PROVE  /\ <<e>> \o t \in Seq(S) /\ Len(<<e>> \o t) = 1 + Len(t)
         /\ IsInjective(<<e>> \o t) /\ ToSet(<<e>> \o t) = {e} \cup ToSet(t)
  <1> DEFINE one == <<e>>
  <1>1. /\ one \in Seq(S) /\ Len(one) = 1 /\ IsInjective(one) /\ ToSet(one) = {e}
    BY SingletonElements
  <1> HIDE DEF one
  <1>2. /\ one \o t \in Seq(S) /\ Len(one \o t) = 1 + Len(t)
        /\ IsInjective(one \o t) /\ ToSet(one \o t) = {e} \cup ToSet(t)
    <2>1. ToSet(one) \cap ToSet(t) = {}
      BY <1>1
    <2>2. /\ one \o t \in Seq(S) /\ Len(one \o t) = Len(one) + Len(t)
          /\ ToSet(one \o t) = ToSet(one) \cup ToSet(t)
          /\ IsInjective(one) /\ IsInjective(t) /\ ToSet(one) \cap ToSet(t) = {}
               => IsInjective(one \o t)
      <3>1. one \in Seq(S) /\ t \in Seq(S)
        BY <1>1
      <3>2. QED
        BY ONLY <3>1, ConcatElements
    <2>3. QED
      BY <1>1, <2>1, <2>2
  <1>3. QED
    BY <1>2 DEF one

LEMMA CacheOperations ==
  ASSUME ControllerInv, NEW p \in Page
  PROVE  /\ CacheInsert(p) \in Seq(Page) /\ Len(CacheInsert(p)) <= CacheEntries
         /\ IsInjective(CacheInsert(p))
         /\ ToSet(CacheInsert(p)) \subseteq ToSet(cache) \cup {p}
         /\ CacheInvalidate(p) \in Seq(Page) /\ Len(CacheInvalidate(p)) <= CacheEntries
         /\ IsInjective(CacheInvalidate(p))
         /\ ToSet(CacheInvalidate(p)) = ToSet(cache) \ {p}
         /\ p \in ToSet(cache) =>
              LET c == <<p>> \o CacheInvalidate(p)
              IN /\ c \in Seq(Page) /\ Len(c) <= CacheEntries /\ IsInjective(c)
                 /\ ToSet(c) = ToSet(cache)
  <1> DEFINE rest == RemoveFirst(cache, p)
  <1>1. /\ cache \in Seq(Page) /\ Len(cache) <= CacheEntries /\ Len(cache) \in Nat
        /\ IsInjective(cache)
    BY LenProperties DEF ControllerInv, ControllerTypeOK, CacheInv
  <1>2. /\ rest \in Seq(Page) /\ IsInjective(rest) /\ ToSet(rest) = ToSet(cache) \ {p}
        /\ Len(rest) = IF p \in ToSet(cache) THEN Len(cache) - 1 ELSE Len(cache)
    BY <1>1, RemoveFirstElements
  <1> HIDE DEF rest
  <1>3. Len(rest) \in Nat /\ Len(rest) <= CacheEntries
    BY <1>1, <1>2, LenProperties, Numbers
  <1>4. p \in ToSet(cache) =>
          /\ <<p>> \o rest \in Seq(Page) /\ Len(<<p>> \o rest) <= CacheEntries
          /\ IsInjective(<<p>> \o rest) /\ ToSet(<<p>> \o rest) = ToSet(cache)
    <2>1. p \notin ToSet(rest)
      BY <1>2
    <2>2. /\ <<p>> \o rest \in Seq(Page) /\ Len(<<p>> \o rest) = 1 + Len(rest)
          /\ IsInjective(<<p>> \o rest) /\ ToSet(<<p>> \o rest) = {p} \cup ToSet(rest)
      BY <1>2, <2>1, FrontElements
    <2> DEFINE c == <<p>> \o rest
    <2> HIDE DEF c
    <2>3. /\ c \in Seq(Page) /\ Len(c) = 1 + Len(rest)
          /\ IsInjective(c) /\ ToSet(c) = {p} \cup ToSet(rest)
      BY <2>2 DEF c
    <2>4. p \in ToSet(cache) => Len(c) <= CacheEntries
      BY <1>1, <1>2, <2>3, Numbers
    <2>5. p \in ToSet(cache) => ToSet(c) = ToSet(cache)
      BY <1>2, <2>3
    <2>6. QED
      BY <2>3, <2>4, <2>5 DEF c
  <1>5. /\ CacheInsert(p) \in Seq(Page) /\ Len(CacheInsert(p)) <= CacheEntries
        /\ IsInjective(CacheInsert(p))
        /\ ToSet(CacheInsert(p)) \subseteq ToSet(cache) \cup {p}
    <2>1. CASE CacheEntries = 0
      BY <1>1, <2>1 DEF CacheInsert
    <2>2. CASE CacheEntries # 0
      <3> DEFINE n == Min({Len(rest), CacheEntries - 1})
                 u == SubSeq(rest, 1, n)
      <3>1. n \in Nat /\ n <= Len(rest) /\ n + 1 <= CacheEntries
        <4>1. n = IF Len(rest) <= CacheEntries - 1 THEN Len(rest) ELSE CacheEntries - 1
          BY <1>3, Numbers, MinOfTwo
        <4> HIDE DEF n
        <4>2. QED
          BY <1>3, <2>2, <4>1, Numbers
      <3> HIDE DEF n
      <3>2. /\ u \in Seq(Page) /\ Len(u) = n /\ IsInjective(u)
            /\ ToSet(u) \subseteq ToSet(rest)
        BY <1>2, <3>1, PrefixElements
      <3>3. CacheInsert(p) = <<p>> \o u
        BY <2>2 DEF CacheInsert, n, rest
      <3> HIDE DEF u
      <3>4. p \notin ToSet(u)
        BY <1>2, <3>2
      <3>5. /\ <<p>> \o u \in Seq(Page) /\ Len(<<p>> \o u) = 1 + Len(u)
            /\ IsInjective(<<p>> \o u) /\ ToSet(<<p>> \o u) = {p} \cup ToSet(u)
        BY <3>2, <3>4, FrontElements
      <3> DEFINE c == <<p>> \o u
      <3> HIDE DEF c
      <3>6. /\ c \in Seq(Page) /\ Len(c) = 1 + Len(u)
            /\ IsInjective(c) /\ ToSet(c) = {p} \cup ToSet(u)
        BY <3>5 DEF c
      <3>7. Len(c) <= CacheEntries
        BY <3>1, <3>2, <3>6, Numbers
      <3>8. ToSet(c) \subseteq ToSet(cache) \cup {p}
        BY <1>2, <3>2, <3>6
      <3>9. QED
        BY <3>3, <3>6, <3>7, <3>8 DEF c
    <2>3. QED
      BY <2>1, <2>2
  <1>6. QED
    BY <1>2, <1>3, <1>4, <1>5 DEF CacheInvalidate, rest

-----------------------------------------------------------------------------
(***************************************************************************)
(* Deliveries.                                                             *)
(***************************************************************************)
LEMMA NextDelivery ==
  ASSUME ControllerInv, NEW p \in Page, pc = "deliver", todo # {}, p = Min(todo)
  PROVE  /\ p \in todo /\ mshr[p].deliver /\ mshr[p] \in Entry /\ EntryOK(p, mshr[p])
         /\ InMshr(p) /\ ~Waits(mshr[p]) /\ ~Served(mshr[p])
         /\ mshr[p].pending \in Seq(Req) /\ mshr[p].pending # <<>>
         /\ IsInjective(mshr[p].pending) /\ Head(mshr[p].pending) \in Req
  <1>1. todo \subseteq {q \in Page : mshr[q].deliver} /\ todo \subseteq Nat
    BY Constants DEF ControllerInv, LoopInv
  <1>2. p \in todo
    BY <1>1, LeastNat
  <1>3. mshr[p] \in Entry /\ EntryOK(p, mshr[p]) /\ mshr[p].deliver
    BY <1>1, <1>2, Types DEF ControllerInv, EntriesInv
  <1>4. mshr[p].op # "none"
    BY <1>3, NoEntryOK DEF EntryOK
  <1>5. mshr[p].pending \in Seq(Req)
    BY <1>3, EntryTypes
  <1>6. QED
    BY <1>2, <1>3, <1>4, <1>5, ElementsOfSeq DEF EntryOK, InMshr, Waits, Served

LEMMA CacheFilled ==
  ASSUME ControllerInv, NEW p \in Page, InMshr(p),
         cache' = IF mshr[p].fill THEN CacheInsert(p) ELSE cache,
         \A q \in Page : q # p => mshr'[q] = mshr[q],
         mshr'[p].op \in {mshr[p].op, "none"}
  PROVE  CacheInv' /\ cache' \in Seq(Page) /\ Len(cache') <= CacheEntries
  <1>1. /\ cache \in Seq(Page) /\ Len(cache) <= CacheEntries /\ IsInjective(cache)
        /\ \A q \in ToSet(cache) : mshr[q].op \notin {"erasing", "programming"}
    BY DEF ControllerInv, ControllerTypeOK, CacheInv
  <1>2. ToSet(cache) \subseteq Page
    BY <1>1, ElementsOfSeq
  <1>3. mshr[p].fill => mshr[p].op = "reading"
    BY DEF ControllerInv, EntriesInv, EntryOK
  <1>4. /\ cache' \in Seq(Page) /\ Len(cache') <= CacheEntries /\ IsInjective(cache')
        /\ ToSet(cache') \subseteq ToSet(cache) \cup (IF mshr[p].fill THEN {p} ELSE {})
    BY <1>1, CacheOperations
  <1>5. ASSUME NEW q \in ToSet(cache')
        PROVE  mshr'[q].op \notin {"erasing", "programming"}
    BY <1>1, <1>2, <1>3, <1>4
  <1>6. QED
    BY <1>4, <1>5 DEF CacheInv

LEMMA DeliverNoRoomStep ==
  ASSUME ControllerInv, NEW p \in Page, DeliverNoRoom(p)
  PROVE  ControllerInv'
  <1>1. /\ todo' = todo \ {p} /\ pc = "deliver"
        /\ UNCHANGED <<pc, issued, outstanding, wb, wbAge, wbQuiet, mshr, queue,
                       busy, outw, credit, cache, returnq, drain, readDue>>
    BY DEF DeliverNoRoom, windowVars, bufferVars
  <1>2. /\ QueueInv' /\ ServiceInv' /\ OutstandingWritesExact' /\ Mshr' = Mshr
        /\ RequestsInv'
    BY <1>1, OperationsKept, RequestsKept DEF SameOp
  <1>3. OccupancyBounded'
    BY <1>1, <1>2, OccupancyKept
  <1>4. ControllerTypeOK'
    BY <1>1, Types DEF ControllerInv, ControllerTypeOK
  <1>5. LoopInv'
    BY <1>1 DEF ControllerInv, LoopInv
  <1>6. QED
    BY <1>1, <1>2, <1>3, <1>4, <1>5 DEF ControllerInv, EntriesInv, CacheInv

LEMMA DeliverStalledStep ==
  ASSUME ControllerInv, NEW p \in Page, DeliverStalled(p)
  PROVE  ControllerInv'
  <1> DEFINE e == mshr[p]
             f == [e EXCEPT !.fill = FALSE]
  <1>1. /\ pc = "deliver" /\ todo # {} /\ p = Min(todo) /\ todo' = todo \ {p}
        /\ cache' = (IF e.fill THEN CacheInsert(p) ELSE cache)
        /\ mshr' = [mshr EXCEPT ![p] = f]
        /\ UNCHANGED <<pc, issued, outstanding, wb, wbAge, wbQuiet, queue,
                       busy, outw, credit, returnq, drain, readDue>>
    BY DEF DeliverStalled, windowVars, bufferVars
  <1>2. e \in Entry /\ EntryOK(p, e) /\ InMshr(p) /\ mshr \in [Page -> Entry]
    BY <1>1, NextDelivery, Types DEF ControllerInv
  <1>3. /\ f \in Entry /\ f.op = e.op /\ f.deliver = e.deliver /\ f.fill = FALSE
        /\ f.write = e.write /\ f.hit = e.hit /\ f.pending = e.pending
    BY <1>2 DEF Entry
  <1>4. EntryOK(p, f)
    <2>1. e.op # "none"
      BY <1>2 DEF InMshr
    <2> HIDE DEF e, f
    <2>2. QED
      BY <1>2, <1>3, <2>1 DEF EntryOK
  <1> HIDE DEF f
  <1>5. /\ mshr'[p] = f /\ \A q \in Page : q # p => mshr'[q] = mshr[q]
        /\ mshr' \in [Page -> Entry]
    BY <1>1, <1>2, <1>3
  <1>6. \A q \in Page : /\ SameOp(mshr[q], mshr'[q])
                        /\ mshr'[q].deliver = mshr[q].deliver
                        /\ mshr'[q].pending = mshr[q].pending
    BY <1>3, <1>5 DEF SameOp, Waits, Served
  <1>7. /\ QueueInv' /\ ServiceInv' /\ OutstandingWritesExact' /\ Mshr' = Mshr
        /\ RequestsInv'
    BY <1>1, <1>6, OperationsKept, RequestsKept
  <1>8. OccupancyBounded'
    BY <1>1, <1>7, OccupancyKept
  <1>9. CacheInv' /\ cache' \in Seq(Page) /\ Len(cache') <= CacheEntries
    BY <1>1, <1>2, <1>3, <1>5, CacheFilled
  <1>10. EntriesInv'
    BY <1>4, <1>5 DEF EntriesInv, ControllerInv
  <1>11. ControllerTypeOK'
    BY <1>1, <1>5, <1>9, Types DEF ControllerInv, ControllerTypeOK
  <1>12. LoopInv'
    BY <1>1, <1>6 DEF ControllerInv, LoopInv
  <1>13. QED
    BY <1>7, <1>8, <1>9, <1>10, <1>11, <1>12 DEF ControllerInv

LEMMA DeliverRequestStep ==
  ASSUME ControllerInv, NEW p \in Page, DeliverRequest(p)
  PROVE  ControllerInv'
  <1> DEFINE e    == mshr[p]
             r    == Head(e.pending)
             rest == Tail(e.pending)
             c    == ChannelOf[p]
             f    == IF rest = <<>> THEN NoEntry
                                    ELSE [e EXCEPT !.fill = FALSE, !.pending = rest]
  <1>1. /\ pc = "deliver" /\ todo # {} /\ p = Min(todo)
        /\ Len(returnq) < ReturnCap /\ Cost(r) <= credit[c]
        /\ cache' = (IF e.fill THEN CacheInsert(p) ELSE cache)
        /\ credit' = [credit EXCEPT ![c] = @ - Cost(r)]
        /\ returnq' = Append(returnq, r)
        /\ mshr' = [mshr EXCEPT ![p] = f]
        /\ rest = <<>> => ReleaseWrite(p) /\ todo' = todo \ {p}
        /\ rest # <<>> => outw' = outw /\ todo' = todo
        /\ UNCHANGED <<pc, issued, outstanding, wb, wbAge, wbQuiet, queue,
                       busy, drain, readDue>>
    BY DEF DeliverRequest, windowVars, bufferVars, ReturnRoom, Undelivered
  <1>2. /\ e \in Entry /\ EntryOK(p, e) /\ InMshr(p) /\ mshr \in [Page -> Entry]
        /\ ~Waits(mshr[p]) /\ ~Served(mshr[p]) /\ mshr[p].deliver
        /\ e.pending \in Seq(Req) /\ e.pending # <<>> /\ IsInjective(e.pending)
        /\ r \in Req
    BY <1>1, NextDelivery, Types DEF ControllerInv
  <1>3. /\ rest \in Seq(Req) /\ r \in ToSet(e.pending)
        /\ ToSet(rest) = ToSet(e.pending) \ {r} /\ IsInjective(rest)
    BY <1>2, TailElements
  <1> HIDE DEF rest, r, c
  <1>4. /\ f \in Entry /\ f.pending = rest
        /\ rest = <<>> => f = NoEntry
        /\ rest # <<>> => /\ f.op = e.op /\ f.deliver = e.deliver /\ f.fill = FALSE
                          /\ f.write = e.write /\ f.hit = e.hit
    <2>1. CASE rest = <<>>
      BY <2>1, NoEntryOK
    <2>2. CASE rest # <<>>
      BY <1>2, <1>3, <2>2 DEF Entry
    <2>3. QED
      BY <2>1, <2>2
  <1> HIDE DEF f
  <1>5. EntryOK(p, f)
    <2>1. CASE rest = <<>>
      BY <1>4, <2>1, NoEntryOK
    <2>2. CASE rest # <<>>
      <3>1. e.op # "none" /\ e.deliver
        BY <1>2 DEF InMshr
      <3> HIDE DEF e
      <3>2. QED
        BY <1>2, <1>3, <1>4, <2>2, <3>1 DEF EntryOK
    <2>3. QED
      BY <2>1, <2>2
  <1>6. /\ mshr'[p] = f /\ \A q \in Page : q # p => mshr'[q] = mshr[q]
        /\ mshr' \in [Page -> Entry]
    BY <1>1, <1>2, <1>4
  <1>7. ~Waits(mshr'[p]) /\ ~Served(mshr'[p])
    <2>1. CASE rest = <<>>
      BY <1>4, <1>6, <2>1, NoEntryOK DEF Waits, Served
    <2>2. CASE rest # <<>>
      BY <1>2, <1>4, <1>6, <2>2 DEF Waits, Served
    <2>3. QED
      BY <2>1, <2>2
  <1>8. QueueInv' /\ ServiceInv'
    <2>1. ServiceInv'
      BY <1>1, <1>2, <1>6, <1>7, ServiceKept
    <2>2. QueueInv'
      BY <1>1, <1>2, <1>6, <1>7 DEF QueueInv, ControllerInv
    <2>3. QED
      BY <2>1, <2>2
  <1>9. EntriesInv'
    BY <1>5, <1>6 DEF EntriesInv, ControllerInv
  <1>10. CacheInv' /\ cache' \in Seq(Page) /\ Len(cache') <= CacheEntries
    <2>1. mshr'[p].op \in {mshr[p].op, "none"}
      BY <1>4, <1>6, NoEntryOK
    <2>2. QED
      BY <1>1, <1>2, <1>6, <2>1, CacheFilled
  <1>11. /\ OutstandingWritesExact' /\ outw' \in [Channel -> Nat]
         /\ Mshr' = IF rest = <<>> THEN Mshr \ {p} ELSE Mshr
    <2>1. CASE rest = <<>>
      <3>1. ~InMshr(p)'
        BY <1>4, <1>6, <2>1, NoEntryOK DEF InMshr
      <3>2. ReleaseWrite(p)
        BY <1>1, <2>1
      <3>3. QED
        BY <1>2, <1>6, <2>1, <3>1, <3>2, PageRetired
    <2>2. CASE rest # <<>>
      <3>1. \A q \in Page : /\ mshr'[q].op = mshr[q].op
                            /\ mshr'[q].write = mshr[q].write
        BY <1>4, <1>6, <2>2
      <3>2. Mshr' = Mshr
        BY <3>1 DEF Mshr, InMshr
      <3>3. \A d \in Channel : Writes(d)' = Writes(d)
        BY <3>1, <3>2 DEF Writes, Mshr
      <3>4. outw' = outw
        BY <1>1, <2>2
      <3>5. QED
        BY <2>2, <3>2, <3>3, <3>4, WritesKept, Types DEF ControllerInv
    <2>3. QED
      BY <2>1, <2>2
  <1>12. OccupancyBounded'
    <2> DEFINE m == Cardinality(Mshr)
               n == Cardinality(Mshr')
               b == Cardinality(Buffered)
    <2>1. Mshr' \in SUBSET Mshr
      BY <1>11
    <2>2. m \in Nat /\ n \in Nat /\ b \in Nat /\ n <= m
      BY <2>1, FiniteSets, FS_Subset, FS_CardinalityType
    <2>3. Buffered' = Buffered
      BY <1>1 DEF Buffered
    <2>4. MaxOutstanding # 0 => m + b <= MaxOutstanding
      BY DEF ControllerInv, OccupancyBounded
    <2> HIDE DEF m, n, b
    <2>5. MaxOutstanding # 0 => n + b <= MaxOutstanding
      BY <2>2, <2>4, Numbers
    <2>6. QED
      BY <2>3, <2>5 DEF OccupancyBounded, n, b
  <1>13. /\ returnq' \in Seq(Req) /\ Len(returnq') <= ReturnCap
         /\ IsInjective(returnq') /\ ToSet(returnq') = ToSet(returnq) \cup {r}
    <2>1. returnq \in Seq(Req) /\ IsInjective(returnq) /\ r \notin ToSet(returnq)
      BY <1>3, Types DEF ControllerInv, RequestsInv
    <2>2. Len(returnq) \in Nat /\ Len(returnq') = Len(returnq) + 1
      BY <1>1, <1>2, <2>1, AppendElements, LenProperties
    <2>3. Len(returnq') <= ReturnCap
      BY <1>1, <2>2, Numbers
    <2>4. QED
      BY <1>1, <1>2, <2>1, <2>3, AppendElements
  <1>14. RequestsInv'
    <2>1. \A q \in outstanding : PageOf[q] \in Page
      BY Types, Constants DEF ControllerInv
    <2>2. PageOf[r] = p /\ r \in outstanding /\ r \notin ToSet(wb[p])
      BY <1>2, <1>3 DEF ControllerInv, RequestsInv, EntryOK
    <2>3. \A q \in Page : \A x \in ToSet(mshr[q].pending) : PageOf[x] = q
      BY DEF ControllerInv, EntriesInv, EntryOK
    <2>4. \A q \in Page : \A x \in ToSet(wb[q]) : PageOf[x] = q
      BY DEF ControllerInv, RequestsInv
    <2>5. /\ ToSet(mshr'[p].pending) = ToSet(mshr[p].pending) \ {r}
          /\ \A q \in Page : q # p => mshr'[q].pending = mshr[q].pending
          /\ wb' = wb /\ outstanding' = outstanding
      BY <1>1, <1>3, <1>4, <1>6
    <2>6. ASSUME NEW q \in Page
          PROVE  /\ IsInjective(wb'[q])
                 /\ \A x \in ToSet(wb'[q]) :
                      /\ PageOf[x] = q /\ IsWrite[x] /\ x \in outstanding'
                      /\ x \notin ToSet(mshr'[q].pending) /\ x \notin ToSet(returnq')
                 /\ \A x \in ToSet(mshr'[q].pending) :
                      x \in outstanding' /\ x \notin ToSet(returnq')
      <3>1. CASE q = p
        BY <1>13, <2>2, <2>5, <3>1 DEF ControllerInv, RequestsInv
      <3>2. CASE q # p
        BY <1>13, <2>2, <2>3, <2>4, <2>5, <3>2 DEF ControllerInv, RequestsInv
      <3>3. QED
        BY <3>1, <3>2
    <2>7. ToSet(returnq') \subseteq outstanding'
      BY <1>13, <2>2, <2>5 DEF ControllerInv, RequestsInv
    <2>8. ASSUME NEW x \in outstanding'
          PROVE  \/ x \in ToSet(wb'[PageOf[x]])
                 \/ x \in ToSet(mshr'[PageOf[x]].pending)
                 \/ x \in ToSet(returnq')
      BY <1>13, <2>1, <2>5 DEF ControllerInv, RequestsInv
    <2>9. QED
      BY <1>13, <2>6, <2>7, <2>8 DEF RequestsInv
  <1>15. credit' \in [Channel -> 0 .. MaxCredit]
    <2>1. c \in Channel /\ credit \in [Channel -> 0 .. MaxCredit]
      BY Constants DEF c, ControllerInv, ControllerTypeOK
    <2>2. Cost(r) \in Nat
      BY Numbers DEF Cost
    <2>3. credit[c] - Cost(r) \in 0 .. MaxCredit
      BY <1>1, <2>1, <2>2, Numbers
    <2>4. QED
      BY <1>1, <2>1, <2>3
  <1>16. ControllerTypeOK'
    <2>1. todo' \in SUBSET (Page \cup Subarray)
      BY <1>1, Types DEF ControllerInv
    <2>2. QED
      BY <1>1, <1>6, <1>10, <1>11, <1>13, <1>15, <2>1
      DEF ControllerInv, ControllerTypeOK
  <1>17. LoopInv'
    <2>1. todo' \subseteq {q \in Page : mshr'[q].deliver}
      <3>1. todo \subseteq {q \in Page : mshr[q].deliver}
        BY <1>1 DEF ControllerInv, LoopInv
      <3>2. CASE rest = <<>>
        BY <1>1, <1>6, <3>1, <3>2
      <3>3. CASE rest # <<>>
        BY <1>1, <1>2, <1>4, <1>6, <3>1, <3>3
      <3>4. QED
        BY <3>2, <3>3
    <2>2. QED
      BY <1>1, <2>1 DEF LoopInv
  <1>18. QED
    BY <1>8, <1>9, <1>10, <1>11, <1>12, <1>14, <1>16, <1>17 DEF ControllerInv

-----------------------------------------------------------------------------
(***************************************************************************)
(* The write window, the ends of the loops, and the scheduler.             *)
(***************************************************************************)
LEMMA UpdateWindowStep ==
  ASSUME ControllerInv, UpdateWindow
  PROVE  ControllerInv'
  <1>1. /\ drain' = NextWindow[1] /\ readDue' = NextWindow[2]
        /\ pc' = "timeout" /\ todo' = {p \in Buffered : wbAge[p] > AggTimeout}
        /\ UNCHANGED <<issued, outstanding, wb, wbAge, wbQuiet, mshr, queue,
                       busy, outw, credit, cache, returnq>>
    BY DEF UpdateWindow, bufferVars
  <1>2. drain' \in NoWindow .. DrainMaxwait /\ readDue' \in BOOLEAN
    <2>1. /\ drain \in NoWindow .. DrainMaxwait /\ readDue \in BOOLEAN
          /\ NoWindow = -1 /\ DrainMaxwait \in Nat
      BY Numbers DEF ControllerInv, ControllerTypeOK, NoWindow
    <2>2. \/ NextWindow = <<drain, readDue>>
          \/ NextWindow = <<NoWindow, FALSE>>
          \/ NextWindow = <<NoWindow, TRUE>>
          \/ NextWindow = <<DrainMaxwait, FALSE>>
          \/ NextWindow = <<drain - 1, readDue>> /\ ~(drain <= 1)
      <3>3. PendingWrites \in Nat
        <4> DEFINE I == {i \in DOMAIN queue :
                           mshr[queue[i]].op = "waiting" /\ FrontWrite(queue[i])}
        <4>1. DOMAIN queue = 1 .. Len(queue) /\ Len(queue) \in Nat
          BY LenProperties, Types DEF ControllerInv
        <4>2. IsFiniteSet(1 .. Len(queue)) /\ I \in SUBSET (1 .. Len(queue))
          BY <4>1, FS_Interval
        <4>3. IsFiniteSet(I)
          BY <4>2, FS_Subset
        <4>4. Cardinality(I) \in Nat /\ Cardinality(Buffered) \in Nat
          BY <4>3, FiniteSets, FS_CardinalityType
        <4>5. QED
          BY <4>4 DEF PendingWrites
      <3> DEFINE few == PendingWrites < DrainHigh
                 many == PendingWrites >= DrainHigh
                 n == DrainMaxwait
      <3>4. few => ~many
        BY <3>3, Numbers
      <3> HIDE DEF few, many, n
      <3>1. \/ NextWindow = <<drain, readDue>>
            \/ NextWindow = <<NoWindow, FALSE>>
            \/ NextWindow = <<NoWindow, TRUE>>
            \/ NextWindow = <<n, FALSE>>
            \/ NextWindow = <<drain - 1, readDue>> /\ ~(drain <= 1)
        <4>1. CASE Scheduler # 2
          BY <4>1 DEF NextWindow
        <4>2. CASE Scheduler = 2 /\ few
          BY <3>4, <4>2 DEF NextWindow, few, many
        <4>3. CASE Scheduler = 2 /\ ~few /\ many /\ drain # NoWindow
          BY <4>3 DEF NextWindow, few, many
        <4>4. CASE Scheduler = 2 /\ ~few /\ ~(many /\ drain # NoWindow)
          BY <4>4 DEF NextWindow, few, many, n
        <4>5. QED
          BY <4>1, <4>2, <4>3, <4>4
      <3>2. QED
        BY <3>1 DEF n
    <2> HIDE DEF NextWindow
    <2>3. CASE NextWindow = <<drain, readDue>>
      BY <1>1, <2>1, <2>3
    <2>4. CASE NextWindow = <<NoWindow, FALSE>>
      BY <1>1, <2>1, <2>4
    <2>5. CASE NextWindow = <<NoWindow, TRUE>>
      BY <1>1, <2>1, <2>5
    <2>6. CASE NextWindow = <<DrainMaxwait, FALSE>>
      BY <1>1, <2>1, <2>6
    <2>7. CASE NextWindow = <<drain - 1, readDue>> /\ ~(drain <= 1)
      BY <1>1, <2>1, <2>7
    <2>8. QED
      BY <2>2, <2>3, <2>4, <2>5, <2>6, <2>7
  <1>3. /\ QueueInv' /\ ServiceInv' /\ OutstandingWritesExact' /\ Mshr' = Mshr
        /\ RequestsInv'
    BY <1>1, OperationsKept, RequestsKept DEF SameOp
  <1>4. OccupancyBounded' /\ Buffered' = Buffered
    BY <1>1, <1>3, OccupancyKept
  <1>5. todo' \in SUBSET (Page \cup Subarray) /\ pc' \in Phase
    BY <1>1 DEF Phase, Buffered
  <1>6. ControllerTypeOK'
    BY <1>1, <1>2, <1>5 DEF ControllerInv, ControllerTypeOK
  <1>7. LoopInv'
    BY <1>1, <1>4 DEF LoopInv
  <1>8. QED
    BY <1>1, <1>3, <1>4, <1>6, <1>7 DEF ControllerInv, EntriesInv, CacheInv

LEMMA LoopEndStep ==
  ASSUME ControllerInv, FlushesDone \/ EndCycle
  PROVE  ControllerInv'
  <1>1. /\ pc' \in {"idle", "sched", "drain"} /\ issued' = 0
        /\ todo' = {} \/ (pc' = "drain" /\ todo' = Buffered)
        /\ UNCHANGED <<outstanding, wb, wbAge, wbQuiet, mshr, queue, busy, outw,
                       credit, cache, returnq, drain, readDue>>
    BY DEF FlushesDone, EndCycle, bufferVars, windowVars
  <1>2. /\ QueueInv' /\ ServiceInv' /\ OutstandingWritesExact' /\ Mshr' = Mshr
        /\ RequestsInv'
    BY <1>1, OperationsKept, RequestsKept DEF SameOp
  <1>3. OccupancyBounded' /\ Buffered' = Buffered
    BY <1>1, <1>2, OccupancyKept
  <1>4. todo' \in SUBSET (Page \cup Subarray) /\ pc' \in Phase
    BY <1>1 DEF Phase, Buffered
  <1>5. issued' \in Nat
    BY <1>1
  <1>6. ControllerTypeOK'
    BY <1>1, <1>4, <1>5 DEF ControllerInv, ControllerTypeOK
  <1>7. LoopInv'
    BY <1>1, <1>3 DEF LoopInv
  <1>8. QED
    BY <1>1, <1>2, <1>3, <1>6, <1>7 DEF ControllerInv, EntriesInv, CacheInv

\* The scheduler picks an entry that waits in the queue for an idle sub-array.
LEMMA PickedEntry ==
  ASSUME ControllerInv, NEW p, Issue(p)
  PROVE  /\ Picked \in DOMAIN queue /\ p = queue[Picked] /\ p \in Page
         /\ mshr[p] \in Entry /\ EntryOK(p, mshr[p]) /\ Waits(mshr[p])
         /\ ~Served(mshr[p]) /\ InMshr(p) /\ mshr[p].fill = FALSE
         /\ mshr[p].hit = 0 /\ mshr[p].deliver = FALSE /\ mshr[p].op = "waiting"
         /\ FrontWrite(p) <=> mshr[p].write
         /\ busy[SubarrayOf[p]] = 0 /\ Cardinality(Active) < MaxActive
  <1>1. /\ queue \in Seq(Page) /\ DOMAIN queue \subseteq Nat /\ IsInjective(queue)
        /\ ToSet(queue) = {q \in Page : Waits(mshr[q])}
    BY LenProperties DEF ControllerInv, ControllerTypeOK, QueueInv
  <1>2. Candidates # {} /\ Cardinality(Active) < MaxActive /\ p = queue[Picked]
    BY DEF Issue, CanIssue
  <1>3. Picked \in Candidates
    <2>1. Preferred \subseteq Candidates /\ Candidates \subseteq Nat
      BY <1>1 DEF Preferred, Candidates
    <2>2. Preferred \subseteq Nat
      BY <2>1
    <2>3. CASE Preferred # {}
      BY <2>1, <2>2, <2>3, LeastNat DEF Picked
    <2>4. CASE Preferred = {}
      BY <1>2, <2>1, <2>4, LeastNat DEF Picked
    <2>5. QED
      BY <2>3, <2>4
  <1>4. Picked \in DOMAIN queue /\ Schedulable(p)
    BY <1>2, <1>3 DEF Candidates
  <1>5. p \in ToSet(queue)
    BY <1>2, <1>4 DEF ToSet
  <1>6. p \in Page /\ Waits(mshr[p])
    BY <1>1, <1>5
  <1>7. mshr[p] \in Entry /\ EntryOK(p, mshr[p])
    BY <1>6, Types DEF ControllerInv, EntriesInv
  <1>8. /\ mshr[p].deliver = FALSE /\ mshr[p].op = "waiting" /\ mshr[p].hit = 0
        /\ mshr[p].fill = FALSE
    BY <1>6, <1>7, EntryTypes DEF Waits, EntryOK
  <1>9. FrontWrite(p) <=> mshr[p].write
    <2>1. /\ mshr[p].pending \in Seq(Req) /\ mshr[p].pending # <<>>
      BY <1>7, <1>8, EntryTypes DEF EntryOK
    <2>2. Head(mshr[p].pending) \in ToSet(mshr[p].pending)
      BY <2>1, ElementsOfSeq
    <2>3. QED
      BY <1>7, <1>8, <2>1, <2>2 DEF FrontWrite, EntryOK
  <1>10. QED
    BY <1>2, <1>4, <1>6, <1>7, <1>8, <1>9 DEF Schedulable, Served, InMshr

\* An entry of the queue goes to its sub-array.
LEMMA StartStep ==
  ASSUME ControllerInv, NEW p, Issue(p),
         NEW o \in {"reading", "erasing", "programming"},
         o = "reading" <=> ~mshr[p].write,
         o = "erasing" => UseFtl,
         mshr' = [mshr EXCEPT ![p].op = o],
         NEW t \in Nat \ {0}, Occupy(p, t)
  PROVE  /\ EntriesInv' /\ RequestsInv' /\ QueueInv' /\ ServiceInv'
         /\ OutstandingWritesExact' /\ OccupancyBounded' /\ LoopInv'
         /\ mshr' \in [Page -> Entry] /\ queue' \in Seq(Page)
         /\ busy' \in [Subarray -> Nat] /\ issued' \in Nat
         /\ mshr'[p].op = o /\ \A q \in Page : q # p => mshr'[q] = mshr[q]
         /\ UNCHANGED <<pc, todo, outstanding, wb, wbAge, wbQuiet, outw, credit,
                        returnq, drain>>
  <1> DEFINE e == mshr[p]
             f == [e EXCEPT !.op = o]
  <1>1. /\ pc = "sched" /\ queue' = RemoveAt(queue, Picked) /\ issued' = issued + 1
        /\ UNCHANGED <<pc, todo, outstanding, wb, wbAge, wbQuiet, outw, credit,
                       returnq, drain>>
        /\ busy' = [busy EXCEPT ![SubarrayOf[p]] = t]
    BY DEF Issue, bufferVars, Occupy
  <1>2. /\ Picked \in DOMAIN queue /\ p = queue[Picked] /\ p \in Page
        /\ e \in Entry /\ EntryOK(p, e) /\ Waits(e)
        /\ ~Served(e) /\ InMshr(p) /\ e.fill = FALSE
        /\ e.hit = 0 /\ e.deliver = FALSE /\ e.op = "waiting"
        /\ busy[SubarrayOf[p]] = 0 /\ Cardinality(Active) < MaxActive
        /\ mshr \in [Page -> Entry]
    BY PickedEntry, Types DEF ControllerInv
  <1>3. /\ f \in Entry /\ f.op = o /\ f.deliver = e.deliver /\ f.fill = e.fill
        /\ f.write = e.write /\ f.hit = e.hit /\ f.pending = e.pending
    BY <1>2 DEF Entry, Op
  <1>4. mshr' = [mshr EXCEPT ![p] = f]
    OBVIOUS
  <1>5. o = "reading" <=> ~e.write
    OBVIOUS
  <1> HIDE DEF e, f
  <1>6. /\ mshr'[p] = f /\ \A q \in Page : q # p => mshr'[q] = mshr[q]
        /\ mshr' \in [Page -> Entry] /\ mshr[p] = e
    BY <1>2, <1>3, <1>4 DEF e
  <1>7. EntriesInv'
    <2>1. EntryOK(p, f)
      BY <1>2, <1>3, <1>5 DEF EntryOK
    <2>2. QED
      BY <1>6, <2>1 DEF EntriesInv, ControllerInv
  <1>8. ~Waits(mshr'[p]) /\ Served(mshr'[p])
    BY <1>2, <1>3, <1>6 DEF Waits, Served
  <1>9. QueueInv' /\ queue' \in Seq(Page)
    BY <1>1, <1>2, <1>6, <1>8, QueueRemoved
  <1>10. ServiceInv' /\ busy' \in [Subarray -> Nat]
    BY <1>1, <1>2, <1>6, <1>8, ServiceStarted
  <1>11. \A q \in Page : /\ mshr'[q].op = "none" <=> mshr[q].op = "none"
                         /\ mshr'[q].write = mshr[q].write
                         /\ mshr'[q].pending = mshr[q].pending
    BY <1>2, <1>3, <1>6
  <1>12. Mshr' = Mshr /\ RequestsInv'
    BY <1>1, <1>11, RequestsKept DEF Mshr, InMshr
  <1>13. OutstandingWritesExact'
    <2>1. \A c \in Channel : Writes(c)' = Writes(c)
      BY <1>11, <1>12 DEF Writes, Mshr
    <2>2. QED
      BY <1>1, <2>1, WritesKept
  <1>14. OccupancyBounded'
    BY <1>1, <1>12, OccupancyKept
  <1>15. issued' \in Nat
    BY <1>1 DEF ControllerInv, ControllerTypeOK
  <1>16. LoopInv'
    BY <1>1 DEF ControllerInv, LoopInv
  <1>17. QED
    BY <1>1, <1>3, <1>6, <1>7, <1>9, <1>10, <1>12, <1>13, <1>14, <1>15, <1>16

LEMMA IssueWriteStep ==
  ASSUME ControllerInv, NEW p \in Page, IssueErase(p) \/ IssueProgram(p)
  PROVE  ControllerInv'
  <1>1. PICK o \in {"erasing", "programming"} :
          /\ mshr' = [mshr EXCEPT ![p].op = o]
          /\ o = "erasing" => UseFtl
          /\ \E t \in {TBERS, TPROG} : Occupy(p, t)
    <2>1. CASE IssueErase(p)
      BY <2>1 DEF IssueErase, MustErase
    <2>2. CASE IssueProgram(p)
      BY <2>2 DEF IssueProgram
    <2>3. QED
      BY <2>1, <2>2
  <1>2. /\ Issue(p) /\ FrontWrite(p) /\ readDue' = readDue
        /\ cache' = CacheInvalidate(p)
    BY DEF IssueErase, IssueProgram
  <1>3. PICK t \in Nat \ {0} : Occupy(p, t)
    BY <1>1, Numbers
  <1>4. mshr[p].write
    BY <1>2, PickedEntry
  <1>5. /\ EntriesInv' /\ RequestsInv' /\ QueueInv' /\ ServiceInv'
        /\ OutstandingWritesExact' /\ OccupancyBounded' /\ LoopInv'
        /\ mshr' \in [Page -> Entry] /\ queue' \in Seq(Page)
        /\ busy' \in [Subarray -> Nat] /\ issued' \in Nat
        /\ mshr'[p].op = o /\ \A q \in Page : q # p => mshr'[q] = mshr[q]
        /\ UNCHANGED <<pc, todo, outstanding, wb, wbAge, wbQuiet, outw, credit,
                       returnq, drain>>
    <2>1. o \in {"reading", "erasing", "programming"} /\ (o = "reading" <=> ~mshr[p].write)
      BY <1>4
    <2>2. mshr' = [mshr EXCEPT ![p].op = o] /\ (o = "erasing" => UseFtl)
      BY <1>1
    <2>3. QED
      BY <1>2, <1>3, <2>1, <2>2, StartStep
  <1>6. /\ cache' \in Seq(Page) /\ Len(cache') <= CacheEntries /\ IsInjective(cache')
        /\ ToSet(cache') = ToSet(cache) \ {p}
    BY <1>2, CacheOperations
  <1>7. CacheInv'
    <2>1. ToSet(cache) \subseteq Page
      BY Types, ElementsOfSeq DEF ControllerInv
    <2>2. QED
      BY <1>5, <1>6, <2>1 DEF CacheInv, ControllerInv
  <1>8. ControllerTypeOK'
    BY <1>2, <1>5, <1>6 DEF ControllerInv, ControllerTypeOK
  <1>9. QED
    BY <1>5, <1>7, <1>8 DEF ControllerInv

LEMMA IssueReadStep ==
  ASSUME ControllerInv, NEW p \in Page, IssueRead(p)
  PROVE  ControllerInv'
  <1>1. /\ Issue(p) /\ ~FrontWrite(p) /\ readDue' = FALSE /\ cache' = cache
        /\ mshr' = [mshr EXCEPT ![p].op = "reading"]
        /\ \E t \in {TBUFF, TR} : Occupy(p, t)
    BY DEF IssueRead
  <1>2. PICK t \in Nat \ {0} : Occupy(p, t)
    BY <1>1, Numbers
  <1>3. ~mshr[p].write
    BY <1>1, PickedEntry
  <1>4. /\ EntriesInv' /\ RequestsInv' /\ QueueInv' /\ ServiceInv'
        /\ OutstandingWritesExact' /\ OccupancyBounded' /\ LoopInv'
        /\ mshr' \in [Page -> Entry] /\ queue' \in Seq(Page)
        /\ busy' \in [Subarray -> Nat] /\ issued' \in Nat
        /\ mshr'[p].op = "reading" /\ \A q \in Page : q # p => mshr'[q] = mshr[q]
        /\ UNCHANGED <<pc, todo, outstanding, wb, wbAge, wbQuiet, outw, credit,
                       returnq, drain>>
    <2> DEFINE o == "reading"
    <2>1. o \in {"reading", "erasing", "programming"} /\ o # "erasing" /\ o = "reading"
      OBVIOUS
    <2>2. mshr' = [mshr EXCEPT ![p].op = o]
      BY <1>1
    <2> HIDE DEF o
    <2>3. QED
      BY <1>1, <1>2, <1>3, <2>1, <2>2, StartStep
  <1>5. CacheInv'
    <2>1. ToSet(cache) \subseteq Page
      BY Types, ElementsOfSeq DEF ControllerInv
    <2>2. QED
      BY <1>1, <1>4, <2>1 DEF CacheInv, ControllerInv
  <1>6. ControllerTypeOK'
    BY <1>1, <1>4 DEF ControllerInv, ControllerTypeOK
  <1>7. QED
    BY <1>4, <1>5, <1>6 DEF ControllerInv

LEMMA IssueHitStep ==
  ASSUME ControllerInv, NEW p \in Page, IssueHit(p)
  PROVE  ControllerInv'
  <1> DEFINE e == mshr[p]
             n == Max({CacheHitLatency, 1})
             f == [e EXCEPT !.hit = n]
  <1>1. /\ Issue(p) /\ ~FrontWrite(p) /\ readDue' = FALSE /\ Contains(cache, p)
        /\ cache' = <<p>> \o CacheInvalidate(p)
        /\ mshr' = [mshr EXCEPT ![p] = f] /\ busy' = busy
        /\ pc = "sched" /\ queue' = RemoveAt(queue, Picked) /\ issued' = issued + 1
        /\ UNCHANGED <<pc, todo, outstanding, wb, wbAge, wbQuiet, outw, credit,
                       returnq, drain>>
    BY DEF IssueHit, Issue, bufferVars
  <1>2. /\ Picked \in DOMAIN queue /\ p = queue[Picked]
        /\ e \in Entry /\ EntryOK(p, e) /\ Waits(e)
        /\ ~Served(e) /\ e.fill = FALSE
        /\ e.hit = 0 /\ e.deliver = FALSE /\ e.op = "waiting" /\ ~e.write
        /\ mshr \in [Page -> Entry]
    BY <1>1, PickedEntry, Types DEF ControllerInv
  <1>3. n \in Nat \ {0}
    <2>1. n = IF CacheHitLatency >= 1 THEN CacheHitLatency ELSE 1
      BY Numbers, MaxOfTwo
    <2> HIDE DEF n
    <2>2. QED
      BY <2>1, Numbers
  <1> HIDE DEF n
  <1>4. /\ f \in Entry /\ f.op = e.op /\ f.deliver = e.deliver /\ f.fill = e.fill
        /\ f.write = e.write /\ f.hit = n /\ f.pending = e.pending
    BY <1>2, <1>3 DEF Entry
  <1> HIDE DEF e, f
  <1>5. /\ mshr'[p] = f /\ \A q \in Page : q # p => mshr'[q] = mshr[q]
        /\ mshr' \in [Page -> Entry] /\ mshr[p] = e
    BY <1>1, <1>2, <1>4 DEF e
  <1>6. EntriesInv'
    <2>1. EntryOK(p, f)
      BY <1>2, <1>3, <1>4 DEF EntryOK
    <2>2. QED
      BY <1>5, <2>1 DEF EntriesInv, ControllerInv
  <1>7. ~Waits(mshr'[p]) /\ ~Served(mshr'[p])
    BY <1>2, <1>3, <1>4, <1>5 DEF Waits, Served
  <1>8. QueueInv' /\ queue' \in Seq(Page)
    BY <1>1, <1>2, <1>5, <1>7, QueueRemoved
  <1>9. ServiceInv'
    BY <1>1, <1>2, <1>5, <1>7, ServiceKept
  <1>10. \A q \in Page : /\ mshr'[q].op = mshr[q].op
                         /\ mshr'[q].write = mshr[q].write
                         /\ mshr'[q].pending = mshr[q].pending
    BY <1>2, <1>4, <1>5
  <1>11. Mshr' = Mshr /\ RequestsInv'
    BY <1>1, <1>10, RequestsKept DEF Mshr, InMshr
  <1>12. OutstandingWritesExact'
    <2>1. \A c \in Channel : Writes(c)' = Writes(c)
      BY <1>10, <1>11 DEF Writes, Mshr
    <2>2. QED
      BY <1>1, <2>1, WritesKept
  <1>13. OccupancyBounded'
    BY <1>1, <1>11, OccupancyKept
  <1>14. /\ cache' \in Seq(Page) /\ Len(cache') <= CacheEntries /\ IsInjective(cache')
         /\ ToSet(cache') = ToSet(cache)
    <2>1. p \in ToSet(cache)
      BY <1>1, Types, ElementsOfSeq DEF ControllerInv
    <2>2. QED
      BY <1>1, <2>1, CacheOperations
  <1>15. CacheInv'
    <2>1. ToSet(cache) \subseteq Page
      BY Types, ElementsOfSeq DEF ControllerInv
    <2>2. QED
      BY <1>10, <1>14, <2>1 DEF CacheInv, ControllerInv
  <1>16. issued' \in Nat
    BY <1>1 DEF ControllerInv, ControllerTypeOK
  <1>17. ControllerTypeOK'
    BY <1>1, <1>5, <1>8, <1>14, <1>16 DEF ControllerInv, ControllerTypeOK
  <1>18. LoopInv'
    BY <1>1 DEF ControllerInv, LoopInv
  <1>19. QED
    BY <1>6, <1>8, <1>9, <1>11, <1>12, <1>13, <1>15, <1>17, <1>18 DEF ControllerInv

LEMMA ControllerInvStep ==
  ASSUME ControllerInv, FtlPart, [Next]_vars
  PROVE  ControllerInv'
  <1>1. CASE UNCHANGED vars
    <2>1. UNCHANGED <<pc, todo, issued, outstanding, wb, wbAge, wbQuiet, mshr, queue,
                      busy, outw, credit, cache, returnq, drain, readDue>>
      BY <1>1 DEF vars
    <2>2. ControllerTypeOK'
      BY <2>1 DEF ControllerInv, ControllerTypeOK
    <2>3. /\ QueueInv' /\ ServiceInv' /\ OutstandingWritesExact' /\ Mshr' = Mshr
          /\ RequestsInv'
      BY <2>1, OperationsKept, RequestsKept DEF SameOp
    <2>4. OccupancyBounded' /\ Buffered' = Buffered
      BY <2>1, <2>3, OccupancyKept
    <2>5. LoopInv'
      <3>1. Active' = Active
        BY <2>1 DEF Active
      <3>2. QED
        BY <2>1, <2>4, <3>1 DEF ControllerInv, LoopInv
    <2>6. QED
      BY <2>1, <2>2, <2>3, <2>4, <2>5 DEF ControllerInv, EntriesInv, CacheInv
  <1>2. CASE Push
    <2>1. PICK r \in Req : \/ BufferWrite(r) \/ CompletePage(r)
                           \/ ReadBuffered(r) \/ ReadCoalesce(r) \/ ReadMiss(r)
      BY <1>2 DEF Push
    <2>2. QED
      BY <2>1, BufferWriteStep, CompletePageStep, ReadBufferedStep,
         ReadCoalesceStep, ReadMissStep
  <1>3. CASE PopReturn
    BY <1>3, PopReturnStep
  <1>4. CASE Tick
    BY <1>4, TickStep
  <1>5. CASE Advance
    <2>1. CASE \E s \in Subarray : MediaAdvance(s) \/ EraseComplete(s) \/ AccessComplete(s)
      BY <2>1, MediaAdvanceStep, EraseCompleteStep, AccessCompleteStep
    <2>2. CASE CacheHitsReady
      BY <2>2, CacheHitsReadyStep
    <2>3. CASE \E p \in Page : DeliverNoRoom(p) \/ DeliverStalled(p) \/ DeliverRequest(p)
      BY <2>3, DeliverNoRoomStep, DeliverStalledStep, DeliverRequestStep
    <2>4. CASE UpdateWindow
      BY <2>4, UpdateWindowStep
    <2>5. CASE \E p \in Page : FlushNext(p)
      BY <2>5, FlushNextStep
    <2>6. CASE FlushesDone \/ EndCycle
      BY <2>6, LoopEndStep
    <2>7. CASE \E p \in Page :
                 IssueErase(p) \/ IssueProgram(p) \/ IssueHit(p) \/ IssueRead(p)
      BY <2>7, IssueWriteStep, IssueReadStep, IssueHitStep
    <2>8. QED
      BY <1>5, <2>1, <2>2, <2>3, <2>4, <2>5, <2>6, <2>7 DEF Advance
  <1>6. QED
    BY <1>1, <1>2, <1>3, <1>4, <1>5 DEF Next

=============================================================================
