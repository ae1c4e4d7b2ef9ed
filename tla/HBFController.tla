---------------------------- MODULE HBFController ---------------------------
(***************************************************************************)
(* The HBF controller of one cube (hbf_controller.cc) with page MSHR       *)
(* coalescing on: write buffer, MSHR, FIFO queue, sub-array scheduling,    *)
(* page cache, per-channel link credit and the return queue, over the FTL  *)
(* of HBFFtl.tla.                                                          *)
(*                                                                         *)
(* push(), cycle() and return_queue_pop() are called by one thread and     *)
(* never interleave. cycle() is long, so it is a sequence of steps between *)
(* two states with pc = "idle", in the order of the code, one loop         *)
(* iteration per step; no push or pop can happen in between:               *)
(*                                                                         *)
(*   idle -Tick-> media -> deliver -> timeout -> sched -> [drain] -> idle  *)
(*                                                                         *)
(* A push that finds the write buffer full goes through "drain" as well.   *)
(*                                                                         *)
(* Abstractions. Ticks are kept as ages and countdowns that saturate where *)
(* the code stops telling them apart. A request is an element of Req whose *)
(* page, direction and covered sectors are constants; its mem_fetch can be *)
(* pushed again once it was returned. Reads all move the same number of    *)
(* bytes, ReadCost. A page-buffer hit only shortens a read, so a read      *)
(* takes TBUFF or TR.                                                      *)
(*                                                                         *)
(* Operators named X_Bug are wrong variants of X that no specification     *)
(* uses: they show which property notices the mistake.                     *)
(***************************************************************************)
EXTENDS HBFFtl, SequencesExt

CONSTANTS
  Req, PageOf, IsWrite,  \* requests, the page each one touches, its direction
  Sector, Covers,        \* sectors of a page; sectors each write covers
  Channel, ChannelOf,    \* host channels, the channel of each page
  UseFtl,                \* hbf_ftl_enabled
  MaxOutstanding,        \* hbf_max_outstanding, 0 = unlimited
  MaxOutstandingWrites,  \* hbf_max_outstanding_writes, per channel
  WriteBufferMax,        \* hbf_write_buffer_entries
  AggTimeout,            \* hbf_write_agg_timeout
  StrictWrites,          \* hbf_write_timeout_policy = 1
  IdleQuiet,             \* ticks without writes before the idle drain (100)
  Scheduler,             \* 0 FCFS, 1 read priority, 2 write drain
  DrainHigh, DrainMaxwait, \* hbf_write_drain_high, hbf_write_drain_maxwait
  AggReads,              \* hbf_read_mode = 1
  ReadAggWindow,         \* hbf_read_agg_window
  ReadAggThreshold,      \* hbf_read_agg_threshold, in requests
  MaxActive,             \* hbf_max_active
  TBUFF, TR, TPROG, TBERS, \* sub-array timings
  CacheEntries, CacheHitLatency,
  ReturnCap,             \* capacity of the return queue
  ReadCost, LinkBw       \* bytes of a read reply, link bytes per tick

ASSUME ControllerAssumption ==
  /\ PageOf \in [Req -> Page] /\ IsWrite \in [Req -> BOOLEAN]
  /\ Covers \in [Req -> SUBSET Sector]
  /\ ChannelOf \in [Page -> Channel] /\ Subarray \subseteq Nat
  /\ {UseFtl, StrictWrites, AggReads} \subseteq BOOLEAN
  /\ {MaxOutstanding, MaxOutstandingWrites, AggTimeout, IdleQuiet,
      DrainMaxwait, ReadAggWindow, CacheEntries, CacheHitLatency,
      ReadCost, LinkBw} \subseteq Nat
  /\ {WriteBufferMax, DrainHigh, ReadAggThreshold, MaxActive,
      TBUFF, TR, TPROG, TBERS, ReturnCap} \subseteq Nat \ {0}
  /\ Scheduler \in 0 .. 2

VARIABLES
  pc,           \* phase of cycle(), or "fatal" after fail_fast()
  todo,         \* loop cursor: keys the current phase has still to visit
  issued,       \* loop counter of schedule_operations()
  outstanding,  \* requests pushed and not yet popped (the caller's view)
  wb,           \* m_write_buffer: requests buffered for each page
  wbAge,        \* ticks since first_arrival_tick of each buffered page
  wbQuiet,      \* ticks since last_arrival_tick of each buffered page
  mshr,         \* m_mshr
  queue,        \* m_mshr_queue
  busy,         \* ticks left on each sub-array, 0 when idle
  outw,         \* n_outstanding_writes of each channel
  credit,       \* m_credit_bytes of each channel
  cache,        \* the page cache, most recently used first
  returnq,      \* m_returnq
  drain,        \* ticks left of the write window, NoWindow when closed
  readDue,      \* m_write_drain_read_due
  ftl,          \* m_ftl
  nand          \* programmed offsets of each block (auxiliary, see HBFMedia)

bufferVars == <<wb, wbAge, wbQuiet>>
windowVars == <<drain, readDue>>
vars == <<pc, todo, issued, outstanding, wb, wbAge, wbQuiet, mshr, queue, busy,
          outw, credit, cache, returnq, drain, readDue, ftl, nand>>

NoWindow  == -1
MaxCredit == Max({LinkBw, ReadCost})

(***************************************************************************)
(* MSHR entries (mshr_entry_t). hit counts down to the cache-hit delivery. *)
(***************************************************************************)
Op == {"none", "waiting", "reading", "erasing", "programming"}

Entry == [op : Op, deliver : BOOLEAN, fill : BOOLEAN, agg : BOOLEAN,
          write : BOOLEAN, hit : Nat, age : Nat, pending : Seq(Req),
          phys : Addr]

WaitingEntry(reqs, write, agg, addr) ==
  [op |-> "waiting", deliver |-> FALSE, fill |-> FALSE, agg |-> agg,
   write |-> write, hit |-> 0, age |-> 0, pending |-> reqs, phys |-> addr]

NoEntry == [WaitingEntry(<<>>, FALSE, FALSE, Unmapped) EXCEPT !.op = "none"]

InMshr(p)     == mshr[p].op # "none"
Mshr          == {p \in Page : InMshr(p)}
Buffered      == {p \in Page : wb[p] # <<>>}
Active        == {s \in Subarray : busy[s] > 0}
FrontWrite(p) == mshr[p].pending # <<>> /\ IsWrite[Head(mshr[p].pending)]

\* full(): buffered pages count, so a full MSHR cannot hide behind them.
Full ==
  MaxOutstanding # 0
    /\ Cardinality(Mshr) + Cardinality(Buffered) >= MaxOutstanding

HasWork ==
  \/ Mshr # {} \/ queue # <<>> \/ Buffered # {}
  \/ Active # {} \/ returnq # <<>>

\* coverage.full(): the buffered writes cover every byte of the page.
PageFull(reqs) == UNION {Covers[r] : r \in ToSet(reqs)} = Sector

-----------------------------------------------------------------------------
Init ==
  /\ pc = "idle" /\ todo = {} /\ issued = 0
  /\ outstanding = {}
  /\ wb = [p \in Page |-> <<>>]
  /\ wbAge = [p \in Page |-> 0] /\ wbQuiet = [p \in Page |-> 0]
  /\ mshr = [p \in Page |-> NoEntry] /\ queue = <<>>
  /\ busy = [s \in Subarray |-> 0]
  /\ outw = [c \in Channel |-> 0] /\ credit = [c \in Channel |-> 0]
  /\ cache = <<>> /\ returnq = <<>>
  /\ drain = NoWindow /\ readDue = FALSE
  /\ ftl = FtlInit /\ nand = [b \in Block |-> {}]

(***************************************************************************)
(* flush_write_buffer_entry(page, force), for a page whose buffered        *)
(* requests are reqs. Attached are read requests the caller adds to the    *)
(* entry right away. A refused flush leaves the requests buffered.         *)
(***************************************************************************)
\* The operation in flight for the page is not looked up.
FlushAllowed_Bug(p, force) ==
  force \/ outw[ChannelOf[p]] < MaxOutstandingWrites

FlushAllowed(p, force) ==
  /\ ~InMshr(p)
  /\ force \/ outw[ChannelOf[p]] < MaxOutstandingWrites

\* The write policy is not checked.
FlushFatal_Bug(p, reqs) == UseFtl /\ FtlWrites(ftl, p) = {}

FlushFatal(p, reqs) ==
  \/ StrictWrites /\ ~PageFull(reqs)
  \/ UseFtl /\ FtlWrites(ftl, p) = {}

FlushEntry(p, reqs, attached) ==
  /\ ~FlushFatal(p, reqs)
  /\ IF UseFtl THEN ftl' \in FtlWrites(ftl, p) ELSE ftl' = ftl
  /\ LET addr == IF UseFtl THEN ftl'.map[p] ELSE PseudoAddr(p)
     IN mshr' = [mshr EXCEPT
                   ![p] = WaitingEntry(reqs \o attached, TRUE, FALSE, addr)]
  /\ queue' = Append(queue, p)
  /\ outw' = [outw EXCEPT ![ChannelOf[p]] = @ + 1]
  /\ wb' = [wb EXCEPT ![p] = <<>>]
  /\ wbAge' = [wbAge EXCEPT ![p] = 0]
  /\ wbQuiet' = [wbQuiet EXCEPT ![p] = 0]

\* fail_fast(): the process exits.
Terminate ==
  /\ pc' = "fatal"
  /\ UNCHANGED <<todo, issued, outstanding, bufferVars, mshr, queue, busy, outw,
                 credit, cache, returnq, windowVars, ftl, nand>>

-----------------------------------------------------------------------------
(* push(): the caller has checked full() and owns the request.             *)

MayPush(r) ==
  /\ pc = "idle"
  /\ r \notin outstanding
  /\ ~Full

\* A write joins its page's buffer entry; a completed page is flushed at
\* once, and a new entry that fills the buffer flushes every page.
BufferWrite(r) ==
  LET p    == PageOf[r]
      reqs == Append(wb[p], r)
      new  == wb[p] = <<>>
      last == Cardinality(Buffered \cup {p}) >= WriteBufferMax
      flushAll == new /\ ~PageFull(reqs) /\ last
  IN /\ MayPush(r) /\ IsWrite[r]
     /\ ~(PageFull(reqs) /\ FlushAllowed(p, FALSE))
     /\ wb' = [wb EXCEPT ![p] = reqs]
     /\ wbQuiet' = [wbQuiet EXCEPT ![p] = 0]
     /\ pc' = IF flushAll THEN "drain" ELSE "idle"
     /\ todo' = IF flushAll THEN Buffered \cup {p} ELSE {}
     /\ outstanding' = outstanding \cup {r}
     /\ UNCHANGED <<issued, wbAge, mshr, queue, busy, outw, credit, cache,
                    returnq, windowVars, ftl, nand>>

CompletePage(r) ==
  LET p    == PageOf[r]
      reqs == Append(wb[p], r)
  IN /\ MayPush(r) /\ IsWrite[r]
     /\ PageFull(reqs) /\ FlushAllowed(p, FALSE)
     /\ \/ FlushFatal(p, reqs) /\ Terminate
        \/ /\ FlushEntry(p, reqs, <<>>)
           /\ outstanding' = outstanding \cup {r}
           /\ UNCHANGED <<pc, todo, issued, busy, credit, cache, returnq,
                          windowVars, nand>>

\* A read of a buffered page forces the buffered writes into the MSHR, past
\* the outstanding-write limit, and coalesces onto them.
ReadBuffered(r) ==
  LET p == PageOf[r]
  IN /\ MayPush(r) /\ ~IsWrite[r]
     /\ wb[p] # <<>> /\ FlushAllowed(p, TRUE)
     /\ \/ FlushFatal(p, wb[p]) /\ Terminate
        \/ /\ FlushEntry(p, wb[p], <<r>>)
           /\ outstanding' = outstanding \cup {r}
           /\ UNCHANGED <<pc, todo, issued, busy, credit, cache, returnq,
                          windowVars, nand>>

\* A read joins the operation in flight for its page; with writes of the
\* page still buffered the forced flush was refused just before.
ReadCoalesce(r) ==
  LET p == PageOf[r]
  IN /\ MayPush(r) /\ ~IsWrite[r]
     /\ InMshr(p)
     /\ mshr' = [mshr EXCEPT
          ![p].pending = Append(@, r),
          ![p].agg = @ /\ Len(mshr[p].pending) + 1 < ReadAggThreshold]
     /\ outstanding' = outstanding \cup {r}
     /\ UNCHANGED <<pc, todo, issued, bufferVars, queue, busy, outw, credit,
                    cache, returnq, windowVars, ftl, nand>>

ReadMiss(r) ==
  LET p == PageOf[r]
  IN /\ MayPush(r) /\ ~IsWrite[r]
     /\ wb[p] = <<>> /\ ~InMshr(p)
     /\ mshr' = [mshr EXCEPT
          ![p] = WaitingEntry(<<r>>, FALSE, AggReads /\ 1 < ReadAggThreshold,
                              IF UseFtl THEN ReadAddr(ftl, p)
                                        ELSE PseudoAddr(p))]
     /\ queue' = Append(queue, p)
     /\ outstanding' = outstanding \cup {r}
     /\ UNCHANGED <<pc, todo, issued, bufferVars, busy, outw, credit, cache,
                    returnq, windowVars, ftl, nand>>

Push ==
  \E r \in Req : \/ BufferWrite(r) \/ CompletePage(r)
                 \/ ReadBuffered(r) \/ ReadCoalesce(r) \/ ReadMiss(r)

\* return_queue_pop(): the caller takes a completion.
PopReturn ==
  /\ pc = "idle" /\ returnq # <<>>
  /\ returnq' = Tail(returnq)
  /\ outstanding' = outstanding \ {Head(returnq)}
  /\ UNCHANGED <<pc, todo, issued, bufferVars, mshr, queue, busy, outw, credit,
                 cache, windowVars, ftl, nand>>

-----------------------------------------------------------------------------
(* cycle()                                                                 *)

Older(age, bound) == IF age < bound THEN age + 1 ELSE age

\* Only the request count releases an aggregated read.
ReleaseAggregated_Bug(e) == e

\* An aggregated read is scheduled when its window has passed.
ReleaseAggregated(e) ==
  IF ~e.agg THEN e
  ELSE IF e.age + 1 >= ReadAggWindow
    THEN [e EXCEPT !.agg = FALSE, !.age = 0]
    ELSE [e EXCEPT !.age = @ + 1]

\* The tick advances, aggregated reads are released by their window, and
\* every channel's token bucket is replenished.
Tick ==
  /\ pc = "idle"
  /\ wbAge' = [p \in Page |-> IF p \in Buffered
                                THEN Older(wbAge[p], AggTimeout + 1) ELSE 0]
  /\ wbQuiet' = [p \in Page |-> IF p \in Buffered
                                  THEN Older(wbQuiet[p], IdleQuiet + 1) ELSE 0]
  /\ mshr' = [p \in Page |-> ReleaseAggregated(mshr[p])]
  /\ credit' = [c \in Channel |-> Min({credit[c] + LinkBw, MaxCredit})]
  /\ pc' = "media" /\ todo' = Active
  /\ UNCHANGED <<issued, outstanding, wb, queue, busy, outw, cache, returnq,
                 windowVars, ftl, nand>>

\* Step 1: advance the active sub-arrays in ascending order. One that turns
\* idle finds the entry it was serving by a search of the MSHR.
Serving(s) ==
  {p \in Page : /\ mshr[p].op \notin {"none", "waiting"}
                /\ SubarrayOf[p] = s /\ ~mshr[p].deliver}

StepSubarray(s) ==
  /\ pc = "media" /\ todo # {} /\ s = Min(todo)
  /\ busy' = [busy EXCEPT ![s] = @ - 1]
  /\ todo' = todo \ {s}
  /\ UNCHANGED <<pc, issued, outstanding, bufferVars, outw, credit, cache,
                 returnq, windowVars, nand>>

MediaAdvance(s) ==
  /\ StepSubarray(s)
  /\ busy[s] > 1 \/ Serving(s) = {}
  /\ UNCHANGED <<mshr, queue, ftl>>

\* The page of the erased block is not queued again.
EraseComplete_Bug(s) ==
  LET p == Min(Serving(s))
  IN /\ StepSubarray(s)
     /\ busy[s] = 1 /\ Serving(s) # {} /\ mshr[p].op = "erasing"
     /\ ftl' = MarkBlockErased(ftl, mshr[p].phys.blk)
     /\ mshr' = [mshr EXCEPT ![p].op = "waiting"]
     /\ UNCHANGED queue

\* The finished erase is taken for the finished write.
EraseComplete_BugDone(s) ==
  LET p == Min(Serving(s))
  IN /\ StepSubarray(s)
     /\ busy[s] = 1 /\ Serving(s) # {} /\ mshr[p].op = "erasing"
     /\ ftl' = MarkBlockErased(ftl, mshr[p].phys.blk)
     /\ mshr' = [mshr EXCEPT ![p].deliver = TRUE]
     /\ UNCHANGED queue

\* The erased block's page is queued again, now to be programmed.
EraseComplete(s) ==
  LET p == Min(Serving(s))
  IN /\ StepSubarray(s)
     /\ busy[s] = 1 /\ Serving(s) # {} /\ mshr[p].op = "erasing"
     /\ ftl' = MarkBlockErased(ftl, mshr[p].phys.blk)
     /\ mshr' = [mshr EXCEPT ![p].op = "waiting"]
     /\ queue' = Append(queue, p)

AccessComplete(s) ==
  LET p == Min(Serving(s))
  IN /\ StepSubarray(s)
     /\ busy[s] = 1 /\ Serving(s) # {} /\ mshr[p].op # "erasing"
     /\ mshr' = [mshr EXCEPT ![p].fill = (mshr[p].op = "reading"),
                             ![p].deliver = TRUE]
     /\ UNCHANGED <<queue, ftl>>

\* Cache hits that are ready join the finished operations.
CacheHitsReady ==
  /\ pc = "media" /\ todo = {}
  /\ mshr' = [p \in Page |->
       IF mshr[p].hit > 0
         THEN [mshr[p] EXCEPT !.hit = @ - 1, !.deliver = (mshr[p].hit = 1)]
         ELSE mshr[p]]
  /\ pc' = "deliver" /\ todo' = {p \in Page : mshr'[p].deliver}
  /\ UNCHANGED <<issued, outstanding, bufferVars, queue, busy, outw, credit,
                 cache, returnq, windowVars, ftl, nand>>

\* Step 2: deliver, page by page in ascending order, as many requests as the
\* return queue and the link take. Write replies cost no link bytes.
CacheInsert(p) ==
  IF CacheEntries = 0 THEN cache
  ELSE LET rest == RemoveFirst(cache, p)
       IN <<p>> \o SubSeq(rest, 1, Min({Len(rest), CacheEntries - 1}))

\* One completion too many.
ReturnRoom_Bug == Len(returnq) <= ReturnCap

ReturnRoom == Len(returnq) < ReturnCap

\* Retired reads release a write of their channel.
ReleaseWrite_Bug(p) ==
  outw' = [outw EXCEPT ![ChannelOf[p]] = IF @ > 0 THEN @ - 1 ELSE @]

ReleaseWrite(p) ==
  outw' = [outw EXCEPT ![ChannelOf[p]] =
             IF mshr[p].write /\ @ > 0 THEN @ - 1 ELSE @]

\* The wrong end of the list is removed.
Undelivered_Bug(p) == Front(mshr[p].pending)

Undelivered(p) == Tail(mshr[p].pending)

Cost(r) == IF IsWrite[r] THEN 0 ELSE ReadCost

DeliverNoRoom(p) ==
  /\ pc = "deliver" /\ todo # {} /\ p = Min(todo)
  /\ ~ReturnRoom
  /\ todo' = todo \ {p}
  /\ UNCHANGED <<pc, issued, outstanding, bufferVars, mshr, queue, busy, outw,
                 credit, cache, returnq, windowVars, ftl, nand>>

DeliverStalled(p) ==
  /\ pc = "deliver" /\ todo # {} /\ p = Min(todo)
  /\ ReturnRoom
  /\ Cost(Head(mshr[p].pending)) > credit[ChannelOf[p]]
  /\ cache' = IF mshr[p].fill THEN CacheInsert(p) ELSE cache
  /\ mshr' = [mshr EXCEPT ![p].fill = FALSE]
  /\ todo' = todo \ {p}
  /\ UNCHANGED <<pc, issued, outstanding, bufferVars, queue, busy, outw, credit,
                 returnq, windowVars, ftl, nand>>

DeliverRequest(p) ==
  LET r    == Head(mshr[p].pending)
      rest == Undelivered(p)
      c    == ChannelOf[p]
  IN /\ pc = "deliver" /\ todo # {} /\ p = Min(todo)
     /\ ReturnRoom
     /\ Cost(r) <= credit[c]
     /\ cache' = IF mshr[p].fill THEN CacheInsert(p) ELSE cache
     /\ credit' = [credit EXCEPT ![c] = @ - Cost(r)]
     /\ returnq' = Append(returnq, r)
     /\ IF rest = <<>>
          THEN /\ mshr' = [mshr EXCEPT ![p] = NoEntry]
               /\ ReleaseWrite(p)
               /\ todo' = todo \ {p}
          ELSE /\ mshr' = [mshr EXCEPT ![p].fill = FALSE, ![p].pending = rest]
               /\ UNCHANGED <<outw, todo>>
     /\ UNCHANGED <<pc, issued, outstanding, bufferVars, queue, busy,
                    windowVars, ftl, nand>>

\* Step 3a2: the write window (hbf_update_write_drain) under scheduler 2.
PendingWrites ==
  Cardinality(Buffered)
    + Cardinality({i \in DOMAIN queue :
                     mshr[queue[i]].op = "waiting" /\ FrontWrite(queue[i])})

NextWindow ==
  CASE Scheduler # 2 -> <<drain, readDue>>
    [] Scheduler = 2 /\ PendingWrites < DrainHigh -> <<NoWindow, FALSE>>
    [] Scheduler = 2 /\ PendingWrites >= DrainHigh /\ drain # NoWindow ->
         IF drain <= 1 THEN <<NoWindow, TRUE>> ELSE <<drain - 1, readDue>>
    [] OTHER -> IF readDue THEN <<drain, readDue>> ELSE <<DrainMaxwait, FALSE>>

UpdateWindow ==
  /\ pc = "deliver" /\ todo = {}
  /\ drain' = NextWindow[1] /\ readDue' = NextWindow[2]
  /\ pc' = "timeout" /\ todo' = {p \in Buffered : wbAge[p] > AggTimeout}
  /\ UNCHANGED <<issued, outstanding, bufferVars, mshr, queue, busy, outw,
                 credit, cache, returnq, ftl, nand>>

\* Step 3b, and flush_write_buffer(): visit the listed pages in ascending
\* order; a refused page stays buffered.
FlushNext(p) ==
  /\ pc \in {"timeout", "drain"} /\ todo # {} /\ p = Min(todo)
  /\ \/ FlushAllowed(p, FALSE) /\ FlushFatal(p, wb[p]) /\ Terminate
     \/ /\ FlushAllowed(p, FALSE)
        /\ FlushEntry(p, wb[p], <<>>)
        /\ todo' = todo \ {p}
        /\ UNCHANGED <<pc, issued, outstanding, busy, credit, cache, returnq,
                       windowVars, nand>>
     \/ /\ ~FlushAllowed(p, FALSE)
        /\ todo' = todo \ {p}
        /\ UNCHANGED <<pc, issued, outstanding, bufferVars, mshr, queue, busy,
                       outw, credit, cache, returnq, windowVars, ftl, nand>>

FlushesDone ==
  /\ pc \in {"timeout", "drain"} /\ todo = {}
  /\ pc' = IF pc = "timeout" THEN "sched" ELSE "idle"
  /\ issued' = 0
  /\ UNCHANGED <<todo, outstanding, bufferVars, mshr, queue, busy, outw, credit,
                 cache, returnq, windowVars, ftl, nand>>

(***************************************************************************)
(* Step 4: schedule_operations(). hbf_pick_schedule_candidate takes the    *)
(* first schedulable entry of the preferred direction, then the first one  *)
(* of any; entries of a busy sub-array are skipped.                        *)
(***************************************************************************)
Schedulable(p) ==
  /\ mshr[p].op = "waiting" /\ mshr[p].pending # <<>>
  /\ ~mshr[p].agg
  /\ busy[SubarrayOf[p]] = 0

PreferReads == Scheduler = 1 \/ (Scheduler = 2 /\ drain = NoWindow)

Candidates == {i \in DOMAIN queue : Schedulable(queue[i])}
Preferred  == {i \in Candidates :
                 Scheduler = 0 \/ FrontWrite(queue[i]) = ~PreferReads}

CanIssue ==
  /\ issued < MaxActive /\ Cardinality(Active) < MaxActive
  /\ Candidates # {}

\* The newest entry first.
Picked_Bug == Max(Candidates)

Picked == IF Preferred # {} THEN Min(Preferred) ELSE Min(Candidates)

\* The picked entry leaves the queue.
Issue(p) ==
  /\ pc = "sched" /\ CanIssue /\ p = queue[Picked]
  /\ queue' = RemoveAt(queue, Picked)
  /\ issued' = issued + 1
  /\ UNCHANGED <<pc, todo, outstanding, bufferVars, outw, credit, returnq,
                 drain>>

Occupy(p, ticks) == busy' = [busy EXCEPT ![SubarrayOf[p]] = ticks]

\* Issued writes leave the cached page in place.
CacheInvalidate_Bug(p) == cache

CacheInvalidate(p) == RemoveFirst(cache, p)

\* Blocks are never erased.
MustErase_Bug(p) == FALSE

MustErase(p) == UseFtl /\ ~IsBlockErased(ftl, mshr[p].phys.blk)

IssueErase(p) ==
  /\ Issue(p) /\ FrontWrite(p) /\ MustErase(p)
  /\ cache' = CacheInvalidate(p)
  /\ ftl' = MarkBlockErasing(ftl, mshr[p].phys.blk)
  /\ nand' = [nand EXCEPT ![mshr[p].phys.blk] = {}]
  /\ mshr' = [mshr EXCEPT ![p].op = "erasing"]
  /\ Occupy(p, TBERS)
  /\ UNCHANGED readDue

IssueProgram(p) ==
  /\ Issue(p) /\ FrontWrite(p) /\ ~MustErase(p)
  /\ cache' = CacheInvalidate(p)
  /\ nand' = IF UseFtl
               THEN [nand EXCEPT ![mshr[p].phys.blk] = @ \cup {mshr[p].phys.off}]
               ELSE nand
  /\ mshr' = [mshr EXCEPT ![p].op = "programming"]
  /\ Occupy(p, TPROG)
  /\ UNCHANGED <<ftl, readDue>>

\* A hit is promoted and completes later without the sub-array; the entry
\* stays OP_WAITING, out of the queue.
IssueHit(p) ==
  /\ Issue(p) /\ ~FrontWrite(p) /\ Contains(cache, p)
  /\ cache' = <<p>> \o CacheInvalidate(p)
  /\ mshr' = [mshr EXCEPT ![p].hit = Max({CacheHitLatency, 1})]
  /\ readDue' = FALSE
  /\ UNCHANGED <<busy, ftl, nand>>

IssueRead(p) ==
  /\ Issue(p) /\ ~FrontWrite(p) /\ ~Contains(cache, p)
  /\ mshr' = [mshr EXCEPT ![p].op = "reading"]
  /\ \E t \in {TBUFF, TR} : Occupy(p, t)
  /\ readDue' = FALSE
  /\ UNCHANGED <<cache, ftl, nand>>

(***************************************************************************)
(* Step 5: with nothing in flight and no write for a quiet period, the     *)
(* buffered pages are flushed so that tail writes are not dropped.         *)
(***************************************************************************)
IdleDrain ==
  /\ Buffered # {} /\ Mshr = {} /\ queue = <<>>
  /\ \A p \in Buffered : wbQuiet[p] > IdleQuiet

EndCycle ==
  /\ pc = "sched" /\ ~CanIssue
  /\ pc' = IF IdleDrain THEN "drain" ELSE "idle"
  /\ todo' = IF IdleDrain THEN Buffered ELSE {}
  /\ issued' = 0
  /\ UNCHANGED <<outstanding, bufferVars, mshr, queue, busy, outw, credit,
                 cache, returnq, windowVars, ftl, nand>>

Advance ==
  \/ \E s \in Subarray : MediaAdvance(s) \/ EraseComplete(s) \/ AccessComplete(s)
  \/ CacheHitsReady
  \/ \E p \in Page : DeliverNoRoom(p) \/ DeliverStalled(p) \/ DeliverRequest(p)
  \/ UpdateWindow
  \/ \E p \in Page : FlushNext(p)
  \/ FlushesDone
  \/ \E p \in Page :
       IssueErase(p) \/ IssueProgram(p) \/ IssueHit(p) \/ IssueRead(p)
  \/ EndCycle

Next == Push \/ PopReturn \/ Tick \/ Advance

Spec == Init /\ [][Next]_vars

(***************************************************************************)
(* The GPU's DRAM tick runs a started cycle() to its end, calls cycle()    *)
(* whenever the device reports work, and drains completions. Pushes come   *)
(* from the kernels and are not fair.                                      *)
(***************************************************************************)
Fairness ==
  /\ WF_vars(Advance)
  /\ SF_vars(HasWork /\ Tick)
  /\ SF_vars(PopReturn)

FairSpec == Spec /\ Fairness
=============================================================================
