--------------------------- MODULE HBFProperties ----------------------------
(***************************************************************************)
(* What the controller must guarantee, stated over HBFController.tla.      *)
(***************************************************************************)
EXTENDS HBFController

(***************************************************************************)
(* Types of the state, with the capacities the code promises: of the       *)
(* return queue, the page cache, the token buckets and the write window.   *)
(***************************************************************************)
Phase == {"idle", "media", "deliver", "timeout", "sched", "drain", "fatal"}

ControllerTypeOK ==
  /\ pc \in Phase
  /\ todo \in SUBSET (Page \cup Subarray)
  /\ issued \in Nat
  /\ outstanding \in SUBSET Req
  /\ wb \in [Page -> Seq(Req)]
  /\ wbAge \in [Page -> 0 .. AggTimeout + 1]
  /\ wbQuiet \in [Page -> 0 .. IdleQuiet + 1]
  /\ mshr \in [Page -> Entry]
  /\ queue \in Seq(Page)
  /\ busy \in [Subarray -> Nat]
  /\ outw \in [Channel -> Nat] /\ credit \in [Channel -> 0 .. MaxCredit]
  /\ cache \in Seq(Page) /\ Len(cache) <= CacheEntries
  /\ returnq \in Seq(Req) /\ Len(returnq) <= ReturnCap
  /\ drain \in NoWindow .. DrainMaxwait /\ readDue \in BOOLEAN

TypeOK ==
  /\ ControllerTypeOK
  /\ ftl \in FtlState
  /\ nand \in [Block -> SUBSET Nat]

-----------------------------------------------------------------------------
(***************************************************************************)
(* No request is lost, duplicated or answered twice: a request the caller  *)
(* waits for sits exactly once in the write buffer, the MSHR or the return *)
(* queue, through coalescing, refused flushes and partial deliveries; a    *)
(* request nobody waits for is nowhere. (push, flush_write_buffer_entry,   *)
(* the delivery loop of cycle.)                                            *)
(***************************************************************************)
Positions(seq, r) == {i \in DOMAIN seq : seq[i] = r}

Places(r) ==
  LET buffered == UNION {{<<"wb", p, i>> : i \in Positions(wb[p], r)} : p \in Page}
      inFlight == UNION {{<<"mshr", p, i>> : i \in Positions(mshr[p].pending, r)}
                           : p \in Page}
      returned == {<<"return", 0, i>> : i \in Positions(returnq, r)}
  IN buffered \cup inFlight \cup returned

ExactlyOnce ==
  \A r \in Req :
    Cardinality(Places(r)) = IF r \in outstanding THEN 1 ELSE 0

(***************************************************************************)
(* The FIFO and the MSHR agree: a page is queued at most once, and exactly *)
(* when its entry waits for a sub-array (not for a cache hit or delivery). *)
(* A missing key is an entry that is never served, the write-path deadlock *)
(* the erase-completion comment of cycle() describes.                      *)
(***************************************************************************)
QueueMatchesMshr ==
  /\ \A i, j \in DOMAIN queue : queue[i] = queue[j] => i = j
  /\ \A p \in Page :
       Contains(queue, p)
         <=> mshr[p].op = "waiting" /\ mshr[p].hit = 0 /\ ~mshr[p].deliver

(***************************************************************************)
(* A busy sub-array serves exactly one entry and an idle one none, so the  *)
(* search by which a completion finds its entry never picks another one;   *)
(* the power limit max_active is never exceeded.                           *)
(***************************************************************************)
OneServedPerActive ==
  /\ \A s \in Subarray :
       Cardinality(Serving(s)) = IF busy[s] > 0 THEN 1 ELSE 0
  /\ Cardinality(Active) <= MaxActive

(***************************************************************************)
(* Queue, MSHR and sub-arrays tell the same of every operation: what waits *)
(* is queued, what is served is served once, and nothing is in between.    *)
(***************************************************************************)
SchedulerConsistent == QueueMatchesMshr /\ OneServedPerActive

(***************************************************************************)
(* n_outstanding_writes, kept by increments at flush and decrements at     *)
(* retirement, counts the write entries of its channel; it exceeds the     *)
(* product limit only by forced read-after-write flushes.                  *)
(***************************************************************************)
OutstandingWritesExact ==
  \A c \in Channel :
    outw[c] = Cardinality({p \in Mshr : mshr[p].write /\ ChannelOf[p] = c})

(***************************************************************************)
(* full() bounds the unique pages the device holds, buffered or in flight, *)
(* although only the caller checks it and a push may move pages.           *)
(***************************************************************************)
OccupancyBounded ==
  MaxOutstanding # 0 =>
    Cardinality(Mshr) + Cardinality(Buffered) <= MaxOutstanding

(***************************************************************************)
(* has_work() is exact: the GPU stops clocking an idle device, so a        *)
(* waiting request must show as work, and work must end with the requests. *)
(***************************************************************************)
WorkIffOutstanding == pc # "fatal" => (HasWork <=> outstanding # {})

(***************************************************************************)
(* What push and full() admit, what flushes wait for and what keeps the    *)
(* device clocked are counters and sums kept beside the entries: all of    *)
(* them agree with the entries in every state between two calls.           *)
(***************************************************************************)
CountersExact == OutstandingWritesExact /\ OccupancyBounded /\ WorkIffOutstanding

(***************************************************************************)
(* The page cache never serves a page that is being overwritten: the entry *)
(* was dropped when the write was issued and no late read re-inserts it.   *)
(***************************************************************************)
CacheNotStale ==
  \A p \in ToSet(cache) : mshr[p].op \notin {"erasing", "programming"}

(***************************************************************************)
(* A write is acknowledged only when its page is on the media.             *)
(***************************************************************************)
WriteAckedAfterProgram ==
  [][\A p \in Page :
       mshr[p].write /\ mshr'[p].pending # mshr[p].pending
         => \/ Len(mshr'[p].pending) > Len(mshr[p].pending)
            \/ mshr[p].phys.off \in nand[mshr[p].phys.blk]]_vars

(***************************************************************************)
(* Under the strict write policy no partially covered page is programmed,  *)
(* whichever path flushed it: timeout, full buffer, idle drain or a read.  *)
(***************************************************************************)
StrictProgramsFullPages ==
  StrictWrites =>
    \A p \in Page : mshr[p].op = "programming" /\ ~mshr[p].deliver
                      => PageFull(mshr[p].pending)

(***************************************************************************)
(* The controller implements the media protocol of HBFMedia.tla.           *)
(***************************************************************************)
StageOf(p) ==
  CASE ~InMshr(p) -> "none"
    [] InMshr(p) /\ (mshr[p].deliver \/ mshr[p].hit > 0) -> "done"
    [] mshr[p].op = "waiting" /\ ~mshr[p].deliver /\ mshr[p].hit = 0 ->
         IF mshr[p].write THEN "write" ELSE "read"
    [] OTHER -> mshr[p].op

Media == INSTANCE HBFMedia
           WITH flight <- [p \in Page |-> StageOf(p)],
                phys <- [p \in Page |-> mshr[p].phys]

ImplementsMedia == Media!MediaSpec

(***************************************************************************)
(* The controller is the device HBFSystem.tla is built on: whatever way a  *)
(* request takes inside, it is handed back once, through a return queue    *)
(* that never overflows and never reorders what it holds.                  *)
(***************************************************************************)
Device == INSTANCE HBFDevice WITH held <- outstanding, ready <- returnq

ImplementsDevice == Device!DeviceSpec

(***************************************************************************)
(* Once the kernels stop pushing, every request is answered: timeouts and  *)
(* the idle drain flush what is buffered, every operation is scheduled and *)
(* delivered through a full return queue and a slow link.                  *)
(***************************************************************************)
Drains == []<><<Push>>_vars \/ <>(pc = "fatal") \/ <>[](outstanding = {})

(***************************************************************************)
(* hbf_controller.h:300-301: "Reads never starve indefinitely: a write     *)
(* window lasts at most hbf_write_drain_maxwait DRAM ticks."               *)
(***************************************************************************)
ReadsNeverStarve ==
  \A r \in Req :
    ~IsWrite[r] => ((r \in outstanding) ~> (r \notin outstanding))
=============================================================================
