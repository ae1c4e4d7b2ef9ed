---------------------------- MODULE HBFNoCoalesce ----------------------------
(***************************************************************************)
(* The HBF controller with hbf_mshr_enabled = 0: every read and every      *)
(* flushed page is an entry of its own, whose key in m_mshr is made of the *)
(* page number and the number of requests pushed so far, by a shift and an *)
(* OR. Several entries of a page can then be in flight.                    *)
(*                                                                         *)
(* HBFController.tla has the timing; here a flush, a schedule, the end of  *)
(* a media operation and a delivery happen at any time. One channel with   *)
(* ample bandwidth, direct addressing (no erase), no page cache, the       *)
(* timeout policy that programs incomplete pages.                          *)
(***************************************************************************)
EXTENDS SequencesExt

CONSTANTS
  LogicalPage,             \* logical pages, by number
  PageSubarray,            \* sub-array of each page
  Req,                     \* requests, each is pushed at most once
  ReqPage, IsWrite, Half,  \* page, kind and the halves of the page it writes
  KeyShift,                \* 20 in the code: bits of a key below the page
  BitOr(_, _),             \* the bitwise OR of two numbers
  MaxOutstanding,          \* hbf_max_outstanding, 0 = unlimited
  MaxOutstandingWrites,    \* hbf_max_outstanding_writes
  WriteBufferMax,          \* m_write_buffer_max
  MaxActive,               \* hbf_max_active
  ReturnCap                \* capacity of the return queue

ASSUME NoCoalesceAssumption ==
  /\ LogicalPage \subseteq Nat /\ IsFiniteSet(LogicalPage) /\ IsFiniteSet(Req)
  /\ \A p \in LogicalPage, n \in 0 .. Cardinality(Req) : BitOr(p * 2 ^ KeyShift, n) \in Nat
  /\ {KeyShift, WriteBufferMax, MaxActive, ReturnCap} \subseteq Nat \ {0}
  /\ {MaxOutstanding, MaxOutstandingWrites} \subseteq Nat
  /\ ReqPage \in [Req -> LogicalPage] /\ IsWrite \in [Req -> BOOLEAN]
  /\ Half \in [Req -> SUBSET {1, 2}]

VARIABLES
  pushed,  \* requests so far; n_total_requests is their number
  ctl,     \* the tables, see Tables
  todo,    \* buffered pages flush_write_buffer() has still to visit
  returnq, \* the return queue
  done     \* requests the caller has got back

vars == <<pushed, ctl, todo, returnq, done>>

\* The first operand of the OR is shifted; nothing keeps the second below it.
Key(p, n) == BitOr(p * 2 ^ KeyShift, n)

Subarray == {PageSubarray[p] : p \in LogicalPage}

Entry  == [page : LogicalPage, write : BOOLEAN, pending : Seq(Req),
           op : {"waiting", "active", "deliver"}]
Tables == [wb    : [LogicalPage -> Seq(Req)],  \* m_write_buffer
           mshr  : UNION {[K -> Entry] : K \in SUBSET Nat},
           queue : Seq(Nat),            \* m_mshr_queue
           outw  : Nat,                 \* n_outstanding_writes
           nand  : SUBSET Subarray]     \* m_active_subarrays

BufferedPages(t) == {p \in LogicalPage : t.wb[p] # <<>>}
PageFull(t, p) == UNION {Half[r] : r \in ToSet(t.wb[p])} = {1, 2}

\* The serialization looks for the bare page number among the keys.
FlushAllowed(t, p, force) ==
  /\ t.wb[p] # <<>>
  /\ force \/ t.outw < MaxOutstandingWrites
  /\ p \notin DOMAIN t.mshr

\* An entry that is there already is replaced.
Insert(t, k, e) ==
  [t EXCEPT !.mshr  = [j \in DOMAIN @ \cup {k} |-> IF j = k THEN e ELSE @[j]],
            !.queue = Append(@, k)]

\* flush_write_buffer_entry() after n requests.
FlushEntry(t, p, force, n) ==
  IF ~FlushAllowed(t, p, force) THEN t
  ELSE [Insert(t, Key(p, n), [page |-> p, write |-> TRUE,
                              pending |-> t.wb[p], op |-> "waiting"])
          EXCEPT !.wb[p] = <<>>, !.outw = @ + 1]

Init ==
  /\ pushed = {} /\ todo = {} /\ returnq = <<>> /\ done = {}
  /\ ctl = [wb |-> [p \in LogicalPage |-> <<>>], mshr |-> <<>>, queue |-> <<>>, outw |-> 0,
             nand |-> {}]

-----------------------------------------------------------------------------
(* push()                                                                  *)
MayPush(r) ==
  /\ r \notin pushed
  /\ \/ MaxOutstanding = 0
     \/ Cardinality(DOMAIN ctl.mshr) + Cardinality(BufferedPages(ctl)) < MaxOutstanding

PushCount == Cardinality(pushed) + 1

BufferWrite(r) ==
  LET p       == ReqPage[r]
      t       == [ctl EXCEPT !.wb[p] = Append(@, r)]
      isNew   == p \notin BufferedPages(ctl)
      atLimit == Cardinality(BufferedPages(t)) >= WriteBufferMax
  IN /\ MayPush(r) /\ IsWrite[r]
     /\ pushed' = pushed \cup {r}
     /\ ctl' = IF PageFull(t, p) THEN FlushEntry(t, p, FALSE, PushCount) ELSE t
     /\ todo' = IF ~PageFull(t, p) /\ isNew /\ atLimit THEN BufferedPages(t) ELSE {}
     /\ UNCHANGED <<returnq, done>>

\* The loop of flush_write_buffer(), in the order of the map.
FlushNext ==
  /\ todo # {}
  /\ ctl' = FlushEntry(ctl, Min(todo), FALSE, Cardinality(pushed))
  /\ todo' = todo \ {Min(todo)}
  /\ UNCHANGED <<pushed, returnq, done>>

\* The entries a read of p joins while writes of p stay in the buffer.
Joinable(t, p) ==
  {k \in DOMAIN t.mshr : t.mshr[k].page = p /\ IsWrite[Head(t.mshr[k].pending)]}

EnterRead(r) ==
  LET p    == ReqPage[r]
      t    == FlushEntry(ctl, p, TRUE, PushCount)
      join == IF p \in BufferedPages(t) THEN Joinable(t, p) ELSE {}
  IN /\ MayPush(r) /\ ~IsWrite[r]
     /\ pushed' = pushed \cup {r}
     /\ ctl' = IF join # {}
                 THEN [t EXCEPT !.mshr[Min(join)].pending = Append(@, r)]
                 ELSE Insert(t, Key(p, PushCount), [page |-> p, write |-> FALSE,
                                                    pending |-> <<r>>, op |-> "waiting"])
     /\ UNCHANGED <<todo, returnq, done>>

-----------------------------------------------------------------------------
(* cycle()                                                                 *)
\* By timeout, or by the idle drain: a page leaves the buffer.
FlushPage(p) ==
  /\ FlushAllowed(ctl, p, FALSE)
  /\ ctl' = FlushEntry(ctl, p, FALSE, Cardinality(pushed))
  /\ UNCHANGED <<pushed, todo, returnq, done>>

\* A key whose entry is gone, or busy, stays in the queue.
Schedulable(i) ==
  LET k == ctl.queue[i]
  IN /\ k \in DOMAIN ctl.mshr /\ ctl.mshr[k].op = "waiting"
     /\ PageSubarray[ctl.mshr[k].page] \notin ctl.nand

\* The next key leaves the queue with the one that is issued.
Issued_Bug(i) == SubSeq(ctl.queue, 1, i - 1) \o SubSeq(ctl.queue, i + 2, Len(ctl.queue))

Issued(i) == RemoveAt(ctl.queue, i)

Issue(i) ==
  /\ Schedulable(i) /\ Cardinality(ctl.nand) < MaxActive
  /\ ctl' = [ctl EXCEPT !.mshr[ctl.queue[i]].op = "active", !.queue = Issued(i),
                        !.nand = @ \cup {PageSubarray[ctl.mshr[ctl.queue[i]].page]}]
  /\ UNCHANGED <<pushed, todo, returnq, done>>

\* The sub-array looks for its entry, which may be gone.
MediaDone(s) ==
  /\ s \in ctl.nand
  /\ ctl' = [ctl EXCEPT !.nand = @ \ {s},
       !.mshr = [k \in DOMAIN @ |->
         IF @[k].op = "active" /\ PageSubarray[@[k].page] = s
           THEN [@[k] EXCEPT !.op = "deliver"] ELSE @[k]]]
  /\ UNCHANGED <<pushed, todo, returnq, done>>

\* Every retired entry releases a write.
Released_Bug(k) == IF ctl.outw > 0 THEN ctl.outw - 1 ELSE 0

Released(k) == IF ctl.mshr[k].write /\ ctl.outw > 0 THEN ctl.outw - 1 ELSE ctl.outw

Undelivered(k) == Tail(ctl.mshr[k].pending)

Deliver(k) ==
  /\ k \in DOMAIN ctl.mshr /\ ctl.mshr[k].op = "deliver" /\ Len(returnq) < ReturnCap
  /\ returnq' = Append(returnq, Head(ctl.mshr[k].pending))
  /\ ctl' = IF Undelivered(k) = <<>>
              THEN [ctl EXCEPT !.mshr = [j \in DOMAIN @ \ {k} |-> @[j]],
                               !.outw = Released(k)]
              ELSE [ctl EXCEPT !.mshr[k].pending = Undelivered(k)]
  /\ UNCHANGED <<pushed, todo, done>>

PopReturn ==
  /\ returnq # <<>>
  /\ returnq' = Tail(returnq) /\ done' = done \cup {Head(returnq)}
  /\ UNCHANGED <<pushed, ctl, todo>>

PushRequest == \E r \in Req : BufferWrite(r) \/ EnterRead(r)

DeviceCycle ==
  \/ \E p \in LogicalPage : FlushPage(p)
  \/ \E i \in DOMAIN ctl.queue : Issue(i)
  \/ \E s \in Subarray : MediaDone(s)
  \/ \E k \in DOMAIN ctl.mshr : Deliver(k)

\* Nothing comes between the flushes of one call.
Work == FlushNext \/ (todo = {} /\ DeviceCycle)

Next == Work \/ (todo = {} /\ (PushRequest \/ PopReturn))

Spec == Init /\ [][Next]_vars

\* The device is clocked while it has work and the caller takes completions.
FairSpec == Spec /\ WF_vars(Work) /\ WF_vars(todo = {} /\ PopReturn)

-----------------------------------------------------------------------------
TypeOK ==
  /\ pushed \subseteq Req /\ done \subseteq pushed /\ todo \subseteq LogicalPage
  /\ returnq \in Seq(Req) /\ Len(returnq) <= ReturnCap
  /\ ctl.wb \in [LogicalPage -> Seq(Req)] /\ ctl.outw \in Nat /\ ctl.queue \in Seq(Nat)
  /\ ctl.nand \subseteq Subarray
  /\ DOMAIN ctl.mshr \subseteq Nat
  /\ \A k \in DOMAIN ctl.mshr : ctl.mshr[k] \in Entry /\ ctl.mshr[k].pending # <<>>

\* Where requests are kept, and in which order.
Places == ({"buffer"} \X LogicalPage) \cup ({"entry"} \X DOMAIN ctl.mshr) \cup {<<"return", 0>>}
Held(x) == CASE x[1] = "buffer" -> ctl.wb[x[2]]
             [] x[1] = "entry"  -> ctl.mshr[x[2]].pending
             [] x[1] = "return" -> returnq

\* No request is at two places, or twice at one: none is answered twice,
\* although the entries of a page multiply.
AtOnePlace ==
  /\ \A x \in Places : IsInjective(Held(x)) /\ ToSet(Held(x)) \cap done = {}
  /\ \A x, y \in Places : x # y => ToSet(Held(x)) \cap ToSet(Held(y)) = {}

\* The schedule reads only m_mshr_queue: an entry that waits is in it, also
\* after another entry was put under its key, so that none is stranded.
WaitingIsQueued ==
  \A k \in DOMAIN ctl.mshr : ctl.mshr[k].op = "waiting" => k \in ToSet(ctl.queue)

\* The counter of outstanding writes never falls below the write entries, so
\* that without forced flushes the limit of the channel holds.
OutstandingWritesCovered ==
  ctl.outw >= Cardinality({k \in DOMAIN ctl.mshr : ctl.mshr[k].write})

\* The entries of a page, however many and under whatever keys, answer no
\* request twice, leave none waiting unseen and are all counted.
EntriesSound == TypeOK /\ AtOnePlace /\ WaitingIsQueued /\ OutstandingWritesCovered

\* Every read is answered, whatever becomes of the writes; that is, while no
\* page number is the key of another page (page 0 has such keys), as then
\* no flush is ever refused for an entry in flight.
ReadsAnswered == \A r \in Req : ~IsWrite[r] => ((r \in pushed) ~> (r \in done))

\* hbf_controller.cc:481-486: entries are not created over others, which
\* would silently lose their pending requests.
NothingLost ==
  \A r \in pushed :
    \/ r \in done \/ r \in ToSet(returnq)
    \/ \E p \in LogicalPage : r \in ToSet(ctl.wb[p])
    \/ \E k \in DOMAIN ctl.mshr : r \in ToSet(ctl.mshr[k].pending)
=============================================================================
