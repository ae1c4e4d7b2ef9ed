------------------------------ MODULE HBFSystem ------------------------------
(***************************************************************************)
(* The HBF system of a GPU: the L2 sub-partitions hand requests over to    *)
(* the memory partitions, these admit them to the stacks (cubes) of the    *)
(* system, and completions travel back through the return buffers of the   *)
(* cubes to the sub-partition they came from.                              *)
(*                                                                         *)
(*   waiting[p] -Admit-> held[s] -Complete-> ready[s] -Collect->           *)
(*              returns[s][p] -DrainReturns-> reply[p] -Consume->          *)
(*                                                                         *)
(* One DRAM tick of the GPU is a sequence of steps between two states with *)
(* pc = "idle": all stacks are clocked when the system is busy, then the   *)
(* partitions are visited in rotating order, each drains its completions   *)
(* and admits at most one request:                                         *)
(*                                                                         *)
(*   idle -BeginTick-> device -Collect-> returns <-> admit -> idle         *)
(*                                                                         *)
(* A cube's controller is the abstract device of HBFDevice.tla. The L2,    *)
(* its queues and the arbitration credits of a partition are GPGPU-Sim's,  *)
(* modelled from how the integration patch uses them. Counters that are    *)
(* only printed (routed, completed requests) are left out.                 *)
(***************************************************************************)
EXTENDS SequencesExt

CONSTANTS
  NumPartitions,   \* m_n_mem
  SubsPer,         \* m_n_sub_partition_per_memory_channel
  NumStacks,       \* hbf_num_stacks
  Req,             \* requests (mem_fetch objects)
  SourceOf,        \* sub-partition of each request
  GpuPage,         \* page of the GPU address of each request
  IsWriteback,     \* L1_WRBK_ACC or L2_WRBK_ACC
  MaxOutstanding,  \* hbf_max_outstanding of a stack, 0 = unlimited
  ReturnCap,       \* gpgpu_dram_return_queue_size, at least 1
  RouteAll,        \* hbf_route_all: one stack rewrites addresses too
  L2Depth,         \* room of a sub-partition's L2-to-DRAM queue
  ReplyDepth,      \* room of its DRAM-to-L2 queue
  SharedLimit      \* shared credits of a partition, 0 = unlimited

Partition == 0 .. NumPartitions - 1
SubPart   == 0 .. NumPartitions * SubsPer - 1
Stack     == 0 .. NumStacks - 1
NoStack   == -1
NoPart    == -1

ASSUME SystemAssumption ==
  /\ {NumPartitions, SubsPer, NumStacks, ReturnCap, L2Depth, ReplyDepth}
       \subseteq Nat \ {0}
  /\ {MaxOutstanding, SharedLimit} \subseteq Nat
  /\ SourceOf \in [Req -> SubPart] /\ GpuPage \in [Req -> Nat]
  /\ IsWriteback \in [Req -> BOOLEAN] /\ RouteAll \in BOOLEAN

VARIABLES
  pc,        \* phase of the tick
  cur,       \* stack or offset the loop is at
  admitted,  \* partition that admitted last in this tick, or NoPart
  waiting,   \* L2-to-DRAM queue of each sub-partition
  held,      \* per stack: requests in its controller
  ready,     \* per stack: the controller's return queue
  returns,   \* per stack and sub-partition: m_returns
  count,     \* per stack: m_return_count
  saved,     \* keys of m_original_addresses
  addr,      \* page of the address each request carries now
  stackRR,   \* m_return_rr_next of each sub-partition
  partRR,    \* m_hbf_partition_rr_next
  private,   \* private credit of each sub-partition in use
  shared,    \* shared credits of each partition in use
  borrower,  \* m_last_borrower of each partition
  reply      \* DRAM-to-L2 queue of each sub-partition

tickVars   == <<pc, cur, admitted, partRR>>
deviceVars == <<held, ready>>
cubeVars   == <<returns, count>>
addrVars   == <<saved, addr>>
creditVars == <<private, shared, borrower>>
vars == <<pc, cur, admitted, waiting, held, ready, returns, count, saved, addr,
          stackRR, partRR, private, shared, borrower, reply>>

PartOf(p) == p \div SubsPer
Subs(m)   == {p \in SubPart : PartOf(p) = m}
Rewrites  == NumStacks > 1 \/ RouteAll

\* map_relative_address with page interleaving; HBFMapping has all the maps.
StackAt(a) == a % NumStacks
LocalAt(a) == a \div NumStacks

\* full() of the addressed stack: with a page for every request, the pages in
\* its write buffer and MSHR are the requests it has not completed.
Full(s) == MaxOutstanding # 0
             /\ Cardinality(held[s] \ ToSet(ready[s])) >= MaxOutstanding

CubeBusy(s) == held[s] # {} \/ \E p \in SubPart : returns[s][p] # <<>>

Busy == (\E s \in Stack : CubeBusy(s)) \/ saved # {}

Init ==
  /\ pc = "idle" /\ cur = 0 /\ admitted = NoPart
  /\ waiting = [p \in SubPart |-> <<>>]
  /\ held = [s \in Stack |-> {}] /\ ready = [s \in Stack |-> <<>>]
  /\ returns = [s \in Stack |-> [p \in SubPart |-> <<>>]]
  /\ count = [s \in Stack |-> 0]
  /\ saved = {} /\ addr = GpuPage
  /\ stackRR = [p \in SubPart |-> 0] /\ partRR = 0
  /\ private = [p \in SubPart |-> 0]
  /\ shared = [m \in Partition |-> 0]
  /\ borrower = [m \in Partition |-> SubsPer - 1]
  /\ reply = [p \in SubPart |-> <<>>]

-----------------------------------------------------------------------------
(***************************************************************************)
(* The L2 (external). A writeback is never answered.                       *)
(***************************************************************************)
Returning(s) == UNION {ToSet(returns[s][p]) : p \in SubPart}
InSystem     == UNION {held[s] \cup Returning(s) : s \in Stack}
AtL2         == UNION {ToSet(waiting[p]) \cup ToSet(reply[p]) : p \in SubPart}
Known        == InSystem \cup AtL2

Send(r) ==
  LET p == SourceOf[r]
  IN /\ pc = "idle" /\ r \notin Known /\ Len(waiting[p]) < L2Depth
     /\ waiting' = [waiting EXCEPT ![p] = Append(@, r)]
     /\ UNCHANGED <<tickVars, deviceVars, cubeVars, addrVars, stackRR,
                    creditVars, reply>>

Consume(p) ==
  /\ pc = "idle" /\ reply[p] # <<>>
  /\ reply' = [reply EXCEPT ![p] = Tail(@)]
  /\ UNCHANGED <<tickVars, waiting, deviceVars, cubeVars, addrVars, stackRR,
                 creditVars>>

(***************************************************************************)
(* gpgpu_sim::cycle: clock the stacks, then visit the partitions.          *)
(***************************************************************************)
BeginTick ==
  /\ pc = "idle"
  /\ pc' = IF Busy THEN "device" ELSE "returns"
  /\ cur' = 0 /\ admitted' = NoPart
  /\ UNCHANGED <<waiting, deviceVars, cubeVars, addrVars, stackRR, partRR,
                 creditVars, reply>>

\* hbf_cube_t::cycle, the controller's part: HBFDevice's Complete.
Complete(r) ==
  /\ pc = "device" /\ r \in held[cur] \ ToSet(ready[cur])
  /\ Len(ready[cur]) < ReturnCap
  /\ ready' = [ready EXCEPT ![cur] = Append(@, r)]
  /\ UNCHANGED <<tickVars, waiting, held, cubeVars, addrVars, stackRR,
                 creditVars, reply>>

\* collect_returns stops when the return buffer of the cube is full.
Collected(s) ==
  CHOOSE n \in 0 .. Len(ready[s]) :
    /\ count[s] + n <= ReturnCap
    /\ n = Len(ready[s]) \/ count[s] + n = ReturnCap

\* The controller's queue is popped before the room is looked at.
Left_Bug(s) == SubSeq(ready[s], Collected(s) + 2, Len(ready[s]))

Left(s) == SubSeq(ready[s], Collected(s) + 1, Len(ready[s]))

\* A set of positions in order, and the elements of a queue there.
InOrder(S) == [k \in 1 .. Cardinality(S) |->
                 CHOOSE i \in S : Cardinality({j \in S : j <= i}) = k]
Picked(q, S) == [k \in 1 .. Cardinality(S) |-> q[InOrder(S)[k]]]

\* One queue for each partition.
Sorted_Bug(q, p) == Picked(q, {i \in DOMAIN q : PartOf(SourceOf[q[i]]) = p})

\* m_returns is sorted by get_sub_partition_id().
Sorted(q, p) == Picked(q, {i \in DOMAIN q : SourceOf[q[i]] = p})

Collect ==
  /\ pc = "device"
  /\ LET first == SubSeq(ready[cur], 1, Collected(cur))
     IN /\ ready' = [ready EXCEPT ![cur] = Left(cur)]
        /\ held' = [held EXCEPT ![cur] = @ \ ToSet(first)]
        /\ returns' = [returns EXCEPT ![cur] = [p \in SubPart |-> @[p] \o Sorted(first, p)]]
        /\ count' = [count EXCEPT ![cur] = @ + Len(first)]
  /\ pc' = IF cur + 1 = NumStacks THEN "returns" ELSE "device"
  /\ cur' = IF cur + 1 = NumStacks THEN 0 ELSE cur + 1
  /\ UNCHANGED <<admitted, waiting, addrVars, stackRR, partRR, creditVars,
                 reply>>

(***************************************************************************)
(* memory_partition_unit::hbf_cycle of the partition that is visited.      *)
(***************************************************************************)
Visited == (partRR + cur) % NumPartitions

\* pop_return_for: the next stack in turn that has a completion for p.
Turn(p, s) == (s - stackRR[p] + NumStacks) % NumStacks

\* Only the stack at the cursor is asked.
Popped_Bug(p) == IF returns[stackRR[p]][p] = <<>> THEN NoStack ELSE stackRR[p]

Popped(p) == LET some == {s \in Stack : returns[s][p] # <<>>}
             IN IF some = {} THEN NoStack
                ELSE CHOOSE s \in some : \A t \in some : Turn(p, s) <= Turn(p, t)

\* The sub-partitions that take a completion in this visit, and which.
Drained == {p \in Subs(Visited) : Len(reply[p]) < ReplyDepth /\ Popped(p) # NoStack}
HeadFor(p) == Head(returns[Popped(p)][p])

\* Writebacks are answered in set_done, the others to the L2.
Answered == {p \in Drained : ~IsWriteback[HeadFor(p)]}

\* The credit is returned along with the answer to the L2.
Repaid_Bug == Answered

\* set_done returns the credit of a writeback.
Repaid == Drained

\* pop_return_for restores the GPU address of what it returns.
Restored == IF Rewrites THEN {HeadFor(p) : p \in Drained} ELSE {}

\* return_credit gives the private credit back first.
DrainReturns ==
  /\ pc = "returns"
  /\ returns' = [s \in Stack |-> [p \in SubPart |->
        IF p \in Drained /\ Popped(p) = s THEN Tail(returns[s][p]) ELSE returns[s][p]]]
  /\ count' = [s \in Stack |->
        count[s] - Cardinality({p \in Drained : Popped(p) = s})]
  /\ stackRR' = [p \in SubPart |->
        IF p \in Drained THEN (Popped(p) + 1) % NumStacks ELSE stackRR[p]]
  /\ saved' = saved \ Restored
  /\ addr' = [r \in Req |-> IF r \in Restored THEN GpuPage[r] ELSE addr[r]]
  /\ reply' = [p \in SubPart |->
        IF p \in Answered THEN Append(reply[p], HeadFor(p)) ELSE reply[p]]
  /\ private' = [p \in SubPart |-> IF p \in Repaid THEN 0 ELSE private[p]]
  /\ shared' = [shared EXCEPT ![Visited] =
                  @ - Cardinality({p \in Repaid : private[p] = 0})]
  /\ pc' = "admit"
  /\ UNCHANGED <<cur, admitted, waiting, deviceVars, partRR, borrower>>

HasCredit(p) == \/ private[p] = 0
                \/ SharedLimit = 0
                \/ shared[PartOf(p)] < SharedLimit

\* The head of p's queue can be issued and its stack has room.
Admissible(p) == /\ waiting[p] # <<>> /\ HasCredit(p)
                 /\ Len(reply[p]) < ReplyDepth
                 /\ ~Full(StackAt(addr[Head(waiting[p])]))

\* The scan of a partition starts after its last borrower.
Order(p)  == (p - borrower[PartOf(p)] - 1 + 2 * SubsPer) % SubsPer
Chosen(m) == LET some == {p \in Subs(m) : Admissible(p)}
             IN CHOOSE p \in some : \A q \in some : Order(p) <= Order(q)

\* The cursor moves on in every tick, the variant the code's comment rules out.
NextPartition_Bug(last) == (partRR + 1) % NumPartitions

\* The cursor moves behind the last partition that admitted in this tick.
NextPartition(last) == IF last = NoPart THEN partRR ELSE (last + 1) % NumPartitions

\* On to the next partition; last is the one that admitted last.
EndVisit(last) ==
  IF cur + 1 = NumPartitions
    THEN /\ pc' = "idle" /\ cur' = 0 /\ admitted' = NoPart
         /\ partRR' = NextPartition(last)
    ELSE /\ pc' = "returns" /\ cur' = cur + 1 /\ admitted' = last
         /\ UNCHANGED partRR

\* hbf_system_t::push saves the GPU address and rewrites it.
Admit ==
  /\ pc = "admit" /\ \E p \in Subs(Visited) : Admissible(p)
  /\ LET p == Chosen(Visited)
         r == Head(waiting[p])
         s == StackAt(addr[r])
     IN /\ waiting' = [waiting EXCEPT ![p] = Tail(@)]
        /\ held' = [held EXCEPT ![s] = @ \cup {r}]
        /\ saved' = IF Rewrites THEN saved \cup {r} ELSE saved
        /\ addr' = IF Rewrites THEN [addr EXCEPT ![r] = LocalAt(@)] ELSE addr
        /\ private' = [private EXCEPT ![p] = 1]
        /\ shared' = [shared EXCEPT ![Visited] = IF private[p] = 0 THEN @ ELSE @ + 1]
        /\ borrower' = [borrower EXCEPT ![Visited] = p % SubsPer]
  /\ EndVisit(Visited)
  /\ UNCHANGED <<ready, cubeVars, stackRR, reply>>

NoAdmission ==
  /\ pc = "admit" /\ \A p \in Subs(Visited) : ~Admissible(p)
  /\ EndVisit(admitted)
  /\ UNCHANGED <<waiting, deviceVars, cubeVars, addrVars, stackRR, creditVars,
                 reply>>

Tick == BeginTick \/ Collect \/ DrainReturns \/ Admit \/ NoAdmission

Next == \/ \E r \in Req : Send(r) \/ Complete(r)
        \/ \E p \in SubPart : Consume(p)
        \/ Tick

Spec == Init /\ [][Next]_vars
=============================================================================
