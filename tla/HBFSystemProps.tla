--------------------------- MODULE HBFSystemProps ----------------------------
(***************************************************************************)
(* What the composition of L2 queues, partitions, stacks and return        *)
(* buffers must guarantee, stated over HBFSystem.tla.                      *)
(***************************************************************************)
EXTENDS HBFSystem

TypeOK ==
  /\ pc \in {"idle", "device", "returns", "admit"}
  /\ cur \in Nat /\ admitted \in Partition \cup {NoPart}
  /\ waiting \in [SubPart -> Seq(Req)] /\ reply \in [SubPart -> Seq(Req)]
  /\ \A p \in SubPart : Len(waiting[p]) <= L2Depth /\ Len(reply[p]) <= ReplyDepth
  /\ held \in [Stack -> SUBSET Req] /\ ready \in [Stack -> Seq(Req)]
  /\ \A s \in Stack : Len(ready[s]) <= ReturnCap /\ ToSet(ready[s]) \subseteq held[s]
  /\ returns \in [Stack -> [SubPart -> Seq(Req)]] /\ count \in [Stack -> Nat]
  /\ saved \in SUBSET Req /\ addr \in [Req -> Nat]
  /\ stackRR \in [SubPart -> Stack] /\ partRR \in Partition
  /\ private \in [SubPart -> 0 .. 1] /\ shared \in [Partition -> Nat]
  /\ borrower \in [Partition -> 0 .. SubsPer - 1]

\* m_return_count, kept apart from the queues it counts, is exact and never
\* exceeds the return buffer, although pops of all partitions decrement it:
\* a drift would overrun the buffer or close it for ever.
Places(s) == UNION {{p} \X DOMAIN returns[s][p] : p \in SubPart}

ReturnCountExact ==
  \A s \in Stack : count[s] = Cardinality(Places(s)) /\ count[s] <= ReturnCap

\* A request is in one place only, in the stack its GPU address belongs to,
\* and it comes back to the sub-partition that sent it, however the pops of
\* partitions and the round robin over stacks interleave.
In(q, r) == {i \in DOMAIN q : q[i] = r}

RoutedHome ==
  \A r \in Req :
    LET queues == {<<"waiting", p>> : p \in {x \in SubPart : r \in ToSet(waiting[x])}}
                    \cup {<<"reply", p>> : p \in {x \in SubPart : r \in ToSet(reply[x])}}
                    \cup {<<"held", SourceOf[r]>> : s \in {t \in Stack : r \in held[t]}}
                    \cup {<<"returns", p>> : p \in {x \in SubPart :
                            \E s \in Stack : r \in ToSet(returns[s][x])}}
    IN /\ Cardinality(queues) <= 1
       /\ \A q \in queues : q[2] = SourceOf[r]
       /\ \A p \in SubPart : Cardinality(In(waiting[p], r)) <= 1 /\ Cardinality(In(reply[p], r)) <= 1
       /\ \A s \in Stack :
            r \in held[s] \/ (\E p \in SubPart : r \in ToSet(returns[s][p]))
              => s = GpuPage[r] % NumStacks

\* The device sees stack-local addresses and the GPU its own: exactly the
\* requests inside the system are rewritten, and each of them has a saved
\* address, so that neither assertion of hbf_system.cc (push, 80;
\* restore_address, 99) can fail.
AddressRestored ==
  /\ Rewrites => saved = InSystem
  /\ \A r \in Req : addr[r] = IF Rewrites /\ r \in InSystem THEN LocalAt(GpuPage[r])
                              ELSE GpuPage[r]

\* The credits a partition has lent are exactly its requests in the system:
\* none leaks with a writeback, which no reply announces, and none is returned
\* twice; the shared credits stay within their limit.
CreditsExact ==
  \A m \in Partition :
    /\ Cardinality({p \in Subs(m) : private[p] = 1}) + shared[m]
         = Cardinality({r \in InSystem : PartOf(SourceOf[r]) = m})
    /\ SharedLimit # 0 => shared[m] <= SharedLimit

\* The GPU clocks the stacks, and counts the device as active, exactly while
\* a request is in the system; completions that left the controllers count.
BusyExact == Busy <=> InSystem # {}

\* What the partitions, the return buffers and the GPU keep of the requests
\* agrees with where the requests are, in every state: the counts, the lent
\* credits, the saved addresses and the sign that the device is busy.
SystemInv == TypeOK /\ ReturnCountExact /\ AddressRestored /\ CreditsExact /\ BusyExact

\* Every stack behaves as the device its controller implements.
Device(s) == INSTANCE HBFDevice WITH held <- held[s], ready <- ready[s]

StacksAreDevices ==
  /\ \A s \in Stack : Device(s)!DeviceInit
  /\ [][\A s \in Stack : \/ Device(s)!DeviceNext
                         \/ UNCHANGED <<held[s], ready[s]>>]_vars

(***************************************************************************)
(* Liveness. The DRAM clock never stops; a device answers every request    *)
(* (HBFProperties!Drains); the L2 takes its replies.                       *)
(***************************************************************************)
Clocked   == WF_vars(Tick)
DeviceFair == \A r \in Req : SF_vars(Complete(r))
Fairness  == Clocked /\ DeviceFair /\ \A p \in SubPart : SF_vars(Consume(p))

FairSpec == Spec /\ Fairness

\* Every request that was admitted comes back, through a return buffer that
\* all partitions share, although kernels keep sending.
Returned == \A r \in Req : (r \in InSystem) ~> (r \notin InSystem)

\* Every request is admitted although others of all partitions compete for
\* the same stack ("so periodic device service cannot phase-lock priority",
\* integration patch, 972).
Admitted == \A r \in Req :
  (r \in ToSet(waiting[SourceOf[r]])) ~> (r \notin ToSet(waiting[SourceOf[r]]))

\* hbf_cube.h:36-39: the per-source queues avoid "head-of-line blocking
\* between memory partitions". Only the sub-partitions of Draining take their
\* replies; their requests come back.
CONSTANT Draining

SomeDrainSpec == Spec /\ Clocked /\ DeviceFair
                   /\ \A p \in Draining : SF_vars(Consume(p))

NoHeadOfLineBlocking ==
  \A r \in Req : SourceOf[r] \in Draining =>
    ((r \in InSystem) ~> (r \notin InSystem))
=============================================================================
