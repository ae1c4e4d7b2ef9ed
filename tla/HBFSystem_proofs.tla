-------------------------- MODULE HBFSystem_proofs --------------------------
(***************************************************************************)
(* The properties of the HBF system for any number of partitions,          *)
(* sub-partitions, stacks and requests, any capacities and any interleaving*)
(* of the stacks with the partitions.                                      *)
(*                                                                         *)
(* The invariant says where requests are: each is at one place at most,    *)
(* all its places are determined by its sub-partition and its GPU page,    *)
(* and no queue holds it twice. What the code keeps beside the queues is   *)
(* then counted from sets of requests.                                     *)
(***************************************************************************)
EXTENDS HBFSystemProps, SequenceLemmas

\* The stack of a request, and the four places it can be at.
Home(r) == StackAt(GpuPage[r])

IsWaiting(r)   == r \in ToSet(waiting[SourceOf[r]])
IsHeld(r)      == r \in held[Home(r)]
IsReturning(r) == r \in ToSet(returns[Home(r)][SourceOf[r]])
IsReply(r)     == r \in ToSet(reply[SourceOf[r]])

\* The loops of a tick stay in their range.
PhaseInv ==
  /\ pc = "device" => cur \in Stack
  /\ pc \in {"returns", "admit"} => cur \in 0 .. NumPartitions - 1

\* Queues hold only requests that belong there, and none twice.
QueuesInv ==
  /\ \A p \in SubPart :
       /\ IsInjective(waiting[p]) /\ \A r \in ToSet(waiting[p]) : SourceOf[r] = p
       /\ IsInjective(reply[p])   /\ \A r \in ToSet(reply[p]) : SourceOf[r] = p
  /\ \A s \in Stack :
       /\ IsInjective(ready[s]) /\ \A r \in held[s] : Home(r) = s
       /\ \A p \in SubPart :
            /\ IsInjective(returns[s][p])
            /\ \A r \in ToSet(returns[s][p]) : SourceOf[r] = p /\ Home(r) = s

\* A request is at one place at most.
OnePlace ==
  \A r \in Req :
    /\ IsWaiting(r)   => ~IsHeld(r) /\ ~IsReturning(r) /\ ~IsReply(r)
    /\ IsHeld(r)      => ~IsReturning(r) /\ ~IsReply(r)
    /\ IsReturning(r) => ~IsReply(r)

\* The saved addresses are those of the requests in the system.
AddressInv ==
  /\ saved = IF Rewrites THEN InSystem ELSE {}
  /\ \A r \in Req : addr[r] = IF Rewrites /\ r \in InSystem THEN LocalAt(GpuPage[r])
                              ELSE GpuPage[r]

\* The return buffer of a cube holds as many requests as are counted.
CountInv ==
  \A s \in Stack : /\ IsFiniteSet(Returning(s))
                   /\ count[s] = Cardinality(Returning(s)) /\ count[s] <= ReturnCap

\* The requests of a partition in the system.
Lent(m)    == {r \in InSystem : PartOf(SourceOf[r]) = m}
InUse(m)   == {p \in Subs(m) : private[p] = 1}

\* A private credit is in use only while a request of its sub-partition is
\* in the system, so that what return_credit takes from the shared credits
\* was lent from them.
CreditInv ==
  /\ IsFiniteSet(InSystem)
  /\ \A p \in SubPart : private[p] = 1 => \E r \in InSystem : SourceOf[r] = p
  /\ \A m \in Partition :
       /\ shared[m] + Cardinality(InUse(m)) = Cardinality(Lent(m))
       /\ SharedLimit # 0 => shared[m] <= SharedLimit

IInv == /\ TypeOK /\ PhaseInv /\ QueuesInv /\ OnePlace
        /\ AddressInv /\ CountInv /\ CreditInv

-----------------------------------------------------------------------------
(***************************************************************************)
(* Constants and types.                                                    *)
(***************************************************************************)
LEMMA Constants ==
  /\ NumPartitions \in Nat \ {0} /\ SubsPer \in Nat \ {0} /\ NumStacks \in Nat \ {0}
  /\ ReturnCap \in Nat \ {0} /\ L2Depth \in Nat \ {0} /\ ReplyDepth \in Nat \ {0}
  /\ SharedLimit \in Nat
  /\ SourceOf \in [Req -> SubPart] /\ GpuPage \in [Req -> Nat]
  /\ IsWriteback \in [Req -> BOOLEAN] /\ Rewrites \in BOOLEAN
  BY SystemAssumption DEF Rewrites

LEMMA ModRange ==
  ASSUME NEW a \in Int, NEW n \in Nat \ {0}
  PROVE  a % n \in 0 .. n - 1
  BY SMT

LEMMA DivRange ==
  ASSUME NEW a \in Nat, NEW n \in Nat \ {0}
  PROVE  a \div n \in Nat
  BY SMT

LEMMA HomeType == \A r \in Req : Home(r) \in Stack /\ SourceOf[r] \in SubPart
  <1>1. ASSUME NEW r \in Req PROVE Home(r) \in Stack
    <2>1. GpuPage[r] \in Int /\ NumStacks \in Nat \ {0}
      BY Constants
    <2>2. QED
      BY <2>1, ModRange DEF Home, StackAt, Stack
  <1>2. QED
    BY <1>1, Constants

LEMMA Types ==
  ASSUME TypeOK
  PROVE  /\ waiting \in [SubPart -> Seq(Req)] /\ reply \in [SubPart -> Seq(Req)]
         /\ held \in [Stack -> SUBSET Req] /\ ready \in [Stack -> Seq(Req)]
         /\ returns \in [Stack -> [SubPart -> Seq(Req)]] /\ count \in [Stack -> Nat]
         /\ private \in [SubPart -> 0 .. 1] /\ shared \in [Partition -> Nat]
         /\ \A p \in SubPart :
              /\ waiting[p] \in Seq(Req) /\ ToSet(waiting[p]) \subseteq Req
              /\ reply[p] \in Seq(Req) /\ ToSet(reply[p]) \subseteq Req
         /\ \A s \in Stack :
              /\ held[s] \subseteq Req /\ ready[s] \in Seq(Req)
              /\ ToSet(ready[s]) \subseteq held[s]
              /\ \A p \in SubPart : /\ returns[s][p] \in Seq(Req)
                                    /\ ToSet(returns[s][p]) \subseteq Req
  <1>1. \A p \in SubPart : waiting[p] \in Seq(Req) /\ reply[p] \in Seq(Req)
    BY DEF TypeOK
  <1>2. \A s \in Stack : \A p \in SubPart : returns[s][p] \in Seq(Req)
    BY DEF TypeOK
  <1>3. QED
    BY <1>1, <1>2, ElementsOfSeq DEF TypeOK

-----------------------------------------------------------------------------
(***************************************************************************)
(* Where requests are, from the queues they are in.                        *)
(***************************************************************************)
PlacesHold ==
  /\ \A r : (r \in InSystem) <=> (r \in Req /\ (IsHeld(r) \/ IsReturning(r)))
  /\ \A r : (r \in AtL2) <=> (r \in Req /\ (IsWaiting(r) \/ IsReply(r)))
  /\ \A s \in Stack : \A r :
       (r \in Returning(s)) <=> (r \in Req /\ IsReturning(r) /\ Home(r) = s)
  /\ \A s \in Stack : \A r :
       (r \in held[s]) <=> (r \in Req /\ IsHeld(r) /\ Home(r) = s)

LEMMA Places4 ==
  TypeOK /\ QueuesInv => PlacesHold
  <1> SUFFICES ASSUME TypeOK, QueuesInv PROVE PlacesHold
    OBVIOUS
  <1>1. ASSUME NEW s \in Stack, NEW r
        PROVE  (r \in held[s]) <=> (r \in Req /\ IsHeld(r) /\ Home(r) = s)
    BY Types DEF QueuesInv, IsHeld
  <1>2. ASSUME NEW s \in Stack, NEW r
        PROVE  (r \in Returning(s)) <=> (r \in Req /\ IsReturning(r) /\ Home(r) = s)
    <2>1. (r \in Returning(s)) <=> \E p \in SubPart : r \in ToSet(returns[s][p])
      BY DEF Returning
    <2>2. \A p \in SubPart : r \in ToSet(returns[s][p]) =>
             r \in Req /\ SourceOf[r] = p /\ Home(r) = s
      BY Types DEF QueuesInv
    <2>3. r \in Req => SourceOf[r] \in SubPart
      BY HomeType
    <2>4. QED
      BY <2>1, <2>2, <2>3 DEF IsReturning
  <1>3. ASSUME NEW r
        PROVE  (r \in InSystem) <=> (r \in Req /\ (IsHeld(r) \/ IsReturning(r)))
    <2>1. (r \in InSystem) <=> \E s \in Stack : r \in held[s] \/ r \in Returning(s)
      BY DEF InSystem
    <2>2. r \in Req => Home(r) \in Stack
      BY HomeType
    <2>3. QED
      BY <1>1, <1>2, <2>1, <2>2
  <1>4. ASSUME NEW r
        PROVE  (r \in AtL2) <=> (r \in Req /\ (IsWaiting(r) \/ IsReply(r)))
    <2>1. (r \in AtL2) <=> \E p \in SubPart : r \in ToSet(waiting[p]) \/ r \in ToSet(reply[p])
      BY DEF AtL2
    <2>2. \A p \in SubPart : r \in ToSet(waiting[p]) \/ r \in ToSet(reply[p]) =>
             r \in Req /\ SourceOf[r] = p
      BY Types DEF QueuesInv
    <2>3. r \in Req => SourceOf[r] \in SubPart
      BY HomeType
    <2>4. QED
      BY <2>1, <2>2, <2>3 DEF IsWaiting, IsReply
  <1>5. QED
    BY <1>1, <1>2, <1>3, <1>4 DEF PlacesHold

LEMMA PlacesNext == TypeOK' /\ QueuesInv' => PlacesHold'
  BY Places4, PTL

-----------------------------------------------------------------------------
(***************************************************************************)
(* What a step leaves alone.                                               *)
(***************************************************************************)
LEMMA SystemKept ==
  ASSUME AddressInv, CreditInv, InSystem' = InSystem,
         UNCHANGED <<saved, addr, private, shared>>
  PROVE  AddressInv' /\ CreditInv'
  <1>1. AddressInv'
    BY DEF AddressInv
  <1>2. CreditInv'
    BY DEF CreditInv, Lent, InUse
  <1>3. QED
    BY <1>1, <1>2

LEMMA CountKept ==
  ASSUME CountInv, UNCHANGED <<returns, count>>
  PROVE  CountInv'
  BY DEF CountInv, Returning

LEMMA StutterStep ==
  ASSUME IInv, UNCHANGED vars
  PROVE  IInv'
  <1>1. UNCHANGED <<pc, cur, admitted, waiting, held, ready, returns, count, saved,
                    addr, stackRR, partRR, private, shared, borrower, reply>>
    BY DEF vars
  <1>2. TypeOK' /\ PhaseInv' /\ QueuesInv' /\ OnePlace'
    BY <1>1 DEF IInv, TypeOK, PhaseInv, QueuesInv, OnePlace,
                IsWaiting, IsHeld, IsReturning, IsReply
  <1>3. InSystem' = InSystem
    BY <1>1 DEF InSystem, Returning
  <1>4. QED
    BY <1>1, <1>2, <1>3, SystemKept, CountKept DEF IInv

LEMMA InitInv == Init => IInv
  <1> SUFFICES ASSUME Init PROVE IInv
    OBVIOUS
  <1>1. /\ <<>> \in Seq(Req) /\ ToSet(<<>>) = {} /\ IsInjective(<<>>) /\ Len(<<>>) = 0
    BY EmptySeq DEF ToSet, IsInjective
  <1>2. /\ \A p \in SubPart : waiting[p] = <<>> /\ reply[p] = <<>> /\ private[p] = 0
        /\ \A s \in Stack : /\ held[s] = {} /\ ready[s] = <<>> /\ count[s] = 0
                            /\ \A p \in SubPart : returns[s][p] = <<>>
        /\ \A m \in Partition : shared[m] = 0
        /\ saved = {} /\ addr = GpuPage /\ pc = "idle" /\ cur = 0
    BY DEF Init
  <1>3. TypeOK
    <2>1. /\ waiting \in [SubPart -> Seq(Req)] /\ reply \in [SubPart -> Seq(Req)]
          /\ held \in [Stack -> SUBSET Req] /\ ready \in [Stack -> Seq(Req)]
          /\ returns \in [Stack -> [SubPart -> Seq(Req)]] /\ count \in [Stack -> Nat]
          /\ private \in [SubPart -> 0 .. 1] /\ shared \in [Partition -> Nat]
      BY <1>1 DEF Init
    <2>2. /\ partRR \in Partition /\ stackRR \in [SubPart -> Stack]
          /\ borrower \in [Partition -> 0 .. SubsPer - 1]
      BY Constants DEF Init, Partition, Stack
    <2>3. saved \in SUBSET Req /\ addr \in [Req -> Nat]
      BY <1>2, Constants
    <2>4. pc \in {"idle", "device", "returns", "admit"} /\ cur \in Nat
          /\ admitted \in Partition \cup {NoPart}
      BY DEF Init
    <2>5. \A p \in SubPart : Len(waiting[p]) <= L2Depth /\ Len(reply[p]) <= ReplyDepth
      BY <1>1, <1>2, Constants
    <2>6. \A s \in Stack : Len(ready[s]) <= ReturnCap /\ ToSet(ready[s]) \subseteq held[s]
      BY <1>1, <1>2, Constants
    <2>7. QED
      BY <2>1, <2>2, <2>3, <2>4, <2>5, <2>6 DEF TypeOK
  <1>4. PhaseInv
    BY <1>2 DEF PhaseInv
  <1>5. QueuesInv
    BY <1>1, <1>2 DEF QueuesInv
  <1>6. OnePlace
    BY <1>1, <1>2, HomeType DEF OnePlace, IsWaiting, IsHeld, IsReturning, IsReply
  <1>7. \A s \in Stack : Returning(s) = {}
    BY <1>1, <1>2 DEF Returning
  <1>8. InSystem = {}
    BY <1>2, <1>7 DEF InSystem
  <1>9. AddressInv
    BY <1>2, <1>8 DEF AddressInv
  <1>10. CountInv
    <2>1. ASSUME NEW s \in Stack
          PROVE  /\ IsFiniteSet(Returning(s))
                 /\ count[s] = Cardinality(Returning(s)) /\ count[s] <= ReturnCap
      <3>1. count[s] = 0 /\ Returning(s) = {} /\ 0 <= ReturnCap
        BY <1>2, <1>7, Constants
      <3>2. QED
        BY <3>1, FS_EmptySet
    <2>2. QED
      BY <2>1 DEF CountInv
  <1>11. CreditInv
    <2>1. ASSUME NEW m \in Partition
          PROVE  /\ shared[m] + Cardinality(InUse(m)) = Cardinality(Lent(m))
                 /\ SharedLimit # 0 => shared[m] <= SharedLimit
      <3>1. Lent(m) = {} /\ InUse(m) = {}
        BY <1>2, <1>8 DEF Lent, InUse, Subs
      <3>2. QED
        BY <1>2, <3>1, FS_EmptySet, Constants
    <2>2. QED
      BY <1>2, <1>8, <2>1, FS_EmptySet DEF CreditInv
  <1>12. QED
    BY <1>3, <1>4, <1>5, <1>6, <1>9, <1>10, <1>11 DEF IInv


-----------------------------------------------------------------------------
(***************************************************************************)
(* The L2. A request that is sent is nowhere; a reply that is taken leaves.*)
(***************************************************************************)
LEMMA SendStep ==
  ASSUME IInv, NEW r \in Req, Send(r)
  PROVE  IInv'
  <1> DEFINE p == SourceOf[r]
  <1>1. /\ pc = "idle" /\ r \notin InSystem /\ r \notin AtL2 /\ Len(waiting[p]) < L2Depth
        /\ waiting' = [waiting EXCEPT ![p] = Append(@, r)]
        /\ UNCHANGED <<pc, cur, admitted, partRR, held, ready, returns, count, saved,
                       addr, stackRR, private, shared, borrower, reply>>
    BY DEF Send, Known, tickVars, deviceVars, cubeVars, addrVars, creditVars
  <1>2. p \in SubPart /\ TypeOK /\ QueuesInv /\ OnePlace
    BY HomeType DEF IInv
  <1>3. ~IsWaiting(r) /\ ~IsReply(r) /\ ~IsHeld(r) /\ ~IsReturning(r)
    BY <1>1, <1>2, Places4 DEF PlacesHold
  <1>4. /\ waiting'[p] = Append(waiting[p], r)
        /\ \A q \in SubPart : q # p => waiting'[q] = waiting[q]
        /\ waiting \in [SubPart -> Seq(Req)] /\ waiting[p] \in Seq(Req)
    BY <1>1, <1>2, Types
  <1>5. /\ waiting'[p] \in Seq(Req) /\ Len(waiting'[p]) = Len(waiting[p]) + 1
        /\ ToSet(waiting'[p]) = ToSet(waiting[p]) \cup {r}
        /\ IsInjective(waiting[p]) => IsInjective(waiting'[p])
    BY <1>3, <1>4, AppendElements DEF IsWaiting
  <1>6. TypeOK'
    <2>1. Len(waiting[p]) \in Nat /\ L2Depth \in Nat
      BY <1>4, LenProperties, Constants
    <2>2. Len(waiting'[p]) <= L2Depth
      BY <1>1, <1>5, <2>1
    <2>3. \A q \in SubPart : Len(waiting'[q]) <= L2Depth
      BY <1>2, <1>4, <2>2 DEF TypeOK
    <2>4. waiting' \in [SubPart -> Seq(Req)]
      BY <1>1, <1>2, <1>4, <1>5
    <2>5. QED
      BY <1>1, <1>2, <2>3, <2>4 DEF TypeOK
  <1>7. PhaseInv'
    BY <1>1 DEF IInv, PhaseInv
  <1>8. QueuesInv'
    BY <1>1, <1>2, <1>4, <1>5 DEF QueuesInv
  <1>9. OnePlace'
    <2>1. \A q \in Req : IsWaiting(q)' <=> (IsWaiting(q) \/ q = r)
      BY <1>2, <1>4, <1>5, HomeType DEF IsWaiting
    <2>2. \A q \in Req : /\ IsHeld(q)' <=> IsHeld(q)
                         /\ IsReply(q)' <=> IsReply(q)
                         /\ IsReturning(q)' <=> IsReturning(q)
      BY <1>1 DEF IsHeld, IsReply, IsReturning
    <2>3. QED
      BY <1>2, <1>3, <2>1, <2>2 DEF OnePlace
  <1>10. InSystem' = InSystem
    BY <1>1 DEF InSystem, Returning
  <1>11. QED
    BY <1>1, <1>6, <1>7, <1>8, <1>9, <1>10, SystemKept, CountKept DEF IInv

LEMMA ConsumeStep ==
  ASSUME IInv, NEW p \in SubPart, Consume(p)
  PROVE  IInv'
  <1> DEFINE r == Head(reply[p])
  <1>1. /\ pc = "idle" /\ reply[p] # <<>>
        /\ reply' = [reply EXCEPT ![p] = Tail(@)]
        /\ UNCHANGED <<pc, cur, admitted, partRR, waiting, held, ready, returns, count,
                       saved, addr, stackRR, private, shared, borrower>>
    BY DEF Consume, tickVars, deviceVars, cubeVars, addrVars, creditVars
  <1>2. TypeOK /\ QueuesInv /\ OnePlace
    BY DEF IInv
  <1>3. /\ reply'[p] = Tail(reply[p])
        /\ \A q \in SubPart : q # p => reply'[q] = reply[q]
        /\ reply \in [SubPart -> Seq(Req)] /\ reply[p] \in Seq(Req)
        /\ IsInjective(reply[p])
    BY <1>1, <1>2, Types DEF QueuesInv
  <1>4. /\ reply'[p] \in Seq(Req) /\ Len(reply'[p]) = Len(reply[p]) - 1
        /\ ToSet(reply'[p]) = ToSet(reply[p]) \ {r} /\ IsInjective(reply'[p])
    BY <1>1, <1>3, TailElements
  <1>5. TypeOK'
    <2>1. Len(reply[p]) \in Nat /\ Len(reply[p]) <= ReplyDepth /\ ReplyDepth \in Nat
      BY <1>2, <1>3, LenProperties, Constants DEF TypeOK
    <2>2. Len(reply'[p]) <= ReplyDepth
      BY <1>4, <2>1
    <2>3. \A q \in SubPart : Len(reply'[q]) <= ReplyDepth
      BY <1>2, <1>3, <2>2 DEF TypeOK
    <2>4. reply' \in [SubPart -> Seq(Req)]
      BY <1>1, <1>3, <1>4
    <2>5. QED
      BY <1>1, <1>2, <2>3, <2>4 DEF TypeOK
  <1>6. PhaseInv'
    BY <1>1 DEF IInv, PhaseInv
  <1>7. QueuesInv'
    BY <1>1, <1>2, <1>3, <1>4 DEF QueuesInv
  <1>8. OnePlace'
    <2>1. \A q \in Req : IsReply(q)' => IsReply(q)
      BY <1>2, <1>3, <1>4, HomeType DEF IsReply
    <2>2. \A q \in Req : /\ IsHeld(q)' <=> IsHeld(q)
                         /\ IsWaiting(q)' <=> IsWaiting(q)
                         /\ IsReturning(q)' <=> IsReturning(q)
      BY <1>1 DEF IsHeld, IsWaiting, IsReturning
    <2>3. QED
      BY <1>2, <2>1, <2>2 DEF OnePlace
  <1>9. InSystem' = InSystem
    BY <1>1 DEF InSystem, Returning
  <1>10. QED
    BY <1>1, <1>5, <1>6, <1>7, <1>8, <1>9, SystemKept, CountKept DEF IInv

-----------------------------------------------------------------------------
(***************************************************************************)
(* The stacks.                                                             *)
(***************************************************************************)
LEMMA BeginTickStep ==
  ASSUME IInv, BeginTick
  PROVE  IInv'
  <1>1. /\ pc' \in {"device", "returns"} /\ cur' = 0 /\ admitted' = NoPart
        /\ UNCHANGED <<waiting, held, ready, returns, count, saved, addr, stackRR,
                       partRR, private, shared, borrower, reply>>
    BY DEF BeginTick, deviceVars, cubeVars, addrVars, creditVars
  <1>2. TypeOK'
    BY <1>1 DEF IInv, TypeOK
  <1>3. PhaseInv'
    BY <1>1, Constants DEF PhaseInv, Stack
  <1>4. QueuesInv' /\ OnePlace'
    BY <1>1 DEF IInv, QueuesInv, OnePlace, IsWaiting, IsHeld, IsReturning, IsReply
  <1>5. InSystem' = InSystem
    BY <1>1 DEF InSystem, Returning
  <1>6. QED
    BY <1>1, <1>2, <1>3, <1>4, <1>5, SystemKept, CountKept DEF IInv

LEMMA CompleteStep ==
  ASSUME IInv, NEW r \in Req, Complete(r)
  PROVE  IInv'
  <1>1. /\ pc = "device" /\ r \in held[cur] /\ r \notin ToSet(ready[cur])
        /\ Len(ready[cur]) < ReturnCap
        /\ ready' = [ready EXCEPT ![cur] = Append(@, r)]
        /\ UNCHANGED <<pc, cur, admitted, partRR, waiting, held, returns, count,
                       saved, addr, stackRR, private, shared, borrower, reply>>
    BY DEF Complete, tickVars, cubeVars, addrVars, creditVars
  <1>2. cur \in Stack /\ TypeOK /\ QueuesInv /\ OnePlace
    BY <1>1 DEF IInv, PhaseInv
  <1>3. /\ ready'[cur] = Append(ready[cur], r)
        /\ \A s \in Stack : s # cur => ready'[s] = ready[s]
        /\ ready \in [Stack -> Seq(Req)] /\ ready[cur] \in Seq(Req)
        /\ IsInjective(ready[cur]) /\ ToSet(ready[cur]) \subseteq held[cur]
    BY <1>1, <1>2, Types DEF QueuesInv
  <1>4. /\ ready'[cur] \in Seq(Req) /\ Len(ready'[cur]) = Len(ready[cur]) + 1
        /\ ToSet(ready'[cur]) = ToSet(ready[cur]) \cup {r} /\ IsInjective(ready'[cur])
    BY <1>1, <1>3, AppendElements
  <1>5. TypeOK'
    <2>1. Len(ready[cur]) \in Nat /\ ReturnCap \in Nat
      BY <1>3, LenProperties, Constants
    <2>2. Len(ready'[cur]) <= ReturnCap /\ ToSet(ready'[cur]) \subseteq held[cur]
      BY <1>1, <1>3, <1>4, <2>1
    <2>3. \A s \in Stack : Len(ready'[s]) <= ReturnCap /\ ToSet(ready'[s]) \subseteq held[s]
      BY <1>2, <1>3, <2>2 DEF TypeOK
    <2>4. ready' \in [Stack -> Seq(Req)]
      BY <1>1, <1>2, <1>3, <1>4
    <2>5. QED
      BY <1>1, <1>2, <2>3, <2>4 DEF TypeOK
  <1>6. PhaseInv'
    BY <1>1 DEF IInv, PhaseInv
  <1>7. QueuesInv'
    BY <1>1, <1>2, <1>3, <1>4 DEF QueuesInv
  <1>8. OnePlace'
    BY <1>1, <1>2 DEF OnePlace, IsWaiting, IsHeld, IsReturning, IsReply
  <1>9. InSystem' = InSystem
    BY <1>1 DEF InSystem, Returning
  <1>10. QED
    BY <1>1, <1>5, <1>6, <1>7, <1>8, <1>9, SystemKept, CountKept DEF IInv


\* What collect_returns sorts out of a queue for a sub-partition.
LEMMA SortedElements ==
  ASSUME NEW q \in Seq(Req), IsInjective(q), NEW p
  PROVE  /\ Sorted(q, p) \in Seq(Req) /\ IsInjective(Sorted(q, p))
         /\ ToSet(Sorted(q, p)) = {r \in ToSet(q) : SourceOf[r] = p}
  <1> DEFINE S == {i \in DOMAIN q : SourceOf[q[i]] = p}
             N == Cardinality(S)
             rank(i) == Cardinality({j \in S : j <= i})
             t == Sorted(q, p)
  <1>1. Len(q) \in Nat /\ DOMAIN q = 1 .. Len(q) /\ \A i \in DOMAIN q : q[i] \in Req
    BY LenProperties, ElementOfSeq
  <1>2. S \subseteq 1 .. Len(q)
    BY <1>1
  <1>3. t = [k \in 1 .. N |-> q[InOrder(S)[k]]]
    BY DEF Sorted, Picked
  <1>4. \A k \in 1 .. N : InOrder(S)[k] = CHOOSE i \in S : rank(i) = k
    BY DEF InOrder
  <1> HIDE DEF S, t
  <1>5. /\ N \in Nat
        /\ \A i \in S : rank(i) \in 1 .. N
        /\ \A i, k \in S : rank(i) = rank(k) => i = k
        /\ \A m \in 1 .. N : \E i \in S : rank(i) = m
    BY <1>1, <1>2, Ranked
  <1> HIDE DEF N, rank
  <1>6. \A k \in 1 .. N : InOrder(S)[k] \in S /\ rank(InOrder(S)[k]) = k
    BY <1>4, <1>5
  <1>7. \A i \in S : i \in DOMAIN q /\ q[i] \in Req
    BY <1>1, <1>2
  <1>8. DOMAIN t = 1 .. N /\ \A k \in 1 .. N : t[k] = q[InOrder(S)[k]]
    BY <1>3
  <1>9. t \in Seq(Req)
    BY <1>3, <1>5, <1>6, <1>7, IsASeq
  <1>10. IsInjective(t)
    <2>1. ASSUME NEW k \in 1 .. N, NEW l \in 1 .. N, t[k] = t[l] PROVE k = l
      <3>1. InOrder(S)[k] = InOrder(S)[l]
        BY <1>6, <1>7, <1>8, <2>1 DEF IsInjective
      <3>2. QED
        BY <1>6, <3>1
    <2>2. QED
      BY <1>8, <2>1 DEF IsInjective
  <1>11. ToSet(t) = {r \in ToSet(q) : SourceOf[r] = p}
    <2>1. ASSUME NEW k \in 1 .. N
          PROVE  t[k] \in ToSet(q) /\ SourceOf[t[k]] = p
      BY <1>6, <1>7, <1>8 DEF S, ToSet
    <2>2. ASSUME NEW i \in DOMAIN q, SourceOf[q[i]] = p
          PROVE  q[i] \in ToSet(t)
      <3>1. i \in S
        BY <2>2 DEF S
      <3>2. rank(i) \in 1 .. N /\ rank(InOrder(S)[rank(i)]) = rank(i)
            /\ InOrder(S)[rank(i)] \in S
        BY <1>5, <1>6, <3>1
      <3>3. InOrder(S)[rank(i)] = i
        BY <1>5, <3>1, <3>2
      <3>4. QED
        BY <1>8, <3>2, <3>3 DEF ToSet
    <2>3. QED
      BY <1>8, <2>1, <2>2 DEF ToSet
  <1>12. QED
    BY <1>9, <1>10, <1>11 DEF t


\* collect_returns takes from the head of the controller's queue while the
\* return buffer has room.
LEMMA CollectedRange ==
  ASSUME IInv, NEW s \in Stack
  PROVE  Collected(s) \in 0 .. Len(ready[s]) /\ count[s] + Collected(s) <= ReturnCap
  <1> DEFINE len == Len(ready[s])
             c   == count[s]
             P(n) == /\ c + n <= ReturnCap
                     /\ n = len \/ c + n = ReturnCap
  <1>1. len \in Nat /\ c \in Nat /\ c <= ReturnCap /\ ReturnCap \in Nat
    <2>1. ready[s] \in Seq(Req) /\ c \in Nat
      BY Types DEF IInv
    <2>2. QED
      BY <2>1, LenProperties, Constants DEF IInv, CountInv
  <1>2. Collected(s) = CHOOSE n \in 0 .. len : P(n)
    BY DEF Collected
  <1> HIDE DEF len, c
  <1>3. \E n \in 0 .. len : P(n)
    <2>1. CASE c + len <= ReturnCap
      BY <1>1, <2>1
    <2>2. CASE ~(c + len <= ReturnCap)
      <3>1. ReturnCap - c \in 0 .. len /\ P(ReturnCap - c)
        BY <1>1, <2>2
      <3>2. QED
        BY <3>1
    <2>3. QED
      BY <2>1, <2>2
  <1>4. Collected(s) \in 0 .. len /\ P(Collected(s))
    BY <1>2, <1>3
  <1>5. QED
    BY <1>4 DEF len, c

LEMMA CollectStep ==
  ASSUME IInv, Collect
  PROVE  IInv'
  <1> DEFINE n     == Collected(cur)
             first == SubSeq(ready[cur], 1, n)
             rest  == SubSeq(ready[cur], n + 1, Len(ready[cur]))
             new   == ToSet(first)
  <1>1. /\ pc = "device"
        /\ ready' = [ready EXCEPT ![cur] = rest]
        /\ held' = [held EXCEPT ![cur] = @ \ new]
        /\ returns' = [returns EXCEPT ![cur] = [p \in SubPart |-> @[p] \o Sorted(first, p)]]
        /\ count' = [count EXCEPT ![cur] = @ + Len(first)]
        /\ pc' = IF cur + 1 = NumStacks THEN "returns" ELSE "device"
        /\ cur' = IF cur + 1 = NumStacks THEN 0 ELSE cur + 1
        /\ UNCHANGED <<admitted, waiting, saved, addr, stackRR, partRR, private,
                       shared, borrower, reply>>
    BY DEF Collect, Left, addrVars, creditVars
  <1>2. cur \in Stack /\ TypeOK /\ QueuesInv /\ OnePlace
    BY <1>1 DEF IInv, PhaseInv
  <1>3. /\ ready[cur] \in Seq(Req) /\ IsInjective(ready[cur])
        /\ ToSet(ready[cur]) \subseteq held[cur] /\ held[cur] \subseteq Req
        /\ ready \in [Stack -> Seq(Req)] /\ held \in [Stack -> SUBSET Req]
        /\ returns \in [Stack -> [SubPart -> Seq(Req)]] /\ count \in [Stack -> Nat]
    BY <1>2, Types DEF QueuesInv
  <1>4. n \in 0 .. Len(ready[cur]) /\ count[cur] + n <= ReturnCap
    BY <1>2, CollectedRange
  <1>5. /\ first \in Seq(Req) /\ rest \in Seq(Req)
        /\ IsInjective(first) /\ IsInjective(rest)
        /\ new \subseteq ToSet(ready[cur]) /\ ToSet(rest) = ToSet(ready[cur]) \ new
        /\ Len(first) = n /\ Len(rest) = Len(ready[cur]) - n
    BY <1>3, <1>4, CutElements
  <1>6. new \subseteq held[cur] /\ new \subseteq Req
    BY <1>3, <1>5
  <1>7. \A p \in SubPart : /\ Sorted(first, p) \in Seq(Req) /\ IsInjective(Sorted(first, p))
                           /\ ToSet(Sorted(first, p)) = {r \in new : SourceOf[r] = p}
    BY <1>5, SortedElements
  <1> HIDE DEF n, first, rest, new
  <1>8. /\ ready'[cur] = rest /\ held'[cur] = held[cur] \ new
        /\ \A p \in SubPart : returns'[cur][p] = returns[cur][p] \o Sorted(first, p)
        /\ count'[cur] = count[cur] + n
        /\ \A s \in Stack : s # cur => /\ ready'[s] = ready[s] /\ held'[s] = held[s]
                                       /\ returns'[s] = returns[s] /\ count'[s] = count[s]
    BY <1>1, <1>2, <1>3, <1>5
  <1>9. \A r \in new : Home(r) = cur /\ IsHeld(r) /\ ~IsReturning(r) /\ ~IsReply(r)
                       /\ ~IsWaiting(r)
    BY <1>2, <1>6, Places4 DEF OnePlace, PlacesHold
  <1>10. ASSUME NEW p \in SubPart
         PROVE  /\ returns'[cur][p] \in Seq(Req) /\ IsInjective(returns'[cur][p])
                /\ ToSet(returns'[cur][p])
                     = ToSet(returns[cur][p]) \cup {r \in new : SourceOf[r] = p}
    <2>1. returns[cur][p] \in Seq(Req) /\ IsInjective(returns[cur][p])
      BY <1>2, Types DEF QueuesInv
    <2>2. ToSet(returns[cur][p]) \cap ToSet(Sorted(first, p)) = {}
      BY <1>7, <1>9 DEF IsReturning
    <2> DEFINE a == returns[cur][p]
               b == Sorted(first, p)
    <2>3. a \in Seq(Req) /\ IsInjective(a) /\ b \in Seq(Req) /\ IsInjective(b)
          /\ ToSet(a) \cap ToSet(b) = {}
      BY <1>7, <2>1, <2>2
    <2>4. returns'[cur][p] = a \o b /\ ToSet(b) = {r \in new : SourceOf[r] = p}
      BY <1>7, <1>8
    <2>5. ToSet(a) = ToSet(returns[cur][p])
      OBVIOUS
    <2> HIDE DEF a, b
    <2>6. /\ a \o b \in Seq(Req) /\ ToSet(a \o b) = ToSet(a) \cup ToSet(b)
          /\ IsInjective(a \o b)
      BY <2>3, ConcatElements
    <2>7. QED
      BY <2>4, <2>5, <2>6
  <1>11. TypeOK'
    <2>1. Len(ready[cur]) \in Nat /\ n \in Nat /\ ReturnCap \in Nat /\ count[cur] \in Nat
      BY <1>2, <1>3, <1>4, LenProperties, Constants
    <2>2. Len(ready'[cur]) <= ReturnCap
      BY <1>2, <1>4, <1>5, <1>8, <2>1 DEF TypeOK
    <2>3. ToSet(ready'[cur]) \subseteq held'[cur]
      BY <1>3, <1>5, <1>8
    <2>4. \A s \in Stack : Len(ready'[s]) <= ReturnCap /\ ToSet(ready'[s]) \subseteq held'[s]
      BY <1>2, <1>8, <2>2, <2>3 DEF TypeOK
    <2>5. ready' \in [Stack -> Seq(Req)] /\ held' \in [Stack -> SUBSET Req]
      BY <1>1, <1>3, <1>5
    <2>6. returns' \in [Stack -> [SubPart -> Seq(Req)]]
      <3>1. \A p \in SubPart : returns[cur][p] \o Sorted(first, p) \in Seq(Req)
        BY <1>8, <1>10
      <3>2. [p \in SubPart |-> returns[cur][p] \o Sorted(first, p)] \in [SubPart -> Seq(Req)]
        BY <3>1
      <3>3. QED
        BY <1>1, <1>2, <1>3, <3>2
    <2>7. count' \in [Stack -> Nat]
      BY <1>1, <1>2, <1>3, <1>5, <2>1
    <2>8. pc' \in {"idle", "device", "returns", "admit"} /\ cur' \in Nat
      BY <1>1, <1>2, Constants DEF Stack
    <2>9. QED
      BY <1>1, <1>2, <2>4, <2>5, <2>6, <2>7, <2>8 DEF TypeOK
  <1>12. PhaseInv'
    BY <1>1, <1>2, Constants DEF PhaseInv, Stack
  <1>13. QueuesInv'
    <2>1. ASSUME NEW s \in Stack
          PROVE  /\ IsInjective(ready'[s]) /\ \A r \in held'[s] : Home(r) = s
                 /\ \A p \in SubPart :
                      /\ IsInjective(returns'[s][p])
                      /\ \A r \in ToSet(returns'[s][p]) : SourceOf[r] = p /\ Home(r) = s
      <3>1. CASE s = cur
        BY <1>2, <1>5, <1>8, <1>9, <1>10, <3>1 DEF QueuesInv
      <3>2. CASE s # cur
        BY <1>2, <1>8, <3>2 DEF QueuesInv
      <3>3. QED
        BY <3>1, <3>2
    <2>2. QED
      BY <1>1, <1>2, <2>1 DEF QueuesInv, Home, StackAt
  <1>14. /\ \A r \in Req : IsHeld(r)' <=> (IsHeld(r) /\ r \notin new)
         /\ \A r \in Req : IsReturning(r)' <=> (IsReturning(r) \/ r \in new)
    <2>1. ASSUME NEW r \in Req
          PROVE  IsHeld(r)' <=> (IsHeld(r) /\ r \notin new)
      <3>1. IsHeld(r)' <=> r \in held'[Home(r)]
        BY DEF IsHeld, Home, StackAt
      <3>2. Home(r) \in Stack /\ (r \in new => Home(r) = cur)
        BY <1>9, HomeType
      <3>3. QED
        BY <1>8, <3>1, <3>2 DEF IsHeld
    <2>2. ASSUME NEW r \in Req
          PROVE  IsReturning(r)' <=> (IsReturning(r) \/ r \in new)
      <3>1. IsReturning(r)' <=> r \in ToSet(returns'[Home(r)][SourceOf[r]])
        BY DEF IsReturning, Home, StackAt
      <3>2. Home(r) \in Stack /\ SourceOf[r] \in SubPart /\ (r \in new => Home(r) = cur)
        BY <1>9, HomeType
      <3>3. CASE Home(r) = cur
        BY <1>10, <3>1, <3>2, <3>3 DEF IsReturning
      <3>4. CASE Home(r) # cur
        BY <1>8, <3>1, <3>2, <3>4 DEF IsReturning
      <3>5. QED
        BY <3>3, <3>4
    <2>3. QED
      BY <2>1, <2>2
  <1>15. OnePlace'
    <2>1. \A r \in Req : /\ IsWaiting(r)' <=> IsWaiting(r)
                         /\ IsReply(r)' <=> IsReply(r)
      BY <1>1 DEF IsWaiting, IsReply
    <2>2. QED
      BY <1>2, <1>9, <1>14, <2>1 DEF OnePlace
  <1>16. InSystem' = InSystem
    <2>1. PlacesHold /\ PlacesHold'
      BY <1>2, <1>11, <1>13, Places4, PlacesNext
    <2>2. ASSUME NEW r PROVE (r \in InSystem') <=> (r \in InSystem)
      BY <1>9, <1>14, <2>1 DEF PlacesHold
    <2>3. QED
      BY <2>2
  <1>17. CountInv'
    <2>1. ASSUME NEW s \in Stack, s = cur
          PROVE  Returning(s)' = Returning(s) \cup new /\ Returning(s) \cap new = {}
      <3>1. PlacesHold /\ PlacesHold'
        BY <1>2, <1>11, <1>13, Places4, PlacesNext
      <3>2. ASSUME NEW r
            PROVE  /\ (r \in Returning(s)') <=> (r \in Req /\ IsReturning(r)' /\ Home(r) = s)
                   /\ (r \in Returning(s)) <=> (r \in Req /\ IsReturning(r) /\ Home(r) = s)
        BY <3>1 DEF PlacesHold, Home, StackAt
      <3>3. \A r : /\ (r \in Returning(s)') <=> (r \in Returning(s) \/ r \in new)
                   /\ ~(r \in Returning(s) /\ r \in new)
        BY <1>6, <1>9, <1>14, <2>1, <3>2
      <3>4. QED
        BY <3>3
    <2>2. IsFiniteSet(new) /\ Cardinality(new) = n
      BY <1>5, InjectiveCount DEF new
    <2>3. ASSUME NEW s \in Stack
          PROVE  /\ IsFiniteSet(Returning(s)')
                 /\ count'[s] = Cardinality(Returning(s)') /\ count'[s] <= ReturnCap
      <3>1. /\ IsFiniteSet(Returning(s)) /\ count[s] = Cardinality(Returning(s))
            /\ count[s] <= ReturnCap
        BY DEF IInv, CountInv
      <3>2. CASE s = cur
        <4>1. Returning(s)' = Returning(s) \cup new /\ Returning(s) \cap new = {}
          BY <2>1, <3>2
        <4>2. /\ IsFiniteSet(Returning(s) \cup new)
              /\ Cardinality(Returning(s) \cup new) = count[s] + n
          BY <2>2, <3>1, <4>1, CountUnion
        <4>3. count'[s] = count[s] + n /\ count[s] + n <= ReturnCap
          BY <1>4, <1>8, <3>2
        <4>4. QED
          BY <4>1, <4>2, <4>3
      <3>3. CASE s # cur
        <4>1. Returning(s)' = Returning(s) /\ count'[s] = count[s]
          BY <1>8, <3>3 DEF Returning
        <4>2. QED
          BY <3>1, <4>1
      <3>4. QED
        BY <3>2, <3>3
    <2>4. QED
      BY <2>3 DEF CountInv
  <1>18. QED
    BY <1>1, <1>11, <1>12, <1>13, <1>15, <1>16, <1>17, SystemKept DEF IInv

-----------------------------------------------------------------------------
(***************************************************************************)
(* The partitions: completions are drained from the return buffers.        *)
(***************************************************************************)
LEMMA FiniteSubParts == IsFiniteSet(SubPart) /\ SubPart \subseteq Nat
  <1>1. NumPartitions * SubsPer - 1 \in Int
    BY Constants
  <1>2. QED
    BY <1>1, FS_Interval DEF SubPart

\* pop_return_for finds the first stack in turn that has a completion.
LEMMA PoppedStack ==
  ASSUME TypeOK, NEW p \in SubPart, Popped(p) # NoStack
  PROVE  Popped(p) \in Stack /\ returns[Popped(p)][p] # <<>>
  <1> DEFINE some  == {s \in Stack : returns[s][p] # <<>>}
             turns == {Turn(p, s) : s \in some}
             P(s)  == \A t \in some : Turn(p, s) <= Turn(p, t)
  <1>1. some # {} /\ Popped(p) = CHOOSE s \in some : P(s)
    BY DEF Popped
  <1>2. turns \subseteq Nat
    <2>1. ASSUME NEW s \in Stack PROVE Turn(p, s) \in Nat
      <3>1. stackRR[p] \in Int /\ s \in Int /\ NumStacks \in Nat \ {0}
        BY Constants DEF TypeOK, Stack
      <3>2. s - stackRR[p] + NumStacks \in Int
        BY <3>1
      <3>3. (s - stackRR[p] + NumStacks) % NumStacks \in 0 .. NumStacks - 1
        <4> DEFINE a == s - stackRR[p] + NumStacks
        <4>1. a \in Int
          BY <3>2
        <4> HIDE DEF a
        <4>2. a % NumStacks \in 0 .. NumStacks - 1
          BY <3>1, <4>1, ModRange
        <4>3. QED
          BY <4>2 DEF a
      <3>4. QED
        BY <3>1, <3>3 DEF Turn
    <2>2. QED
      BY <2>1
  <1>3. \E s \in some : P(s)
    <2>1. turns # {}
      BY <1>1
    <2>2. PICK x \in turns : \A y \in turns : x <= y
      <3> HIDE DEF turns
      <3>1. QED
        BY <1>2, <2>1, LeastElement
    <2>3. QED
      BY <2>2
  <1>4. Popped(p) \in some
    BY <1>1, <1>3
  <1>5. QED
    BY <1>4

\* The completions a visit takes, one of each sub-partition that drains.
Gone == {HeadFor(p) : p \in Drained}

LEMMA VisitedRange ==
  ASSUME TypeOK, PhaseInv, pc \in {"returns", "admit"}
  PROVE  Visited \in Partition
  <1>1. partRR + cur \in Int /\ NumPartitions \in Nat \ {0}
    BY Constants DEF TypeOK, PhaseInv, Partition
  <1>2. QED
    BY <1>1, ModRange DEF Visited, Partition

LEMMA DrainedHeads ==
  ASSUME TypeOK, QueuesInv, OnePlace
  PROVE  /\ IsFiniteSet(Drained)
         /\ \A p \in Drained :
              LET r == HeadFor(p)
                  q == returns[Popped(p)][p]
              IN /\ p \in SubPart /\ PartOf(p) = Visited /\ Len(reply[p]) < ReplyDepth
                 /\ Popped(p) \in Stack /\ q # <<>>
                 /\ r \in Req /\ SourceOf[r] = p /\ Home(r) = Popped(p) /\ r \in ToSet(q)
                 /\ IsReturning(r) /\ ~IsHeld(r) /\ ~IsReply(r) /\ ~IsWaiting(r)
                 /\ Tail(q) \in Seq(Req) /\ IsInjective(Tail(q))
                 /\ ToSet(Tail(q)) = ToSet(q) \ {r}
         /\ \A r : r \in Gone <=> (r \in Req /\ SourceOf[r] \in Drained
                                   /\ r = HeadFor(SourceOf[r]))
  <1>1. Drained \subseteq SubPart
    BY DEF Drained, Subs
  <1>2. IsFiniteSet(Drained)
    BY <1>1, FiniteSubParts, FS_Subset
  <1>3. ASSUME NEW p \in Drained
        PROVE  LET r == HeadFor(p)
                   q == returns[Popped(p)][p]
               IN /\ p \in SubPart /\ PartOf(p) = Visited /\ Len(reply[p]) < ReplyDepth
                  /\ Popped(p) \in Stack /\ q # <<>>
                  /\ r \in Req /\ SourceOf[r] = p /\ Home(r) = Popped(p) /\ r \in ToSet(q)
                  /\ IsReturning(r) /\ ~IsHeld(r) /\ ~IsReply(r) /\ ~IsWaiting(r)
                  /\ Tail(q) \in Seq(Req) /\ IsInjective(Tail(q))
                  /\ ToSet(Tail(q)) = ToSet(q) \ {r}
    <2> DEFINE r == HeadFor(p)
               q == returns[Popped(p)][p]
    <2>1. /\ p \in SubPart /\ PartOf(p) = Visited /\ Len(reply[p]) < ReplyDepth
          /\ Popped(p) # NoStack
      BY DEF Drained, Subs
    <2>2. Popped(p) \in Stack /\ q # <<>>
      BY <2>1, PoppedStack
    <2>3. q \in Seq(Req) /\ IsInjective(q) /\ ToSet(q) \subseteq Req
      BY <2>1, <2>2, Types DEF QueuesInv
    <2>4. r = Head(q)
      BY DEF HeadFor
    <2>5. \A x \in ToSet(q) : SourceOf[x] = p /\ Home(x) = Popped(p)
      BY <2>1, <2>2 DEF QueuesInv
    <2> HIDE DEF r, q
    <2>6. /\ Tail(q) \in Seq(Req) /\ IsInjective(Tail(q)) /\ r \in ToSet(q)
          /\ ToSet(Tail(q)) = ToSet(q) \ {r}
      BY <2>2, <2>3, <2>4, TailElements
    <2>7. r \in Req /\ SourceOf[r] = p /\ Home(r) = Popped(p)
      BY <2>3, <2>5, <2>6
    <2>8. IsReturning(r)
      BY <2>6, <2>7 DEF IsReturning, q
    <2>9. ~IsHeld(r) /\ ~IsReply(r) /\ ~IsWaiting(r)
      BY <2>7, <2>8 DEF OnePlace
    <2>10. QED
      BY <2>1, <2>2, <2>6, <2>7, <2>8, <2>9 DEF r, q
  <1>4. QED
    BY <1>2, <1>3 DEF Gone

\* Sub-partitions that each have a request of their own in a set.
LEMMA OneOfEach ==
  ASSUME NEW S, IsFiniteSet(S), NEW U, \A p \in U : \E r \in S : SourceOf[r] = p
  PROVE  Cardinality(U) \in Nat /\ Cardinality(S) \in Nat /\ Cardinality(U) <= Cardinality(S)
  <1> DEFINE f == [p \in U |-> CHOOSE r \in S : SourceOf[r] = p]
  <1>1. \A p \in U : f[p] \in S /\ SourceOf[f[p]] = p
    OBVIOUS
  <1>2. f \in Injection(U, S)
    BY <1>1 DEF Injection, IsInjective
  <1> HIDE DEF f
  <1>3. IsFiniteSet(U) /\ Cardinality(U) <= Cardinality(S)
    BY <1>2, FS_Injection
  <1>4. QED
    BY <1>3, FS_CardinalityType

LEMMA DrainReturnsStep ==
  ASSUME IInv, DrainReturns
  PROVE  IInv'
  <1> DEFINE D     == Drained
             h(p)  == HeadFor(p)
             at(p) == Popped(p)
             G     == Gone
             m     == Visited
             At(s) == {p \in D : at(p) = s}
             Z     == {p \in D : private[p] = 0}
  <1>1. /\ pc = "returns"
        /\ returns' = [s \in Stack |-> [p \in SubPart |->
              IF p \in D /\ at(p) = s THEN Tail(returns[s][p]) ELSE returns[s][p]]]
        /\ count' = [s \in Stack |-> count[s] - Cardinality(At(s))]
        /\ stackRR' = [p \in SubPart |->
              IF p \in D THEN (at(p) + 1) % NumStacks ELSE stackRR[p]]
        /\ saved' = saved \ Restored
        /\ addr' = [r \in Req |-> IF r \in Restored THEN GpuPage[r] ELSE addr[r]]
        /\ reply' = [p \in SubPart |->
              IF p \in Answered THEN Append(reply[p], h(p)) ELSE reply[p]]
        /\ private' = [p \in SubPart |-> IF p \in D THEN 0 ELSE private[p]]
        /\ shared' = [shared EXCEPT ![m] = @ - Cardinality(Z)]
        /\ pc' = "admit"
        /\ UNCHANGED <<cur, admitted, waiting, held, ready, partRR, borrower>>
    BY DEF DrainReturns, Repaid, deviceVars
  <1>2. TypeOK /\ QueuesInv /\ OnePlace /\ PlacesHold /\ CountInv /\ CreditInv /\ AddressInv
        /\ PhaseInv
    BY Places4 DEF IInv
  <1>3. m \in Partition
    BY <1>1, <1>2, VisitedRange
  <1>4. IsFiniteSet(D) /\ D \subseteq SubPart /\ Answered \subseteq D
    BY <1>2, DrainedHeads DEF Answered
  <1>5. \A p \in D :
          /\ p \in SubPart /\ PartOf(p) = m /\ Len(reply[p]) < ReplyDepth
          /\ at(p) \in Stack /\ returns[at(p)][p] # <<>>
          /\ h(p) \in Req /\ SourceOf[h(p)] = p /\ Home(h(p)) = at(p)
          /\ h(p) \in ToSet(returns[at(p)][p])
          /\ IsReturning(h(p)) /\ ~IsHeld(h(p)) /\ ~IsReply(h(p)) /\ ~IsWaiting(h(p))
          /\ Tail(returns[at(p)][p]) \in Seq(Req) /\ IsInjective(Tail(returns[at(p)][p]))
          /\ ToSet(Tail(returns[at(p)][p])) = ToSet(returns[at(p)][p]) \ {h(p)}
    BY <1>2, DrainedHeads
  <1>6. \A r : r \in G <=> (r \in Req /\ SourceOf[r] \in D /\ r = h(SourceOf[r]))
    BY <1>2, DrainedHeads
  <1>7. Restored = IF Rewrites THEN G ELSE {}
    BY DEF Restored, Gone
  <1>8. G = {h(p) : p \in D}
    BY DEF Gone
  <1>9. \A p \in Answered : p \in D /\ ~IsWriteback[h(p)]
    BY DEF Answered
  <1> HIDE DEF D, h, at, G, m
  <1>10. /\ waiting \in [SubPart -> Seq(Req)] /\ reply \in [SubPart -> Seq(Req)]
         /\ returns \in [Stack -> [SubPart -> Seq(Req)]] /\ count \in [Stack -> Nat]
         /\ private \in [SubPart -> 0 .. 1] /\ shared \in [Partition -> Nat]
    BY <1>2, Types
  \* the return buffers
  <1>11. ASSUME NEW s \in Stack, NEW p \in SubPart
         PROVE  /\ returns'[s][p] \in Seq(Req) /\ IsInjective(returns'[s][p])
                /\ ToSet(returns'[s][p]) = ToSet(returns[s][p]) \ G
    <2>1. /\ returns[s][p] \in Seq(Req) /\ IsInjective(returns[s][p])
          /\ \A r \in ToSet(returns[s][p]) : r \in Req /\ SourceOf[r] = p /\ Home(r) = s
      BY <1>2, Types DEF QueuesInv
    <2>2. CASE p \in D /\ at(p) = s
      <3>1. returns'[s][p] = Tail(returns[at(p)][p])
        BY <1>1, <2>2
      <3>2. \A r \in ToSet(returns[s][p]) : r \in G <=> r = h(p)
        BY <1>6, <2>1, <2>2
      <3>3. QED
        BY <1>5, <2>2, <3>1, <3>2
    <2>3. CASE ~(p \in D /\ at(p) = s)
      <3>1. returns'[s][p] = returns[s][p]
        BY <1>1, <2>3
      <3>2. \A r \in ToSet(returns[s][p]) : r \notin G
        BY <1>5, <1>6, <2>1, <2>3
      <3>3. QED
        BY <2>1, <3>1, <3>2
    <2>4. QED
      BY <2>2, <2>3
  \* the replies
  <1>12. ASSUME NEW p \in SubPart
         PROVE  /\ reply'[p] \in Seq(Req) /\ IsInjective(reply'[p])
                /\ Len(reply'[p]) <= ReplyDepth
                /\ \A r : r \in ToSet(reply'[p]) =>
                            r \in ToSet(reply[p]) \/ (r \in G /\ SourceOf[r] = p)
    <2>1. reply[p] \in Seq(Req) /\ IsInjective(reply[p]) /\ Len(reply[p]) <= ReplyDepth
      BY <1>2, Types DEF QueuesInv, TypeOK
    <2>2. CASE p \in Answered
      <3>1. reply'[p] = Append(reply[p], h(p)) /\ p \in D
        BY <1>1, <1>9, <2>2
      <3>2. h(p) \in Req /\ SourceOf[h(p)] = p /\ h(p) \notin ToSet(reply[p])
        BY <1>5, <3>1 DEF IsReply
      <3>3. h(p) \in G
        BY <1>6, <3>1, <3>2
      <3>4. /\ reply'[p] \in Seq(Req) /\ IsInjective(reply'[p])
            /\ Len(reply'[p]) = Len(reply[p]) + 1
            /\ ToSet(reply'[p]) = ToSet(reply[p]) \cup {h(p)}
        BY <2>1, <3>1, <3>2, AppendElements
      <3>5. Len(reply[p]) \in Nat /\ Len(reply[p]) < ReplyDepth /\ ReplyDepth \in Nat
        BY <1>5, <2>1, <3>1, LenProperties, Constants
      <3>6. QED
        BY <3>2, <3>3, <3>4, <3>5
    <2>3. CASE p \notin Answered
      BY <1>1, <2>1, <2>3
    <2>4. QED
      BY <2>2, <2>3

  <1>13. \A s \in Stack : Returning(s)' = Returning(s) \ G
    BY <1>11 DEF Returning
  <1>14. InSystem' = InSystem \ G
    <2>1. \A s \in Stack : held[s] \cap G = {}
      <3>1. \A r \in G : ~IsHeld(r)
        BY <1>5, <1>6
      <3>2. QED
        BY <1>2, <3>1 DEF PlacesHold
    <2>2. \A s \in Stack : (held[s] \cup Returning(s))' = (held[s] \cup Returning(s)) \ G
      BY <1>1, <1>13, <2>1
    <2>3. ASSUME NEW r
          PROVE  /\ (r \in InSystem') <=> \E s \in Stack : r \in (held[s] \cup Returning(s))'
                 /\ (r \in InSystem)  <=> \E s \in Stack : r \in held[s] \cup Returning(s)
      BY DEF InSystem
    <2>4. QED
      BY <2>2, <2>3
  <1>15. G \subseteq InSystem
    BY <1>2, <1>5, <1>6 DEF PlacesHold
  \* the counts of the return buffers
  <1>16. ASSUME NEW s \in Stack
         PROVE  /\ IsFiniteSet(Returning(s)') /\ count'[s] \in Nat
                /\ count'[s] = Cardinality(Returning(s)') /\ count'[s] <= ReturnCap
    <2> DEFINE A == At(s)
               F == [p \in A |-> h(p)]
               T == {F[p] : p \in A}
               R == Returning(s)
    <2>1. IsFiniteSet(R) /\ count[s] = Cardinality(R) /\ count[s] <= ReturnCap
      BY <1>2 DEF CountInv
    <2>2. A \subseteq D /\ IsFiniteSet(A)
      BY <1>4, FS_Subset
    <2>3. \A p, q \in A : F[p] = F[q] => p = q
      BY <1>5, <2>2
    <2>4. IsFiniteSet(T) /\ Cardinality(T) = Cardinality(A)
      <3> HIDE DEF A
      <3>1. DOMAIN F = A /\ F = [p \in A |-> F[p]]
        OBVIOUS
      <3> HIDE DEF F
      <3>2. QED
        BY <2>2, <2>3, <3>1, CountImage
    <2>5. T \subseteq R /\ R \ G = R \ T
      <3>1. \A r : r \in R <=> (r \in Req /\ IsReturning(r) /\ Home(r) = s)
        BY <1>2 DEF PlacesHold
      <3>2. \A r : r \in T <=> \E p \in D : at(p) = s /\ r = h(p)
        OBVIOUS
      <3> HIDE DEF R, T, A
      <3>3. \A r \in T : r \in R /\ r \in G
        BY <1>5, <1>8, <3>1, <3>2
      <3>4. \A r \in R : r \in G => r \in T
        BY <1>5, <1>6, <3>1, <3>2
      <3>5. QED
        BY <3>3, <3>4
    <2>6. Returning(s)' = R \ T
      BY <1>13, <2>5
    <2>7. count'[s] = count[s] - Cardinality(A)
      BY <1>1
    <2> HIDE DEF R, T, A
    <2>8. /\ IsFiniteSet(R \ T) /\ Cardinality(R) = Cardinality(T) + Cardinality(R \ T)
          /\ Cardinality(R \ T) \in Nat /\ Cardinality(T) \in Nat /\ Cardinality(R) \in Nat
      BY <2>1, <2>5, CountSplit
    <2>9. count'[s] = Cardinality(R \ T) /\ Cardinality(R \ T) <= ReturnCap
      BY <2>1, <2>4, <2>7, <2>8, Constants
    <2>10. QED
      BY <2>6, <2>8, <2>9
  <1>17. CountInv' /\ count' \in [Stack -> Nat]
    <2>1. CountInv'
      BY <1>16 DEF CountInv
    <2>2. count' = [s \in Stack |-> count'[s]]
      BY <1>1
    <2>3. QED
      BY <1>16, <2>1, <2>2
  \* the credits
  <1>18. \A p \in SubPart : private'[p] = IF p \in D THEN 0 ELSE private[p]
    BY <1>1
  <1>19. \A p \in SubPart : private'[p] = 1 => \E r \in InSystem' : SourceOf[r] = p
    <2>1. ASSUME NEW p \in SubPart, private'[p] = 1
          PROVE  \E r \in InSystem' : SourceOf[r] = p
      <3>1. p \notin D /\ private[p] = 1
        BY <1>18, <2>1
      <3>2. PICK r \in InSystem : SourceOf[r] = p
        BY <1>2, <3>1 DEF CreditInv
      <3>3. r \notin G
        BY <1>6, <3>1, <3>2
      <3>4. QED
        BY <1>14, <3>2, <3>3
    <2>2. QED
      BY <2>1
  <1>20. ASSUME NEW k \in Partition
         PROVE  /\ shared'[k] \in Nat
                /\ shared'[k] + Cardinality(InUse(k)') = Cardinality(Lent(k)')
                /\ SharedLimit # 0 => shared'[k] <= SharedLimit
    <2> DEFINE U == InUse(k)
               L == Lent(k)
    <2>1. /\ shared[k] \in Nat /\ shared[k] + Cardinality(U) = Cardinality(L)
          /\ SharedLimit # 0 => shared[k] <= SharedLimit
      BY <1>2, <1>10 DEF CreditInv
    <2>2. IsFiniteSet(U) /\ IsFiniteSet(L) /\ U \subseteq SubPart
      BY <1>2, FiniteSubParts, FS_Subset DEF CreditInv, InUse, Lent, Subs
    <2>3. Lent(k)' = L \ G
      BY <1>14 DEF Lent
    <2>4. InUse(k)' = U \ D
      BY <1>4, <1>18 DEF InUse, Subs
    <2>5. CASE k # m
      <3>1. L \ G = L
        BY <1>5, <1>6, <2>5 DEF Lent
      <3>2. U \ D = U
        BY <1>5, <2>5 DEF InUse, Subs
      <3>3. shared'[k] = shared[k]
        BY <1>1, <1>3, <1>10, <2>5
      <3>4. QED
        BY <2>1, <2>3, <2>4, <3>1, <3>2, <3>3
    <2>6. CASE k = m
      <3> DEFINE W == {p \in D : private[p] = 1}
      <3>1. G \subseteq L /\ W \subseteq U /\ U \ D = U \ W
        BY <1>5, <1>6, <1>15, <2>6 DEF Lent, InUse, Subs
      <3>2. Z \subseteq D /\ W \subseteq D /\ D \ Z = W
        BY <1>4, <1>10
      <3>3. IsFiniteSet(G) /\ Cardinality(G) = Cardinality(D)
        <4> DEFINE F == [p \in D |-> h(p)]
        <4>1. DOMAIN F = D /\ F = [p \in D |-> F[p]] /\ G = {F[p] : p \in D}
          BY <1>8
        <4>2. \A p, q \in D : F[p] = F[q] => p = q
          BY <1>5
        <4> HIDE DEF F
        <4>3. QED
          BY <1>4, <4>1, <4>2, CountImage
      <3>4. shared'[k] = shared[k] - Cardinality(Z)
        BY <1>1, <1>3, <1>10, <2>6
      <3> HIDE DEF U, L, Z, W
      <3>5. /\ Cardinality(D) = Cardinality(Z) + Cardinality(W)
            /\ Cardinality(Z) \in Nat /\ Cardinality(W) \in Nat /\ IsFiniteSet(W)
        BY <1>4, <3>2, CountSplit
      <3>6. /\ Cardinality(L) = Cardinality(G) + Cardinality(L \ G) /\ Cardinality(L \ G) \in Nat
            /\ IsFiniteSet(L \ G)
        BY <2>2, <3>1, CountSplit
      <3>7. Cardinality(U) = Cardinality(W) + Cardinality(U \ W) /\ Cardinality(U \ W) \in Nat
        BY <2>2, <3>1, CountSplit
      <3>8. Cardinality(U \ W) <= Cardinality(L \ G)
        <4>1. \A p \in U \ W : \E r \in L \ G : SourceOf[r] = p
          <5>1. ASSUME NEW p \in U \ D
                PROVE  \E r \in L \ G : SourceOf[r] = p
            <6>1. p \in SubPart /\ private'[p] = 1 /\ PartOf(p) = k
              BY <1>18 DEF U, InUse, Subs
            <6>2. PICK r \in InSystem' : SourceOf[r] = p
              BY <1>19, <6>1
            <6>3. r \in L \ G
              BY <1>14, <6>1, <6>2 DEF L, Lent
            <6>4. QED
              BY <6>2, <6>3
          <5>2. QED
            BY <3>1, <5>1
        <4>2. QED
          BY <3>6, <4>1, OneOfEach
      <3>9. /\ shared'[k] + Cardinality(U \ W) = Cardinality(L \ G)
            /\ shared'[k] \in Nat /\ shared'[k] <= shared[k]
        BY <2>1, <3>3, <3>4, <3>5, <3>6, <3>7, <3>8
      <3>10. SharedLimit # 0 => shared'[k] <= SharedLimit
        BY <2>1, <3>9, Constants
      <3>11. QED
        BY <2>3, <2>4, <3>1, <3>9, <3>10
    <2>7. QED
      BY <2>5, <2>6
  <1>21. CreditInv' /\ shared' \in [Partition -> Nat]
    <2>1. IsFiniteSet(InSystem')
      BY <1>2, <1>14, FS_Difference DEF CreditInv
    <2>2. CreditInv'
      BY <1>19, <1>20, <2>1 DEF CreditInv
    <2>3. shared' = [k \in Partition |-> shared'[k]]
      BY <1>1, <1>10
    <2>4. QED
      BY <1>20, <2>2, <2>3
  \* the addresses and the places
  <1>22. AddressInv'
    <2>1. saved' = IF Rewrites THEN InSystem' ELSE {}
      BY <1>1, <1>2, <1>7, <1>14 DEF AddressInv
    <2>2. ASSUME NEW r \in Req
          PROVE  addr'[r] = IF Rewrites /\ r \in InSystem' THEN LocalAt(GpuPage[r])
                            ELSE GpuPage[r]
      <3>1. addr'[r] = IF r \in Restored THEN GpuPage[r] ELSE addr[r]
        BY <1>1
      <3>2. addr[r] = IF Rewrites /\ r \in InSystem THEN LocalAt(GpuPage[r]) ELSE GpuPage[r]
        BY <1>2 DEF AddressInv
      <3>3. QED
        BY <1>7, <1>14, <3>1, <3>2
    <2>3. QED
      BY <2>1, <2>2 DEF AddressInv, LocalAt
  <1>23. TypeOK'
    <2>1. returns' \in [Stack -> [SubPart -> Seq(Req)]]
      <3>1. returns' = [s \in Stack |-> [p \in SubPart |-> returns'[s][p]]]
        BY <1>1
      <3>2. QED
        BY <1>11, <3>1
    <2>2. /\ reply' \in [SubPart -> Seq(Req)]
          /\ \A p \in SubPart : Len(waiting'[p]) <= L2Depth /\ Len(reply'[p]) <= ReplyDepth
      <3>1. reply' = [p \in SubPart |-> reply'[p]]
        BY <1>1
      <3>2. QED
        BY <1>1, <1>2, <1>12, <3>1 DEF TypeOK
    <2>3. stackRR' \in [SubPart -> Stack]
      <3>1. ASSUME NEW p \in SubPart
            PROVE  (IF p \in D THEN (at(p) + 1) % NumStacks ELSE stackRR[p]) \in Stack
        <4>1. CASE p \in D
          <5>1. at(p) + 1 \in Int /\ NumStacks \in Nat \ {0}
            BY <1>5, <4>1, Constants DEF Stack
          <5>2. (at(p) + 1) % NumStacks \in 0 .. NumStacks - 1
            BY <5>1, ModRange
          <5>3. QED
            BY <4>1, <5>2 DEF Stack
        <4>2. CASE p \notin D
          BY <1>2, <4>2 DEF TypeOK
        <4>3. QED
          BY <4>1, <4>2
      <3>2. QED
        BY <1>1, <3>1
    <2>4. saved' \in SUBSET Req /\ addr' \in [Req -> Nat]
      <3>1. \A r \in Req : GpuPage[r] \in Nat /\ addr[r] \in Nat
        BY <1>2, Constants DEF TypeOK
      <3>2. QED
        BY <1>1, <1>2, <3>1 DEF TypeOK
    <2>5. private' \in [SubPart -> 0 .. 1]
      BY <1>1, <1>10
    <2>6. QED
      BY <1>1, <1>2, <1>17, <1>21, <2>1, <2>2, <2>3, <2>4, <2>5 DEF TypeOK
  <1>24. PhaseInv'
    BY <1>1, <1>2 DEF PhaseInv
  <1>25. QueuesInv'
    <2>1. ASSUME NEW p \in SubPart
          PROVE  /\ IsInjective(waiting'[p]) /\ \A r \in ToSet(waiting'[p]) : SourceOf[r] = p
                 /\ IsInjective(reply'[p]) /\ \A r \in ToSet(reply'[p]) : SourceOf[r] = p
      BY <1>1, <1>2, <1>12 DEF QueuesInv
    <2>2. ASSUME NEW s \in Stack
          PROVE  /\ IsInjective(ready'[s]) /\ \A r \in held'[s] : Home(r) = s
                 /\ \A p \in SubPart :
                      /\ IsInjective(returns'[s][p])
                      /\ \A r \in ToSet(returns'[s][p]) : SourceOf[r] = p /\ Home(r) = s
      <3>1. IsInjective(ready'[s]) /\ \A r \in held'[s] : Home(r) = s
        BY <1>1, <1>2 DEF QueuesInv
      <3>2. ASSUME NEW p \in SubPart
            PROVE  /\ IsInjective(returns'[s][p])
                   /\ \A r \in ToSet(returns'[s][p]) : SourceOf[r] = p /\ Home(r) = s
        <4>1. \A r \in ToSet(returns[s][p]) : SourceOf[r] = p /\ Home(r) = s
          BY <1>2 DEF QueuesInv
        <4>2. QED
          BY <1>11, <4>1
      <3>3. QED
        BY <3>1, <3>2
    <2>3. QED
      BY <2>1, <2>2 DEF QueuesInv, Home, StackAt
  <1>26. OnePlace'
    <2>1. ASSUME NEW r \in Req
          PROVE  /\ IsWaiting(r)' <=> IsWaiting(r)
                 /\ IsHeld(r)' <=> IsHeld(r)
                 /\ IsReturning(r)' <=> (IsReturning(r) /\ r \notin G)
                 /\ IsReply(r)' => (IsReply(r) \/ r \in G)
      <3>1. Home(r) \in Stack /\ SourceOf[r] \in SubPart
        BY HomeType
      <3>2. /\ IsWaiting(r)' <=> IsWaiting(r)
            /\ IsHeld(r)' <=> IsHeld(r)
        BY <1>1 DEF IsWaiting, IsHeld
      <3>3. IsReturning(r)' <=> (IsReturning(r) /\ r \notin G)
        <4>1. IsReturning(r)' <=> r \in ToSet(returns'[Home(r)][SourceOf[r]])
          BY DEF IsReturning, Home, StackAt
        <4>2. QED
          BY <1>11, <3>1, <4>1 DEF IsReturning
      <3>4. IsReply(r)' => (IsReply(r) \/ r \in G)
        BY <1>12, <3>1 DEF IsReply
      <3>5. QED
        BY <3>2, <3>3, <3>4
    <2>2. \A r \in G : ~IsHeld(r) /\ ~IsWaiting(r)
      BY <1>5, <1>6
    <2>3. QED
      BY <1>2, <2>1, <2>2 DEF OnePlace
  <1>27. QED
    BY <1>17, <1>21, <1>22, <1>23, <1>24, <1>25, <1>26 DEF IInv
-----------------------------------------------------------------------------
(***************************************************************************)
(* The partitions: a request is admitted.                                  *)
(***************************************************************************)
\* The scan finds a sub-partition of the partition that can be admitted.
LEMMA ChosenSubPart ==
  ASSUME TypeOK, NEW m \in Partition, \E p \in Subs(m) : Admissible(p)
  PROVE  Chosen(m) \in SubPart /\ PartOf(Chosen(m)) = m /\ Admissible(Chosen(m))
  <1> DEFINE some   == {p \in Subs(m) : Admissible(p)}
             orders == {Order(p) : p \in some}
             P(p)   == \A q \in some : Order(p) <= Order(q)
  <1>1. some # {} /\ some \subseteq SubPart /\ Chosen(m) = CHOOSE p \in some : P(p)
    BY DEF Chosen, Subs
  <1>2. orders \subseteq Nat
    <2>1. ASSUME NEW p \in some PROVE Order(p) \in Nat
      <3> DEFINE a == p - borrower[PartOf(p)] - 1 + 2 * SubsPer
      <3>1. p \in Int /\ PartOf(p) = m /\ borrower[m] \in Int /\ SubsPer \in Nat \ {0}
        BY <1>1, Constants DEF TypeOK, SubPart, Subs
      <3>2. a \in Int /\ Order(p) = a % SubsPer
        BY <3>1 DEF Order
      <3> HIDE DEF a
      <3>3. a % SubsPer \in 0 .. SubsPer - 1
        BY <3>1, <3>2, ModRange
      <3>4. QED
        BY <3>2, <3>3
    <2>2. QED
      BY <2>1
  <1>3. \E p \in some : P(p)
    <2>1. orders # {}
      BY <1>1
    <2>2. PICK x \in orders : \A y \in orders : x <= y
      <3> HIDE DEF orders
      <3>1. QED
        BY <1>2, <2>1, LeastElement
    <2>3. QED
      BY <2>2
  <1>4. Chosen(m) \in some
    BY <1>1, <1>3
  <1>5. QED
    BY <1>4 DEF Subs

\* The visit of a partition ends: the loops stay in their range.
LEMMA EndVisitRange ==
  ASSUME TypeOK, PhaseInv, pc = "admit", NEW last \in Partition \cup {NoPart}, EndVisit(last)
  PROVE  /\ pc' \in {"idle", "returns"} /\ cur' \in Nat
         /\ admitted' \in Partition \cup {NoPart} /\ partRR' \in Partition
         /\ PhaseInv'
  <1>1. cur \in 0 .. NumPartitions - 1 /\ partRR \in Partition /\ NumPartitions \in Nat \ {0}
    BY Constants DEF PhaseInv, TypeOK
  <1>2. NextPartition(last) \in Partition
    <2>1. CASE last = NoPart
      BY <1>1, <2>1 DEF NextPartition
    <2>2. CASE last # NoPart
      <3>1. last + 1 \in Int
        BY <2>2 DEF Partition
      <3>2. (last + 1) % NumPartitions \in 0 .. NumPartitions - 1
        BY <1>1, <3>1, ModRange
      <3>3. QED
        BY <2>2, <3>2 DEF NextPartition, Partition
    <2>3. QED
      BY <2>1, <2>2
  <1>3. CASE cur + 1 = NumPartitions
    BY <1>1, <1>2, <1>3 DEF EndVisit, PhaseInv, Partition
  <1>4. CASE cur + 1 # NumPartitions
    BY <1>1, <1>4 DEF EndVisit, PhaseInv
  <1>5. QED
    BY <1>3, <1>4

LEMMA NoAdmissionStep ==
  ASSUME IInv, NoAdmission
  PROVE  IInv'
  <1>1. /\ pc = "admit" /\ EndVisit(admitted)
        /\ UNCHANGED <<waiting, held, ready, returns, count, saved, addr, stackRR,
                       private, shared, borrower, reply>>
    BY DEF NoAdmission, deviceVars, cubeVars, addrVars, creditVars
  <1>2. /\ pc' \in {"idle", "returns"} /\ cur' \in Nat
        /\ admitted' \in Partition \cup {NoPart} /\ partRR' \in Partition
        /\ PhaseInv'
    <2>1. TypeOK /\ PhaseInv /\ admitted \in Partition \cup {NoPart}
      BY DEF IInv, TypeOK
    <2>2. QED
      BY <1>1, <2>1, EndVisitRange
  <1>3. TypeOK'
    BY <1>1, <1>2 DEF IInv, TypeOK
  <1>4. QueuesInv' /\ OnePlace'
    BY <1>1 DEF IInv, QueuesInv, OnePlace, IsWaiting, IsHeld, IsReturning, IsReply
  <1>5. InSystem' = InSystem
    BY <1>1 DEF InSystem, Returning
  <1>6. QED
    BY <1>1, <1>2, <1>3, <1>4, <1>5, SystemKept, CountKept DEF IInv
LEMMA AdmitStep ==
  ASSUME IInv, Admit
  PROVE  IInv'
  <1> DEFINE m == Visited
             p == Chosen(m)
             r == Head(waiting[p])
             s == Home(r)
             L(k) == Lent(k)
             U(k) == InUse(k)
  <1>1. TypeOK /\ QueuesInv /\ OnePlace /\ PlacesHold /\ CountInv /\ CreditInv /\ AddressInv
        /\ PhaseInv
    BY Places4 DEF IInv
  <1>2. pc = "admit" /\ m \in Partition
    BY <1>1, VisitedRange DEF Admit
  <1>3. p \in SubPart /\ PartOf(p) = m /\ Admissible(p)
    <2>1. \E q \in Subs(m) : Admissible(q)
      BY DEF Admit
    <2>2. QED
      BY <1>1, <1>2, <2>1, ChosenSubPart
  <1>4. /\ waiting[p] \in Seq(Req) /\ waiting[p] # <<>> /\ IsInjective(waiting[p])
        /\ \A x \in ToSet(waiting[p]) : SourceOf[x] = p
        /\ waiting \in [SubPart -> Seq(Req)] /\ held \in [Stack -> SUBSET Req]
        /\ private \in [SubPart -> 0 .. 1] /\ shared \in [Partition -> Nat]
    BY <1>1, <1>3, Types DEF QueuesInv, Admissible
  <1>5. /\ Tail(waiting[p]) \in Seq(Req) /\ Len(Tail(waiting[p])) = Len(waiting[p]) - 1
        /\ r \in ToSet(waiting[p]) /\ ToSet(Tail(waiting[p])) = ToSet(waiting[p]) \ {r}
        /\ IsInjective(Tail(waiting[p]))
    BY <1>4, TailElements
  <1>6. /\ r \in Req /\ SourceOf[r] = p /\ s \in Stack
        /\ IsWaiting(r) /\ ~IsHeld(r) /\ ~IsReturning(r) /\ ~IsReply(r)
    <2>1. r \in Req
      BY <1>4, <1>5, ElementsOfSeq
    <2>2. SourceOf[r] = p /\ IsWaiting(r)
      BY <1>4, <1>5 DEF IsWaiting
    <2>3. QED
      BY <1>1, <2>1, <2>2, HomeType DEF OnePlace
  <1>7. r \notin InSystem
    BY <1>1, <1>6 DEF PlacesHold
  <1>8. addr[r] = GpuPage[r]
    BY <1>1, <1>6, <1>7 DEF AddressInv
  <1>9. StackAt(addr[r]) = s
    BY <1>8 DEF Home
  <1>10. /\ waiting' = [waiting EXCEPT ![p] = Tail(@)]
         /\ held' = [held EXCEPT ![s] = @ \cup {r}]
         /\ saved' = (IF Rewrites THEN saved \cup {r} ELSE saved)
         /\ addr' = (IF Rewrites THEN [addr EXCEPT ![r] = LocalAt(@)] ELSE addr)
         /\ private' = [private EXCEPT ![p] = 1]
         /\ shared' = [shared EXCEPT ![m] = IF private[p] = 0 THEN @ ELSE @ + 1]
         /\ borrower' = [borrower EXCEPT ![m] = p % SubsPer]
         /\ EndVisit(m)
         /\ UNCHANGED <<ready, returns, count, stackRR, reply>>
    BY <1>9 DEF Admit, cubeVars
  <1>11. /\ pc' \in {"idle", "returns"} /\ cur' \in Nat
         /\ admitted' \in Partition \cup {NoPart} /\ partRR' \in Partition
         /\ PhaseInv'
    <2>1. m \in Partition \cup {NoPart}
      BY <1>2
    <2>2. QED
      BY <1>1, <1>2, <1>10, <2>1, EndVisitRange
  <1>12. HasCredit(p)
    BY <1>3 DEF Admissible
  <1>13. s = StackAt(GpuPage[r])
    BY DEF Home
  <1> HIDE DEF m, p, r, s
  <1>14. /\ waiting'[p] = Tail(waiting[p])
         /\ \A q \in SubPart : q # p => waiting'[q] = waiting[q]
         /\ held'[s] = held[s] \cup {r}
         /\ \A t \in Stack : t # s => held'[t] = held[t]
         /\ private'[p] = 1
         /\ \A q \in SubPart : q # p => private'[q] = private[q]
         /\ shared'[m] = IF private[p] = 0 THEN shared[m] ELSE shared[m] + 1
         /\ \A k \in Partition : k # m => shared'[k] = shared[k]
    BY <1>2, <1>3, <1>4, <1>6, <1>10
  <1>15. InSystem' = InSystem \cup {r}
    <2>1. \A t \in Stack : Returning(t)' = Returning(t)
      BY <1>10 DEF Returning
    <2>2. ASSUME NEW x
          PROVE  /\ (x \in InSystem') <=> \E t \in Stack : x \in (held[t] \cup Returning(t))'
                 /\ (x \in InSystem)  <=> \E t \in Stack : x \in held[t] \cup Returning(t)
      BY DEF InSystem
    <2>3. QED
      BY <1>6, <1>14, <2>1, <2>2
  <1>16. CountInv'
    BY <1>1, <1>10, CountKept
  <1>17. TypeOK'
    <2>1. waiting' \in [SubPart -> Seq(Req)] /\ held' \in [Stack -> SUBSET Req]
      BY <1>4, <1>5, <1>6, <1>10
    <2>2. \A q \in SubPart : Len(waiting'[q]) <= L2Depth /\ Len(reply'[q]) <= ReplyDepth
      <3>1. Len(waiting[p]) \in Nat /\ Len(waiting[p]) <= L2Depth /\ L2Depth \in Nat
        BY <1>1, <1>3, <1>4, LenProperties, Constants DEF TypeOK
      <3>2. Len(waiting'[p]) <= L2Depth
        BY <1>5, <1>14, <3>1
      <3>3. QED
        BY <1>1, <1>10, <1>14, <3>2 DEF TypeOK
    <2>3. \A t \in Stack : Len(ready'[t]) <= ReturnCap /\ ToSet(ready'[t]) \subseteq held'[t]
      <3>1. ASSUME NEW t \in Stack
            PROVE  held[t] \subseteq held'[t]
        BY <1>14
      <3>2. QED
        BY <1>1, <1>10, <3>1 DEF TypeOK
    <2>4. saved' \in SUBSET Req /\ addr' \in [Req -> Nat]
      <3>1. saved' \in SUBSET Req
        BY <1>1, <1>6, <1>10 DEF TypeOK
      <3>2. addr[r] \in Nat /\ NumStacks \in Nat \ {0}
        BY <1>1, <1>6, Constants DEF TypeOK
      <3>3. LocalAt(addr[r]) \in Nat
        BY <3>2, DivRange DEF LocalAt
      <3>4. addr' \in [Req -> Nat]
        BY <1>1, <1>6, <1>10, <3>3 DEF TypeOK
      <3>5. QED
        BY <3>1, <3>4
    <2>5. private' \in [SubPart -> 0 .. 1] /\ shared' \in [Partition -> Nat]
      <3>1. private' \in [SubPart -> 0 .. 1]
        <4>1. 1 \in 0 .. 1
          OBVIOUS
        <4>2. QED
          BY <1>4, <1>10, <4>1
      <3>2. shared[m] \in Nat /\ shared[m] + 1 \in Nat
        BY <1>2, <1>4
      <3>3. QED
        BY <1>4, <1>10, <3>1, <3>2
    <2>6. borrower' \in [Partition -> 0 .. SubsPer - 1]
      <3>1. p \in Int /\ SubsPer \in Nat \ {0}
        BY <1>3, Constants DEF SubPart
      <3>2. p % SubsPer \in 0 .. SubsPer - 1
        BY <3>1, ModRange
      <3>3. QED
        BY <1>1, <1>2, <1>10, <3>2 DEF TypeOK
    <2>7. QED
      BY <1>1, <1>10, <1>11, <2>1, <2>2, <2>3, <2>4, <2>5, <2>6 DEF TypeOK
  <1>18. QueuesInv'
    <2>1. ASSUME NEW q \in SubPart
          PROVE  /\ IsInjective(waiting'[q]) /\ \A x \in ToSet(waiting'[q]) : SourceOf[x] = q
                 /\ IsInjective(reply'[q]) /\ \A x \in ToSet(reply'[q]) : SourceOf[x] = q
      BY <1>1, <1>4, <1>5, <1>10, <1>14 DEF QueuesInv
    <2>2. ASSUME NEW t \in Stack
          PROVE  /\ IsInjective(ready'[t]) /\ \A x \in held'[t] : Home(x) = t
                 /\ \A q \in SubPart :
                      /\ IsInjective(returns'[t][q])
                      /\ \A x \in ToSet(returns'[t][q]) : SourceOf[x] = q /\ Home(x) = t
      <3>1. \A x \in held'[t] : Home(x) = t
        BY <1>1, <1>14, <1>13 DEF QueuesInv, Home
      <3>2. QED
        BY <1>1, <1>10, <3>1 DEF QueuesInv
    <2>3. QED
      BY <2>1, <2>2 DEF QueuesInv, Home, StackAt
  <1>19. OnePlace'
    <2>1. ASSUME NEW x \in Req
          PROVE  /\ IsWaiting(x)' <=> (IsWaiting(x) /\ x # r)
                 /\ IsHeld(x)' <=> (IsHeld(x) \/ x = r)
                 /\ IsReturning(x)' <=> IsReturning(x)
                 /\ IsReply(x)' <=> IsReply(x)
      <3>1. Home(x) \in Stack /\ SourceOf[x] \in SubPart
        BY HomeType
      <3>2. IsWaiting(x)' <=> (IsWaiting(x) /\ x # r)
        BY <1>5, <1>6, <1>14, <3>1 DEF IsWaiting
      <3>3. IsHeld(x)' <=> (IsHeld(x) \/ x = r)
        <4>1. IsHeld(x)' <=> x \in held'[Home(x)]
          BY DEF IsHeld, Home, StackAt
        <4>2. x = r => Home(x) = s
          BY <1>13 DEF Home
        <4>3. QED
          BY <1>14, <3>1, <4>1, <4>2 DEF IsHeld
      <3>4. /\ IsReturning(x)' <=> IsReturning(x)
            /\ IsReply(x)' <=> IsReply(x)
        BY <1>10 DEF IsReturning, IsReply, Home, StackAt
      <3>5. QED
        BY <3>2, <3>3, <3>4
    <2>2. QED
      BY <1>1, <1>6, <2>1 DEF OnePlace
  <1>20. AddressInv'
    <2>1. saved' = IF Rewrites THEN InSystem' ELSE {}
      BY <1>1, <1>10, <1>15 DEF AddressInv
    <2>2. ASSUME NEW x \in Req
          PROVE  addr'[x] = IF Rewrites /\ x \in InSystem' THEN LocalAt(GpuPage[x])
                            ELSE GpuPage[x]
      <3>1. addr[x] = IF Rewrites /\ x \in InSystem THEN LocalAt(GpuPage[x]) ELSE GpuPage[x]
        BY <1>1 DEF AddressInv
      <3>2. addr'[x] = IF Rewrites /\ x = r THEN LocalAt(addr[x]) ELSE addr[x]
        BY <1>1, <1>6, <1>10 DEF TypeOK
      <3>3. QED
        BY <1>7, <1>8, <1>15, <3>1, <3>2
    <2>3. QED
      BY <2>1, <2>2 DEF AddressInv, LocalAt
  <1>21. CreditInv'
    <2>1. IsFiniteSet(InSystem')
      BY <1>1, <1>15, FS_AddElement DEF CreditInv
    <2>2. ASSUME NEW q \in SubPart, private'[q] = 1
          PROVE  \E x \in InSystem' : SourceOf[x] = q
      <3>1. CASE q = p
        BY <1>6, <1>15, <3>1
      <3>2. CASE q # p
        <4>1. private[q] = 1
          BY <1>14, <2>2, <3>2
        <4>2. \E x \in InSystem : SourceOf[x] = q
          BY <1>1, <4>1 DEF CreditInv
        <4>3. QED
          BY <1>15, <4>2
      <3>3. QED
        BY <3>1, <3>2
    <2>3. ASSUME NEW k \in Partition
          PROVE  /\ shared'[k] + Cardinality(InUse(k)') = Cardinality(Lent(k)')
                 /\ SharedLimit # 0 => shared'[k] <= SharedLimit
      <3>1. /\ shared[k] + Cardinality(U(k)) = Cardinality(L(k)) /\ shared[k] \in Nat
            /\ SharedLimit # 0 => shared[k] <= SharedLimit
        BY <1>1, <1>4 DEF CreditInv
      <3>2. IsFiniteSet(L(k)) /\ IsFiniteSet(U(k)) /\ r \notin L(k)
        BY <1>1, <1>7, FiniteSubParts, FS_Subset DEF CreditInv, Lent, InUse, Subs
      <3>3. Cardinality(L(k)) \in Nat /\ Cardinality(U(k)) \in Nat
        BY <3>2, FS_CardinalityType
      <3>4. Lent(k)' = IF k = m THEN L(k) \cup {r} ELSE L(k)
        BY <1>3, <1>6, <1>15 DEF Lent
      <3>5. InUse(k)' = IF k = m THEN U(k) \cup {p} ELSE U(k)
        BY <1>3, <1>14 DEF InUse, Subs
      <3>6. k = m => (p \in U(k) <=> private[p] = 1)
        BY <1>3 DEF InUse, Subs
      <3> HIDE DEF L, U
      <3>7. CASE k # m
        BY <1>14, <3>1, <3>4, <3>5, <3>7
      <3>8. CASE k = m
        <4>1. Cardinality(L(k) \cup {r}) = Cardinality(L(k)) + 1
          BY <3>2, FS_AddElement
        <4>2. CASE private[p] = 0
          <5>1. Cardinality(U(k) \cup {p}) = Cardinality(U(k)) + 1
            <6>1. p \notin U(k)
              BY <3>6, <3>8, <4>2
            <6>2. QED
              BY <3>2, <6>1, FS_AddElement
          <5>2. shared'[k] = shared[k]
            BY <1>14, <3>8, <4>2
          <5>3. Cardinality(Lent(k)') = Cardinality(L(k)) + 1
                /\ Cardinality(InUse(k)') = Cardinality(U(k)) + 1
            BY <3>4, <3>5, <3>8, <4>1, <5>1
          <5>4. QED
            BY <3>1, <3>3, <5>2, <5>3
        <4>3. CASE private[p] # 0
          <5>1. private[p] = 1
            BY <1>3, <1>4, <4>3
          <5>2. U(k) \cup {p} = U(k)
            BY <3>6, <3>8, <5>1
          <5>3. shared'[k] = shared[k] + 1
            BY <1>14, <3>8, <4>3
          <5>4. Cardinality(Lent(k)') = Cardinality(L(k)) + 1
                /\ Cardinality(InUse(k)') = Cardinality(U(k))
            BY <3>4, <3>5, <3>8, <4>1, <5>2
          <5>5. SharedLimit # 0 => shared[k] < SharedLimit
            BY <1>3, <1>12, <3>8, <4>3 DEF HasCredit
          <5>6. QED
            BY <3>1, <3>3, <5>3, <5>4, <5>5, Constants
        <4>4. QED
          BY <4>2, <4>3
      <3>9. QED
        BY <3>7, <3>8
    <2>4. QED
      BY <2>1, <2>2, <2>3 DEF CreditInv
  <1>22. QED
    BY <1>11, <1>16, <1>17, <1>18, <1>19, <1>20, <1>21 DEF IInv
-----------------------------------------------------------------------------
(***************************************************************************)
(* The theorems.                                                           *)
(***************************************************************************)
LEMMA NextStep == IInv /\ [Next]_vars => IInv'
  <1> SUFFICES ASSUME IInv, [Next]_vars PROVE IInv'
    OBVIOUS
  <1>1. CASE \E r \in Req : Send(r) \/ Complete(r)
    BY <1>1, SendStep, CompleteStep
  <1>2. CASE \E p \in SubPart : Consume(p)
    BY <1>2, ConsumeStep
  <1>3. CASE BeginTick
    BY <1>3, BeginTickStep
  <1>4. CASE Collect
    BY <1>4, CollectStep
  <1>5. CASE DrainReturns
    BY <1>5, DrainReturnsStep
  <1>6. CASE Admit
    BY <1>6, AdmitStep
  <1>7. CASE NoAdmission
    BY <1>7, NoAdmissionStep
  <1>8. CASE UNCHANGED vars
    BY <1>8, StutterStep
  <1>9. QED
    BY <1>1, <1>2, <1>3, <1>4, <1>5, <1>6, <1>7, <1>8 DEF Next, Tick

\* The system keeps its requests where they belong, each at one place, and what
\* it keeps beside the queues is counted from where they are.
THEOREM SystemInvariant == Spec => []IInv
  BY InitInv, NextStep, PTL DEF Spec

\* m_return_count is the number of places taken in the return buffer: no queue
\* holds a request twice and no two queues hold the same.
LEMMA PlacesCounted ==
  ASSUME TypeOK, QueuesInv, NEW s \in Stack, IsFiniteSet(Returning(s))
  PROVE  Cardinality(Places(s)) = Cardinality(Returning(s))
  <1> DEFINE R == Returning(s)
             P == Places(s)
             f == [x \in P |-> returns[s][x[1]][x[2]]]
  <1>1. \A p \in SubPart : IsInjective(returns[s][p])
                           /\ \A r \in ToSet(returns[s][p]) : SourceOf[r] = p
    BY DEF QueuesInv
  <1>2. \A x : x \in P <=> \E p \in SubPart : \E i \in DOMAIN returns[s][p] : x = <<p, i>>
    BY DEF Places
  <1>3. \A r : r \in R <=> \E p \in SubPart : \E i \in DOMAIN returns[s][p] :
                             r = returns[s][p][i]
    BY DEF Returning, ToSet
  <1>4. \A p \in SubPart : \A i \in DOMAIN returns[s][p] :
          SourceOf[returns[s][p][i]] = p
    BY <1>1 DEF ToSet
  <1>5. f \in Bijection(P, R)
    <2> HIDE DEF P, R
    <2>1. ASSUME NEW x \in P PROVE f[x] \in R
      BY <1>2, <1>3
    <2>2. ASSUME NEW x \in P, NEW y \in P, f[x] = f[y] PROVE x = y
      <3>1. PICK p \in SubPart : \E i \in DOMAIN returns[s][p] : x = <<p, i>>
        BY <1>2
      <3>2. PICK i \in DOMAIN returns[s][p] : x = <<p, i>>
        BY <3>1
      <3>3. PICK q \in SubPart : \E k \in DOMAIN returns[s][q] : y = <<q, k>>
        BY <1>2
      <3>4. PICK k \in DOMAIN returns[s][q] : y = <<q, k>>
        BY <3>3
      <3>5. f[x] = returns[s][p][i] /\ f[y] = returns[s][q][k]
        BY <3>2, <3>4
      <3>6. p = q
        BY <1>4, <2>2, <3>5
      <3>7. i = k
        BY <1>1, <2>2, <3>5, <3>6 DEF IsInjective
      <3>8. QED
        BY <3>2, <3>4, <3>6, <3>7
    <2>3. ASSUME NEW r \in R PROVE \E x \in P : f[x] = r
      <3>1. PICK p \in SubPart : \E i \in DOMAIN returns[s][p] : r = returns[s][p][i]
        BY <1>3
      <3>2. PICK i \in DOMAIN returns[s][p] : r = returns[s][p][i]
        BY <3>1
      <3>3. <<p, i>> \in P
        BY <1>2
      <3>4. QED
        BY <3>2, <3>3
    <2>4. f \in [P -> R]
      BY <2>1
    <2> HIDE DEF f
    <2>5. QED
      BY <2>2, <2>3, <2>4 DEF Bijection, Injection, Surjection, IsInjective
  <1> HIDE DEF P, R, f
  <1>6. IsFiniteSet(R)
    BY DEF R
  <1>7. f \in Injection(P, R) /\ f \in Surjection(P, R)
    BY <1>5 DEF Bijection
  <1>8. Cardinality(P) = Cardinality(R)
    BY <1>6, <1>7, FS_Injection
  <1>9. QED
    BY <1>8 DEF P, R
\* What is kept beside the queues agrees with where the requests are.
LEMMA SystemFromPlaces == IInv => SystemInv
  <1> SUFFICES ASSUME IInv PROVE SystemInv
    OBVIOUS
  <1>1. TypeOK /\ QueuesInv /\ OnePlace /\ PlacesHold /\ CountInv /\ CreditInv /\ AddressInv
    BY Places4 DEF IInv
  <1>2. ReturnCountExact
    <2>1. ASSUME NEW s \in Stack
          PROVE  count[s] = Cardinality(Places(s)) /\ count[s] <= ReturnCap
      <3>1. /\ IsFiniteSet(Returning(s)) /\ count[s] = Cardinality(Returning(s))
            /\ count[s] <= ReturnCap
        BY <1>1 DEF CountInv
      <3>2. Cardinality(Places(s)) = Cardinality(Returning(s))
        BY <1>1, <3>1, PlacesCounted
      <3>3. QED
        BY <3>1, <3>2
    <2>2. QED
      BY <2>1 DEF ReturnCountExact
  <1>3. AddressRestored
    BY <1>1 DEF AddressInv, AddressRestored
  <1>4. CreditsExact
    <2>1. ASSUME NEW m \in Partition
          PROVE  /\ Cardinality({p \in Subs(m) : private[p] = 1}) + shared[m]
                      = Cardinality({r \in InSystem : PartOf(SourceOf[r]) = m})
                 /\ SharedLimit # 0 => shared[m] <= SharedLimit
      <3>1. /\ shared[m] + Cardinality(InUse(m)) = Cardinality(Lent(m))
            /\ SharedLimit # 0 => shared[m] <= SharedLimit
        BY <1>1 DEF CreditInv
      <3>2. shared[m] \in Nat /\ Cardinality(InUse(m)) \in Nat
        <4>1. IsFiniteSet(InUse(m))
          BY FiniteSubParts, FS_Subset DEF InUse, Subs
        <4>2. QED
          BY <1>1, <4>1, Types, FS_CardinalityType
      <3>3. Cardinality(InUse(m)) + shared[m] = Cardinality(Lent(m))
        BY <3>1, <3>2
      <3>4. QED
        BY <3>1, <3>3 DEF InUse, Lent
    <2>2. QED
      BY <2>1 DEF CreditsExact
  <1>5. BusyExact
    <2>1. \A s \in Stack : CubeBusy(s) <=> (held[s] # {} \/ Returning(s) # {})
      <3>1. ASSUME NEW s \in Stack
            PROVE  (\E p \in SubPart : returns[s][p] # <<>>) <=> Returning(s) # {}
        <4>1. \A p \in SubPart : returns[s][p] # <<>> <=> ToSet(returns[s][p]) # {}
          <5>1. ASSUME NEW p \in SubPart
                PROVE  returns[s][p] # <<>> <=> ToSet(returns[s][p]) # {}
            <6>1. returns[s][p] \in Seq(Req)
              BY <1>1, Types
            <6>2. QED
              BY <6>1, ElementsOfSeq
          <5>2. QED
            BY <5>1
        <4>2. QED
          BY <4>1 DEF Returning
      <3>2. QED
        BY <3>1 DEF CubeBusy
    <2>2. (\E s \in Stack : CubeBusy(s)) <=> InSystem # {}
      BY <2>1 DEF InSystem
    <2>3. saved # {} => InSystem # {}
      BY <1>1 DEF AddressInv
    <2>4. QED
      BY <2>2, <2>3 DEF BusyExact, Busy
  <1>6. QED
    BY <1>1, <1>2, <1>3, <1>4, <1>5 DEF SystemInv

\* m_return_count, the saved addresses, the credits of the partitions and the
\* sign that the device is busy are exact in every state, however pushes,
\* collections and pops of all partitions interleave.
THEOREM SystemExact == Spec => []SystemInv
  BY SystemInvariant, SystemFromPlaces, PTL
LEMMA AtMostOne ==
  ASSUME NEW S, \A x, y \in S : x = y
  PROVE  Cardinality(S) <= 1
  <1>1. CASE S = {}
    BY <1>1, FS_EmptySet
  <1>2. CASE S # {}
    <2>1. PICK x \in S : TRUE
      BY <1>2
    <2>2. S = {x}
      BY <2>1
    <2>3. Cardinality({x}) = 1
      BY FS_Singleton
    <2>4. QED
      BY <2>2, <2>3
  <1>3. QED
    BY <1>1, <1>2

LEMMA RoutedFromPlaces == IInv => RoutedHome
  <1> SUFFICES ASSUME IInv PROVE RoutedHome
    OBVIOUS
  <1>1. TypeOK /\ QueuesInv /\ OnePlace
    BY DEF IInv
  <1>2. ASSUME NEW q, IsInjective(q), NEW r
        PROVE  Cardinality(In(q, r)) <= 1
    <2>1. \A i, k \in In(q, r) : i = k
      BY <1>2 DEF In, IsInjective
    <2> DEFINE I == In(q, r)
    <2> HIDE DEF I
    <2>2. \A i, k \in I : i = k
      BY <2>1 DEF I
    <2>3. Cardinality(I) <= 1
      BY <2>2, AtMostOne
    <2>4. QED
      BY <2>3 DEF I
  <1> DEFINE Q(r) ==
        {<<"waiting", p>> : p \in {x \in SubPart : r \in ToSet(waiting[x])}}
          \cup {<<"reply", p>> : p \in {x \in SubPart : r \in ToSet(reply[x])}}
          \cup {<<"held", SourceOf[r]>> : s \in {t \in Stack : r \in held[t]}}
          \cup {<<"returns", p>> : p \in {x \in SubPart :
                  \E s \in Stack : r \in ToSet(returns[s][x])}}
  <1>3. ASSUME NEW r \in Req, NEW x \in Q(r)
        PROVE  \/ x = <<"waiting", SourceOf[r]>> /\ IsWaiting(r)
               \/ x = <<"reply", SourceOf[r]>> /\ IsReply(r)
               \/ x = <<"held", SourceOf[r]>> /\ IsHeld(r)
               \/ x = <<"returns", SourceOf[r]>> /\ IsReturning(r)
    <2>1. CASE \E p \in SubPart : r \in ToSet(waiting[p]) /\ x = <<"waiting", p>>
      BY <1>1, <2>1 DEF QueuesInv, IsWaiting
    <2>2. CASE \E p \in SubPart : r \in ToSet(reply[p]) /\ x = <<"reply", p>>
      BY <1>1, <2>2 DEF QueuesInv, IsReply
    <2>3. CASE \E t \in Stack : r \in held[t] /\ x = <<"held", SourceOf[r]>>
      BY <1>1, <2>3 DEF QueuesInv, IsHeld
    <2>4. CASE \E p \in SubPart : \E s \in Stack :
                 r \in ToSet(returns[s][p]) /\ x = <<"returns", p>>
      BY <1>1, <2>4 DEF QueuesInv, IsReturning
    <2>5. QED
      BY <1>3, <2>1, <2>2, <2>3, <2>4
  <1>4. ASSUME NEW r \in Req
        PROVE  Cardinality(Q(r)) <= 1 /\ \A q \in Q(r) : q[2] = SourceOf[r]
    <2> DEFINE P == Q(r)
    <2> HIDE DEF Q
    <2>1. \A x, y \in P : x = y
      BY <1>1, <1>3 DEF OnePlace
    <2>2. \A q \in P : q[2] = SourceOf[r]
      BY <1>3
    <2> HIDE DEF P
    <2>3. Cardinality(P) <= 1
      BY <2>1, AtMostOne
    <2>4. QED
      BY <2>2, <2>3 DEF P
  <1>5. ASSUME NEW r \in Req, NEW p \in SubPart
        PROVE  Cardinality(In(waiting[p], r)) <= 1 /\ Cardinality(In(reply[p], r)) <= 1
    BY <1>1, <1>2 DEF QueuesInv
  <1>6. ASSUME NEW r \in Req, NEW s \in Stack,
               r \in held[s] \/ (\E p \in SubPart : r \in ToSet(returns[s][p]))
        PROVE  s = GpuPage[r] % NumStacks
    BY <1>1, <1>6 DEF QueuesInv, Home, StackAt
  <1>7. QED
    BY <1>4, <1>5, <1>6 DEF RoutedHome

\* A request is at one place at most, in the stack of its GPU address, and on
\* its way back to the sub-partition that sent it, whatever the order in which
\* pop_return_for takes the completions of the stacks.
THEOREM RequestsRoutedHome == Spec => []RoutedHome
  BY SystemInvariant, RoutedFromPlaces, PTL
LEMMA DevicesInit == Init => \A s \in Stack : Device(s)!DeviceInit
  <1> SUFFICES ASSUME Init, NEW s \in Stack PROVE Device(s)!DeviceInit
    OBVIOUS
  <1>1. held[s] = {} /\ ready[s] = <<>>
    BY DEF Init
  <1>2. QED
    BY <1>1 DEF Device!DeviceInit

LEMMA DevicesStep ==
  ASSUME IInv, [Next]_vars, NEW s \in Stack
  PROVE  Device(s)!DeviceNext \/ UNCHANGED <<held[s], ready[s]>>
  <1>1. TypeOK /\ QueuesInv /\ OnePlace /\ PlacesHold /\ AddressInv /\ PhaseInv
    BY Places4 DEF IInv
  <1>2. held[s] \subseteq Req /\ ready[s] \in Seq(Req) /\ IsInjective(ready[s])
        /\ Len(ready[s]) \in Nat /\ DOMAIN ready[s] = 1 .. Len(ready[s])
        /\ held \in [Stack -> SUBSET Req] /\ ready \in [Stack -> Seq(Req)]
    BY <1>1, Types, LenProperties DEF QueuesInv
  <1>3. ASSUME NEW r \in Req, Complete(r)
        PROVE  Device(s)!DeviceNext \/ UNCHANGED <<held[s], ready[s]>>
    <2>1. /\ r \in held[cur] \ ToSet(ready[cur]) /\ Len(ready[cur]) < ReturnCap
          /\ ready' = [ready EXCEPT ![cur] = Append(@, r)] /\ held' = held
      BY <1>3 DEF Complete
    <2>2. CASE s = cur
      <3>1. /\ r \in held[s] \ ToSet(ready[s]) /\ Len(ready[s]) < ReturnCap
            /\ ready'[s] = Append(ready[s], r) /\ held'[s] = held[s]
        BY <1>2, <2>1, <2>2
      <3>2. Device(s)!Complete(r)
        BY <3>1 DEF Device!Complete, Device!Completed, ToSet
      <3>3. QED
        BY <3>2 DEF Device!DeviceNext
    <2>3. CASE s # cur
      BY <1>2, <2>1, <2>3
    <2>4. QED
      BY <2>2, <2>3
  <1>4. CASE Collect
    <2> DEFINE n == Collected(s)
               q == ready[s]
               u == SubSeq(q, 1, n)
               v == SubSeq(q, n + 1, Len(q))
    <2>1. CASE s = cur
      <3>1. n \in 0 .. Len(q)
        BY CollectedRange
      <3>2. held'[s] = held[s] \ ToSet(u) /\ ready'[s] = v
        BY <1>2, <1>4, <2>1 DEF Collect, Left
      <3>3. q \in Seq(Req) /\ Len(q) \in Nat /\ DOMAIN q = 1 .. Len(q)
        BY <1>2
      <3>4. q = ready[s]
        OBVIOUS
      <3> HIDE DEF n, q
      <3>5. DOMAIN u = 1 .. n /\ \A i \in 1 .. n : u[i] = q[i]
        BY <3>1, <3>3, FrontOfSeq
      <3>6. ToSet(u) = {q[i] : i \in 1 .. n}
        BY <3>5 DEF ToSet
      <3>7. CASE n = 0
        <4>1. v \in Seq(Req) /\ Len(v) = Len(q) - n
              /\ \A i \in 1 .. Len(q) - n : v[i] = q[n + i]
          BY <3>1, <3>3, RestOfSeq
        <4> HIDE DEF v
        <4>2. Len(v) = Len(q) /\ \A i \in 1 .. Len(v) : v[i] = q[i]
          BY <3>3, <3>7, <4>1
        <4>3. v = q
          BY <3>3, <4>1, <4>2, SeqEqual
        <4>4. {q[i] : i \in 1 .. n} = {}
          BY <3>7
        <4>5. QED
          BY <3>2, <3>4, <3>6, <4>3, <4>4
      <3>8. CASE n # 0
        <4>1. n \in DOMAIN ready[s]
          BY <3>1, <3>3, <3>4, <3>8
        <4>2. /\ held'[s] = held[s] \ {ready[s][i] : i \in 1 .. n}
              /\ ready'[s] = SubSeq(ready[s], n + 1, Len(ready[s]))
          BY <3>2, <3>4, <3>6
        <4>3. Device(s)!Take
          BY <4>1, <4>2 DEF Device!Take
        <4>4. QED
          BY <4>3 DEF Device!DeviceNext
      <3>9. QED
        BY <3>7, <3>8
    <2>2. CASE s # cur
      BY <1>2, <1>4, <2>2 DEF Collect
    <2>3. QED
      BY <2>1, <2>2
  <1>5. CASE Admit
    <2> DEFINE m == Visited
               p == Chosen(m)
               r == Head(waiting[p])
    <2>1. pc = "admit" /\ m \in Partition
      BY <1>1, <1>5, VisitedRange DEF Admit
    <2>2. p \in SubPart /\ Admissible(p)
      <3>1. \E q \in Subs(m) : Admissible(q)
        BY <1>5 DEF Admit
      <3>2. QED
        BY <1>1, <2>1, <3>1, ChosenSubPart
    <2>3. r \in ToSet(waiting[p]) /\ r \in Req /\ SourceOf[r] = p
      <3>1. waiting[p] \in Seq(Req) /\ waiting[p] # <<>>
        BY <1>1, <2>2, Types DEF Admissible
      <3>2. QED
        BY <1>1, <2>2, <3>1, ElementsOfSeq DEF QueuesInv
    <2>4. ~IsHeld(r) /\ ~IsReturning(r)
      BY <1>1, <2>3 DEF OnePlace, IsWaiting
    <2>5. \A t \in Stack : r \notin held[t]
      BY <1>1, <2>4 DEF PlacesHold
    <2>6. held' = [held EXCEPT ![StackAt(addr[r])] = @ \cup {r}] /\ ready' = ready
      BY <1>5 DEF Admit
    <2> HIDE DEF r
    <2>7. CASE s = StackAt(addr[r])
      <3>1. held'[s] = held[s] \cup {r} /\ ready'[s] = ready[s] /\ r \notin held[s]
        BY <1>2, <2>5, <2>6, <2>7
      <3>2. Device(s)!Accept(r)
        BY <3>1 DEF Device!Accept
      <3>3. QED
        BY <2>3, <3>2 DEF Device!DeviceNext
    <2>8. CASE s # StackAt(addr[r])
      BY <1>2, <2>6, <2>8
    <2>9. QED
      BY <2>7, <2>8
  <1>6. ASSUME NEW r \in Req, Send(r)
        PROVE  UNCHANGED <<held[s], ready[s]>>
    BY <1>6 DEF Send, deviceVars
  <1>7. ASSUME NEW p \in SubPart, Consume(p)
        PROVE  UNCHANGED <<held[s], ready[s]>>
    BY <1>7 DEF Consume, deviceVars
  <1>8. CASE BeginTick \/ DrainReturns \/ NoAdmission
    BY <1>8 DEF BeginTick, DrainReturns, NoAdmission, deviceVars
  <1>9. CASE UNCHANGED vars
    BY <1>9 DEF vars
  <1>10. QED
    BY <1>3, <1>4, <1>5, <1>6, <1>7, <1>8, <1>9 DEF Next, Tick

\* Every stack behaves as the device that a cube's controller implements
\* (HBFRefinement_proofs): the system never pushes a request the controller
\* holds, nor pops one it did not complete.
THEOREM StacksImplementDevices == Spec => StacksAreDevices
  <1> DEFINE D == \A s \in Stack : \/ Device(s)!DeviceNext
                                   \/ UNCHANGED <<held[s], ready[s]>>
  <1>1. IInv /\ [Next]_vars => [D]_vars
    BY DevicesStep
  <1>2. StacksAreDevices <=> (\A s \in Stack : Device(s)!DeviceInit) /\ [][D]_vars
    BY DEF StacksAreDevices
  <1> HIDE DEF D
  <1>3. QED
    BY <1>1, <1>2, DevicesInit, SystemInvariant, PTL DEF Spec

=============================================================================
