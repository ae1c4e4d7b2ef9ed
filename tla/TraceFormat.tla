----------------------------- MODULE TraceFormat ------------------------------
(***************************************************************************)
(* The memory part of a trace line: how the tracer (tracer_tool.cu) writes *)
(* the addresses of a warp, and how the simulator (trace_parser.cc) reads  *)
(* them back, with the immediate that ends the line.                       *)
(*                                                                         *)
(* A line is the sequence of its numbers. Addresses are unsigned, below    *)
(* AddrRange; the stride is an int, one of StrideRange values.             *)
(***************************************************************************)
EXTENDS Integers, Sequences, FiniteSets, FiniteSetsExt

CONSTANTS
  Lanes,       \* lanes of a warp, 32
  AddrRange,   \* values of an address, 2^64
  StrideRange, \* values of an int, 2^32
  LaneAddress, \* the addresses lanes hold
  Immediate    \* the immediates of instructions, below 100

ASSUME FormatAssumption ==
  /\ {Lanes, AddrRange, StrideRange} \subseteq Nat \ {0}
  /\ LaneAddress \subseteq 0 .. (AddrRange - 1) /\ Immediate \subseteq 0 .. 99

Lane == 0 .. (Lanes - 1)

\* The address formats (enum address_format).
ListAll == 0
BaseStride == 1
BaseDelta == 2

VARIABLES
  inst, \* the instruction that was executed: isMem, addrs, mask, imm
  line, \* its line in the trace
  read, \* what the parser made of it: addrs, imm
  phase \* "executed", "written", "read"

formatVars == <<inst, line, read, phase>>

Signed(n, range) == LET u == n % range IN IF 2 * u >= range THEN u - range ELSE u
Unsigned(n) == n % AddrRange

\* The active lanes, in order.
Rank(mask, s) == Cardinality({t \in mask : t <= s})
LaneSeq(mask) == [i \in 1 .. Cardinality(mask) |-> CHOOSE s \in mask : Rank(mask, s) = i]

-----------------------------------------------------------------------------
(* The tracer                                                              *)
Stride(addrs, mask) ==
  LET first == Min(mask) IN Signed(addrs[first + 1] - addrs[first], StrideRange)

\* The stride is compared with differences cut to its own width.
HasStride_BugWidth(addrs, mask) ==
  mask = {} \/ LET first == Min(mask)
               IN /\ first + 1 \in mask
                  /\ \A s \in mask : first .. s \subseteq mask
                  /\ \A s \in mask \ {first} :
                       Stride(addrs, mask) = Signed(addrs[s] - addrs[s - 1], StrideRange)

\* base_stride_compress: two or more active lanes without a gap, one stride.
HasStride(addrs, mask) ==
  mask = {} \/ LET first == Min(mask)
               IN /\ first + 1 \in mask
                  /\ \A s \in mask : first .. s \subseteq mask
                  /\ \A s \in mask \ {first} :
                       Unsigned(Stride(addrs, mask)) = Unsigned(addrs[s] - addrs[s - 1])

\* base_delta_compress: one delta less than active lanes.
Deltas(addrs, mask) ==
  LET lane == LaneSeq(mask)
  IN [i \in 1 .. (Len(lane) - 1) |->
        Signed(addrs[lane[i + 1]] - addrs[lane[i]], AddrRange)]

Addresses(i, compress) ==
  IF ~compress
    THEN <<ListAll>> \o [k \in DOMAIN LaneSeq(i.mask) |-> i.addrs[LaneSeq(i.mask)[k]]]
  ELSE IF HasStride(i.addrs, i.mask)
    THEN <<BaseStride>> \o IF i.mask = {} THEN <<0, 0>>
                           ELSE <<i.addrs[Min(i.mask)], Stride(i.addrs, i.mask)>>
  ELSE <<BaseDelta, i.addrs[Min(i.mask)]>> \o Deltas(i.addrs, i.mask)

Width == 4

TraceLine(i, compress) ==
  (IF i.isMem THEN <<Width>> \o Addresses(i, compress) ELSE <<0>>) \o <<i.imm>>

-----------------------------------------------------------------------------
(* The parser: reads the line from left to right; a number that is not     *)
(* there is read as zero.                                                  *)
Number(l, i) == IF i \in DOMAIN l THEN l[i] ELSE 0

\* Decimal digits read while the stream is in hexadecimal.
AsHex(n) == 16 * (n \div 10) + (n % 10)

None == [s \in Lane |-> 0]

ParseList(l, mask) ==
  [addrs |-> [s \in Lane |-> IF s \in mask
                                   THEN Number(l, 2 + Rank(mask, s)) ELSE 0],
   imm   |-> LET n == Number(l, 3 + Cardinality(mask))
             IN IF mask = {} THEN n ELSE AsHex(n)]

\* base_stride_decompress: up to the first lane that is not active.
ParseStride(l, mask) ==
  [addrs |-> [s \in Lane |->
                IF mask # {} /\ s >= Min(mask) /\ Min(mask) .. s \subseteq mask
                  THEN Unsigned(Number(l, 3) + (s - Min(mask)) * Number(l, 4)) ELSE 0],
   imm   |-> Number(l, 5)]

\* As many deltas as lanes are read; all but the last are added up.
ParseDelta(l, mask) ==
  LET addr[k \in 1 .. Cardinality(mask)] ==
        IF k = 1 THEN Unsigned(Number(l, 3)) ELSE Unsigned(addr[k - 1] + Number(l, 2 + k))
  IN [addrs |-> [s \in Lane |-> IF s \in mask THEN addr[Rank(mask, s)] ELSE 0],
      imm   |-> Number(l, 4 + Cardinality(mask))]

Parse(l, mask) ==
  IF l[1] = 0 THEN [addrs |-> None, imm |-> Number(l, 2)]
  ELSE CASE l[2] = ListAll    -> ParseList(l, mask)
         [] l[2] = BaseStride -> ParseStride(l, mask)
         [] l[2] = BaseDelta  -> ParseDelta(l, mask)

-----------------------------------------------------------------------------
\* Executed instructions; the registers of inactive lanes hold anything.
Executed == [isMem : BOOLEAN, addrs : [Lane -> LaneAddress],
             mask : SUBSET Lane, imm : Immediate]

FormatInit ==
  /\ inst \in Executed
  /\ line = <<>> /\ read = [addrs |-> None, imm |-> 0] /\ phase = "executed"

Write ==
  /\ phase = "executed"
  /\ \E compress \in BOOLEAN : line' = TraceLine(inst, compress)
  /\ phase' = "written" /\ UNCHANGED <<inst, read>>

Read ==
  /\ phase = "written"
  /\ read' = Parse(line, inst.mask)
  /\ phase' = "read" /\ UNCHANGED <<inst, line>>

FormatNext == Write \/ Read

FormatSpec == FormatInit /\ [][FormatNext]_formatVars

-----------------------------------------------------------------------------
\* The simulator sees the addresses of the active lanes and zero for the
\* others, in every address format.
AddressesRestored ==
  phase = "read" =>
    \A s \in Lane :
      read.addrs[s] = IF inst.isMem /\ s \in inst.mask THEN inst.addrs[s] ELSE 0

\* The immediate of an instruction without memory reference arrives: the
\* simulator takes the group of DEPBAR from it (trace_driven.cc:392).
DepbarGroupKept == phase = "read" /\ ~inst.isMem => read.imm = inst.imm
\* What the tracer writes of an instruction is what the parser reads.
TraceRestored == AddressesRestored /\ DepbarGroupKept
=============================================================================
