---------------------------- MODULE HBFParts_proofs ---------------------------
(***************************************************************************)
(* The parts that share no state with the rest. Of the device: loading a   *)
(* placement table, the address mapping, the page buffers of a sub-array,  *)
(* the coverage of pages by writes, the controller without coalescing. Of  *)
(* the tools around it: the lines of a trace, the tracer's spinlock filter.*)
(***************************************************************************)
EXTENDS HBFMapping, HBFPlacement, HBFSubarray, HBFCoverage, TraceFormat,
        SpinlockFilter, HBFNoCoalesce, SequenceLemmas, TLAPS

-----------------------------------------------------------------------------
(***************************************************************************)
(* Loading a placement table is all or nothing, for files of any length.   *)
(***************************************************************************)

Indices == lineNo \in Nat /\ lineNo >= 1 /\ lineNo <= Len(file) + 1 /\ file \in Files
           /\ (result # "called" => result \in {"reading", "ok", "error"})

\* The inductive invariant: what has been read is usable and in the scratch
\* table, and the caller's table follows at the end only.
IInv == Indices /\ PrefixParsed /\ AllOrNothing

\* Before the first line there is nothing.
LEMMA InitIInv == PlacementInit => IInv
<1> SUFFICES ASSUME PlacementInit PROVE IInv
  OBVIOUS
<1>1. file \in Files /\ lineNo = 1 /\ parsed = {} /\ table = OldTable
      /\ result = "called"
  BY DEF PlacementInit
<1>2. {i \in DOMAIN file : i < lineNo} = {}
  BY <1>1, PlacementAssumption
<1>3. PrefixParsed
  BY <1>1, <1>2 DEF PrefixParsed
<1> QED  BY <1>1, <1>3 DEF IInv, Indices, AllOrNothing

\* One more line, or none, keeps it.
LEMMA StepIInv == IInv /\ [PlacementNext]_placementVars => IInv'
<1> SUFFICES ASSUME IInv, [PlacementNext]_placementVars PROVE IInv'
  OBVIOUS
<1> USE DEF IInv, Indices
<1>1. CASE Open
  <2>1. PrefixParsed'
    BY <1>1 DEF Open, PrefixParsed
  <2> QED  BY <1>1, <2>1 DEF Open, AllOrNothing
<1>2. CASE ReadLine
  <2>0. Indices'
    BY <1>2, PlacementAssumption DEF ReadLine
  <2>1. /\ lineNo \in DOMAIN file /\ file' = file /\ lineNo' = lineNo + 1
        /\ ~Malformed(file[lineNo])
    BY <1>2, PlacementAssumption DEF ReadLine, CurrentLine
  <2>2. {i \in DOMAIN file' : i < lineNo'} = {i \in DOMAIN file : i < lineNo} \cup {lineNo}
    BY <2>1, PlacementAssumption
  <2>3. \A i \in {j \in DOMAIN file' : j < lineNo'} : ~Malformed(file'[i])
    BY <2>1, <2>2 DEF PrefixParsed
  <2>4. CASE IsEntry(file[lineNo])
    <3>1. /\ parsed' = parsed \cup {<<file[lineNo].page, file[lineNo].chan>>}
          /\ ~Conflicts(file[lineNo], parsed)
      BY <1>2, <2>4 DEF ReadLine, CurrentLine
    <3>2. \A d, e \in parsed' : d[1] = e[1] => d = e
      <4> SUFFICES ASSUME NEW d \in parsed', NEW e \in parsed', d[1] = e[1]
                   PROVE  d = e
        OBVIOUS
      <4>1. \A t \in parsed : t[1] = file[lineNo].page => t[2] = file[lineNo].chan
        BY <3>1 DEF Conflicts
      <4>2. \A t \in parsed : t = <<t[1], t[2]>>
        BY DEF PrefixParsed
      <4>3. \A t, u \in parsed : t[1] = u[1] => t = u
        BY DEF PrefixParsed
      <4> QED  BY <3>1, <4>1, <4>2, <4>3
    <3>3. parsed' = {<<file'[i].page, file'[i].chan>> :
                       i \in {j \in {k \in DOMAIN file' : k < lineNo'} : IsEntry(file'[j])}}
      BY <2>1, <2>2, <2>4, <3>1 DEF PrefixParsed
    <3> QED  BY <1>2, <2>0, <2>1, <2>3, <3>2, <3>3 DEF PrefixParsed, AllOrNothing, ReadLine
  <2>5. CASE ~IsEntry(file[lineNo])
    <3>1. parsed' = parsed
      BY <1>2, <2>5 DEF ReadLine, CurrentLine
    <3>2. parsed' = {<<file'[i].page, file'[i].chan>> :
                       i \in {j \in {k \in DOMAIN file' : k < lineNo'} : IsEntry(file'[j])}}
      BY <2>1, <2>2, <2>5, <3>1 DEF PrefixParsed
    <3> QED  BY <1>2, <2>0, <2>1, <2>3, <3>1, <3>2 DEF PrefixParsed, AllOrNothing, ReadLine
  <2> QED  BY <2>4, <2>5
<1>3. CASE RejectLine
  BY <1>3 DEF RejectLine, PrefixParsed, AllOrNothing
<1>4. CASE ReadError
  BY <1>4 DEF ReadError, PrefixParsed, AllOrNothing
<1>5. CASE EndOfFile
  <2>1. {i \in DOMAIN file : i < lineNo} = DOMAIN file
    <3>1. DOMAIN file = 1 .. Len(file) /\ Len(file) \in Nat
      BY PlacementAssumption
    <3>2. lineNo \in Nat /\ lineNo > Len(file)
      BY <1>5 DEF EndOfFile
    <3>3. \A i \in DOMAIN file : i < lineNo
      BY <3>1, <3>2
    <3> QED  BY <3>3
  <2>2. parsed = Entries(file) /\ (parsed # {} => Usable(file))
    BY <2>1 DEF PrefixParsed, Entries, Usable
  <2>3. PrefixParsed'
    BY <1>5 DEF EndOfFile, PrefixParsed
  <2>4. AllOrNothing'
    BY <1>5, <2>2 DEF EndOfFile, AllOrNothing
  <2> QED  BY <1>5, <2>3, <2>4 DEF EndOfFile
<1>6. CASE UNCHANGED placementVars
  BY <1>6 DEF placementVars, PrefixParsed, AllOrNothing
<1> QED  BY <1>1, <1>2, <1>3, <1>4, <1>5, <1>6 DEF PlacementNext

\* The table of the caller is replaced by exactly what a usable file says, or
\* not at all.
THEOREM LoadAllOrNothing == PlacementSpec => []AllOrNothing
<1>1. PlacementSpec => []IInv
  BY InitIInv, StepIInv, PTL DEF PlacementSpec
<1>2. IInv => AllOrNothing
  BY DEF IInv
<1> QED  BY <1>1, <1>2, PTL

\* The scratch table always holds exactly the lines read.
THEOREM LoadPrefix == PlacementSpec => []PrefixParsed
<1>1. PlacementSpec => []IInv
  BY InitIInv, StepIInv, PTL DEF PlacementSpec
<1>2. IInv => PrefixParsed
  BY DEF IInv
<1> QED  BY <1>1, <1>2, PTL
\* Every page of an accepted table is on one existing channel, and no file
\* puts anything else into the caller's table.
THEOREM LoadIsSound == PlacementSpec => []LoadSound
<1>1. PlacementSpec => []IInv
  BY InitIInv, StepIInv, PTL DEF PlacementSpec
<1>2. IInv => TableWellFormed
  <2> SUFFICES ASSUME IInv PROVE TableWellFormed
    OBVIOUS
  <2>1. result \in {"called", "reading", "ok", "error"}
    BY DEF IInv, Indices
  <2>2. lineNo \in 1 .. Len(file) + 1
    BY PlacementAssumption DEF IInv, Indices
  <2>3. ASSUME result = "ok", NEW e \in table
        PROVE  /\ e[1] \in Nat /\ e[2] \in 0 .. Channels - 1
               /\ \A d \in table : d[1] = e[1] => d = e
    <3>1. Usable(file) /\ table = Entries(file) /\ file \in Files
      BY <2>3 DEF IInv, Indices, AllOrNothing
    <3>2. PICK i \in DOMAIN file : IsEntry(file[i]) /\ e = <<file[i].page, file[i].chan>>
      BY <2>3, <3>1 DEF Entries
    <3>3. ~Malformed(file[i]) /\ file[i].page \in Int /\ file[i].chan \in Int
      BY <3>1, PlacementAssumption DEF Usable
    <3>4. e[1] \in Nat /\ e[2] \in 0 .. Channels - 1
      BY <3>2, <3>3, PlacementAssumption DEF Malformed
    <3>5. \A d \in table : d[1] = e[1] => d = e
      BY <2>3, <3>1 DEF Usable
    <3> QED  BY <3>4, <3>5
  <2> QED  BY <2>1, <2>2, <2>3 DEF TableWellFormed
<1>3. IInv => LoadSound
  BY <1>2 DEF IInv, LoadSound
<1> QED  BY <1>1, <1>3, PTL

-----------------------------------------------------------------------------
(***************************************************************************)
(* The mapping: for every set of configurations and addresses, the way of  *)
(* a request through system, controller, channel and FTL loses no address  *)
(* and its pieces agree.                                                   *)
(***************************************************************************)
(***************************************************************************)
(* Arithmetic.                                                             *)
(***************************************************************************)
\* Multiplication is monotone.
LEMMA TimesMonotone ==
  ASSUME NEW k \in Nat, NEW a \in Nat, NEW b \in Nat, a <= b
  PROVE  k * a <= k * b
<1>1. PICK d \in Nat : b = a + d
  <2>1. b - a \in Nat /\ b = a + (b - a)
    OBVIOUS
  <2> QED  BY <2>1
<1>2. k * b = k * a + k * d
  BY <1>1
<1>3. k * a \in Nat /\ k * d \in Nat
  OBVIOUS
<1> QED  BY <1>2, <1>3

\* Euclidean division.
LEMMA DivMod ==
  ASSUME NEW a \in Nat, NEW n \in Nat \ {0}
  PROVE  /\ a = n * (a \div n) + (a % n)
         /\ a % n \in 0 .. n - 1
         /\ a \div n \in Nat
  BY SMT

\* Quotient and remainder are unique.
LEMMA DivModUnique ==
  ASSUME NEW n \in Nat \ {0}, NEW q \in Nat, NEW r \in 0 .. n - 1,
         NEW q2 \in Nat, NEW r2 \in 0 .. n - 1,
         n * q + r = n * q2 + r2
  PROVE  q = q2 /\ r = r2
  BY SMT

\* The quotient of a number below a multiple, and of one that is not.
LEMMA DivBound ==
  ASSUME NEW n \in Nat \ {0}, NEW a \in Nat, NEW b \in Nat
  PROVE  a < n * b <=> a \div n < b
<1>1. a = n * (a \div n) + (a % n) /\ a % n \in 0 .. n - 1 /\ a \div n \in Nat
  BY DivMod
<1>2. ASSUME a < n * b PROVE a \div n < b
  BY <1>1, <1>2, SMT
<1>3. ASSUME a \div n < b PROVE a < n * b
  <2>1. a \div n + 1 <= b  BY <1>1, <1>3, SMT
  <2>2. n * (a \div n) + n <= n * b  BY <1>1, <2>1, SMT
  <2> QED  BY <1>1, <2>2, SMT
<1> QED  BY <1>2, <1>3

\* A multiple with its divisor.
LEMMA DivExact ==
  ASSUME NEW n \in Nat \ {0}, NEW q \in Nat, NEW r \in 0 .. n - 1
  PROVE  (q * n + r) \div n = q /\ (q * n + r) % n = r
<1> DEFINE a == q * n + r
<1>1. a \in Nat  BY SMT
<1>2. a = n * (a \div n) + (a % n) /\ a % n \in 0 .. n - 1 /\ a \div n \in Nat
  BY <1>1, DivMod
<1>3. n * q + r = n * (a \div n) + (a % n)  BY <1>2, SMT
<1> HIDE DEF a
<1>4. q = a \div n /\ r = a % n
  BY <1>2, <1>3, DivModUnique
<1> QED  BY <1>4 DEF a

(***************************************************************************)
(* The stack map.                                                          *)
(***************************************************************************)
Pages(c)    == c.size \div c.pageSize
PerStack(c) == Pages(c) \div c.stacks

\* What the capacity check gives: the span is a whole number of pages, the
\* same number for every stack, and a stack is a whole number of blocks.
LEMMA WholeSpan ==
  ASSUME NEW c \in Config, EqualWholeBlocks(c)
  PROVE  /\ Pages(c) \in Nat \ {0} /\ PerStack(c) \in Nat \ {0}
         /\ c.size = c.pageSize * Pages(c)
         /\ Pages(c) = c.stacks * PerStack(c)
         /\ PerStack(c) % c.pagesPerBlock = 0
<1> USE MappingAssumption
<1>1. c.size = c.pageSize * (c.size \div c.pageSize) + (c.size % c.pageSize)
      /\ c.size \div c.pageSize \in Nat
  BY DivMod
<1>2. c.size = c.pageSize * Pages(c) /\ Pages(c) \in Nat
  BY <1>1 DEF EqualWholeBlocks, Pages
<1>3. Pages(c) # 0
  BY <1>2 DEF EqualWholeBlocks
<1>4. Pages(c) = c.stacks * PerStack(c) + (Pages(c) % c.stacks)
      /\ PerStack(c) \in Nat
  BY <1>2, DivMod DEF PerStack
<1>5. Pages(c) % c.stacks = 0 /\ PerStack(c) % c.pagesPerBlock = 0
  BY DEF EqualWholeBlocks, Pages, PerStack
<1>6. Pages(c) = c.stacks * PerStack(c)
  BY <1>4, <1>5
<1>7. PerStack(c) # 0
  BY <1>3, <1>6
<1> QED  BY <1>2, <1>3, <1>4, <1>5, <1>6, <1>7

\* In the span the contiguous map is division by the share of a stack: the
\* clamp to the last stack never acts.
LEMMA ContiguousExact ==
  ASSUME NEW c \in Config, EqualWholeBlocks(c), NEW g \in Nat, g < Pages(c)
  PROVE  /\ Contiguous(c, g).stack = g \div PerStack(c)
         /\ Contiguous(c, g).page = g % PerStack(c)
         /\ g \div PerStack(c) < c.stacks
<1> USE MappingAssumption
<1>1. PerStack(c) \in Nat \ {0} /\ Pages(c) = c.stacks * PerStack(c)
  BY WholeSpan
<1>2. g = PerStack(c) * (g \div PerStack(c)) + (g % PerStack(c))
      /\ g % PerStack(c) \in 0 .. PerStack(c) - 1 /\ g \div PerStack(c) \in Nat
  BY <1>1, DivMod
<1>3. g < PerStack(c) * c.stacks
  BY <1>1
<1>4. g \div PerStack(c) < c.stacks
  BY <1>1, <1>3, DivBound
<1>5. Lesser(g \div PerStack(c), c.stacks - 1) = g \div PerStack(c)
  BY <1>2, <1>4 DEF Lesser
<1>6. Contiguous(c, g).stack = g \div PerStack(c)
      /\ Contiguous(c, g).page = g - (g \div PerStack(c)) * PerStack(c)
  BY <1>5 DEF Contiguous, PerStack, Pages
<1>7. g - (g \div PerStack(c)) * PerStack(c) = g % PerStack(c)
  BY <1>1, <1>2
<1> QED  BY <1>4, <1>6, <1>7

\* The contiguous map applies below the end of the span.
LEMMA StackOfCases ==
  ASSUME NEW c \in Config, EqualWholeBlocks(c), NEW g \in Nat
  PROVE  StackOf(c, g) = IF c.stackMap = 1 /\ g < Pages(c)
                           THEN Contiguous(c, g) ELSE Interleaved(c, g)
<1>1. Pages(c) \in Nat /\ PerStack(c) \in Nat \ {0}
  BY WholeSpan
<1>2. InSpan(c, g) <=> g < Pages(c)
  BY <1>1 DEF InSpan, Pages, PerStack
<1> QED  BY <1>2 DEF StackOf

\* Past the span the interleaved fallback starts above the share of a stack.
LEMMA FallbackAbove ==
  ASSUME NEW c \in Config, EqualWholeBlocks(c), NEW g \in Nat, ~(g < Pages(c))
  PROVE  ~(g \div c.stacks < PerStack(c))
<1> USE MappingAssumption
<1>1. PerStack(c) \in Nat /\ Pages(c) = c.stacks * PerStack(c)
  BY WholeSpan
<1>2. ~(g < c.stacks * PerStack(c))
  BY <1>1
<1> QED  BY <1>1, <1>2, DivBound

\* map_relative_address loses no page: two pages of GPU memory with the same
\* stack and the same page of it are one page, inside and outside the span.
THEOREM StackMapInjective ==
  ASSUME NEW c \in Config, EqualWholeBlocks(c),
         NEW g \in Nat, NEW h \in Nat,
         StackOf(c, g).stack = StackOf(c, h).stack,
         StackOf(c, g).page = StackOf(c, h).page
  PROVE  g = h
<1> USE MappingAssumption
<1>0. StackOf(c, g) = StackOf(c, h)
  BY DEF StackOf, Contiguous, Interleaved
<1> DEFINE low(k) == c.stackMap = 1 /\ k < Pages(c)
<1>1. PerStack(c) \in Nat \ {0} /\ Pages(c) \in Nat
  BY WholeSpan
<1>2. /\ StackOf(c, g) = IF low(g) THEN Contiguous(c, g) ELSE Interleaved(c, g)
      /\ StackOf(c, h) = IF low(h) THEN Contiguous(c, h) ELSE Interleaved(c, h)
  BY StackOfCases
<1>3. CASE low(g) /\ low(h)
  <2>1. g \div PerStack(c) = h \div PerStack(c) /\ g % PerStack(c) = h % PerStack(c)
    <3>1. Contiguous(c, g) = Contiguous(c, h)
      BY <1>0, <1>2, <1>3
    <3>2. /\ Contiguous(c, g).stack = g \div PerStack(c)
          /\ Contiguous(c, g).page = g % PerStack(c)
      BY <1>3, ContiguousExact
    <3>3. /\ Contiguous(c, h).stack = h \div PerStack(c)
          /\ Contiguous(c, h).page = h % PerStack(c)
      BY <1>3, ContiguousExact
    <3> QED  BY <3>1, <3>2, <3>3
  <2>2. /\ g = PerStack(c) * (g \div PerStack(c)) + (g % PerStack(c))
        /\ h = PerStack(c) * (h \div PerStack(c)) + (h % PerStack(c))
    BY <1>1, DivMod
  <2> QED  BY <2>1, <2>2
<1>4. CASE ~low(g) /\ ~low(h)
  <2>1. g % c.stacks = h % c.stacks /\ g \div c.stacks = h \div c.stacks
    <3>1. Interleaved(c, g) = Interleaved(c, h)
      BY <1>0, <1>2, <1>4
    <3> QED  BY <3>1 DEF Interleaved
  <2>2. /\ g = c.stacks * (g \div c.stacks) + (g % c.stacks)
        /\ h = c.stacks * (h \div c.stacks) + (h % c.stacks)
    BY DivMod
  <2> QED  BY <2>1, <2>2
<1>5. ASSUME NEW k \in Nat, NEW l \in Nat, low(k), ~low(l),
             StackOf(c, k) = StackOf(c, l)
      PROVE  FALSE
  <2>1. StackOf(c, k).page = k % PerStack(c)
    BY <1>5, StackOfCases, ContiguousExact
  <2>2. StackOf(c, l).page = l \div c.stacks /\ ~(l < Pages(c))
    BY <1>5, StackOfCases DEF Interleaved
  <2>3. k % PerStack(c) < PerStack(c) /\ k % PerStack(c) \in Nat
    <3> DEFINE per == PerStack(c)
    <3>1. per \in Nat \ {0}
      BY <1>1
    <3> HIDE DEF per
    <3>2. k % per \in 0 .. per - 1
      BY <3>1, DivMod
    <3> QED  BY <3>1, <3>2 DEF per
  <2>4. ~(l \div c.stacks < PerStack(c))
    BY <2>2, FallbackAbove
  <2> QED  BY <1>5, <2>1, <2>2, <2>3, <2>4
<1> QED  BY <1>0, <1>3, <1>4, <1>5

\* A stack number is one of the stacks, a local page is a number.
LEMMA StackOfType ==
  ASSUME NEW c \in Config, EqualWholeBlocks(c), NEW g \in Nat
  PROVE  StackOf(c, g).page \in Nat /\ StackOf(c, g).stack \in 0 .. c.stacks - 1
<1> USE MappingAssumption
<1>1. PerStack(c) \in Nat \ {0}  BY WholeSpan
<1>2. CASE c.stackMap = 1 /\ g < Pages(c)
  <2>1. /\ g % PerStack(c) \in 0 .. PerStack(c) - 1 /\ g \div PerStack(c) \in Nat
    BY <1>1, DivMod
  <2>2. /\ StackOf(c, g).page = g % PerStack(c)
        /\ StackOf(c, g).stack = g \div PerStack(c)
        /\ g \div PerStack(c) < c.stacks
    BY <1>2, StackOfCases, ContiguousExact
  <2> QED  BY <2>1, <2>2
<1>3. CASE ~(c.stackMap = 1 /\ g < Pages(c))
  <2>1. g % c.stacks \in 0 .. c.stacks - 1 /\ g \div c.stacks \in Nat
    BY DivMod
  <2> QED  BY <1>3, <2>1, StackOfCases DEF Interleaved
<1> QED  BY <1>2, <1>3

\* Logical addresses are numbers and tell GPU addresses apart.
LEMMA LogicalFacts ==
  ASSUME NEW c \in Config, NEW a \in GpuAddress, IsHbfAddr(c, a)
  PROVE  /\ Logical(c, a) \in Nat
         /\ Logical(c, a) = IF c.routeAll THEN a ELSE a - c.base
         /\ ~c.routeAll => Logical(c, a) < c.size
  BY MappingAssumption DEF Logical, IsHbfAddr

\* The controller reads back the page and the offset that the system wrote
\* into the address, also when one stack keeps the GPU address.
LEMMA PageReadBack ==
  ASSUME NEW c \in Config, EqualWholeBlocks(c),
         NEW a \in GpuAddress, IsHbfAddr(c, a)
  PROVE  LET g == Logical(c, a) \div c.pageSize
             d == DeviceAddress(c, a)
         IN /\ g \in Nat
            /\ PageOf(c, d) = StackOf(c, g).page
            /\ Relative(c, d) % c.pageSize = Logical(c, a) % c.pageSize
<1> USE MappingAssumption
<1> DEFINE l == Logical(c, a)
           g == l \div c.pageSize
           o == l % c.pageSize
           d == DeviceAddress(c, a)
<1>1. l \in Nat
  BY LogicalFacts
<1>2. l = c.pageSize * g + o /\ o \in 0 .. c.pageSize - 1 /\ g \in Nat
  BY <1>1, DivMod
<1>3. StackOf(c, g).page \in Nat
  BY <1>2, StackOfType
<1>4. LocalOffset(c, a) = StackOf(c, g).page * c.pageSize + o
  BY DEF LocalOffset
<1>5. Relative(c, d) = LocalOffset(c, a)
  <2>1. CASE Rewrites(c)
    <3>1. d = c.base + LocalOffset(c, a)
      BY <2>1 DEF DeviceAddress
    <3>2. LocalOffset(c, a) \in Nat
      BY <1>2, <1>3, <1>4
    <3> HIDE DEF d
    <3> QED  BY <3>1, <3>2 DEF Relative
  <2>2. CASE ~Rewrites(c)
    <3>1. c.stacks = 1 /\ ~c.routeAll /\ d = a
      BY <2>2 DEF Rewrites, DeviceAddress
    <3>2. l = a - c.base /\ c.base <= a /\ l < c.size
      BY <3>1, LogicalFacts DEF IsHbfAddr
    <3>3. StackOf(c, g).page = g
      <4>1. /\ PerStack(c) = Pages(c) /\ c.size = c.pageSize * Pages(c)
            /\ Pages(c) \in Nat \ {0}
        BY <3>1, WholeSpan
      <4>2. g < Pages(c)
        BY <1>1, <3>2, <4>1, DivBound
      <4>3. g % Pages(c) = g /\ g \div 1 = g
        BY <1>2, <4>1, <4>2, DivExact
      <4>4. Interleaved(c, g).page = g
        BY <3>1, <4>3 DEF Interleaved
      <4>5. Contiguous(c, g).page = g
        BY <1>2, <4>1, <4>2, <4>3, ContiguousExact
      <4> QED  BY <1>2, <4>4, <4>5, StackOfCases
    <3>4. Relative(c, d) = a - c.base
      BY <3>1, <3>2 DEF Relative
    <3> QED  BY <1>2, <1>4, <3>2, <3>3, <3>4
  <2> QED  BY <2>1, <2>2
<1> HIDE DEF g, o, d
<1>6. /\ LocalOffset(c, a) \div c.pageSize = StackOf(c, g).page
      /\ LocalOffset(c, a) % c.pageSize = o
  <2>1. c.pageSize \in Nat \ {0}
    OBVIOUS
  <2>2. /\ (StackOf(c, g).page * c.pageSize + o) \div c.pageSize = StackOf(c, g).page
        /\ (StackOf(c, g).page * c.pageSize + o) % c.pageSize = o
    BY <1>2, <1>3, <2>1, DivExact, Zenon
  <2> QED  BY <1>4, <2>2
<1> QED  BY <1>2, <1>5, <1>6 DEF PageOf, g, o, d

(***************************************************************************)
(* Channels and sub-arrays.                                                *)
(***************************************************************************)
\* There is a channel, and a sub-array for each.
LEMMA ChannelCount ==
  ASSUME NEW c \in Config
  PROVE  /\ NumChannels(c) \in Nat \ {0} /\ NumChannels(c) <= c.subarrays
         /\ c.subarrays \div NumChannels(c) \in Nat \ {0}
         /\ NumChannels(c) * (c.subarrays \div NumChannels(c)) <= c.subarrays
<1> USE MappingAssumption
<1>1. NumChannels(c) \in Nat \ {0} /\ NumChannels(c) <= c.subarrays
  BY DEF NumChannels, Lesser
<1>2. /\ c.subarrays = NumChannels(c) * (c.subarrays \div NumChannels(c))
                         + (c.subarrays % NumChannels(c))
      /\ c.subarrays % NumChannels(c) \in 0 .. NumChannels(c) - 1
      /\ c.subarrays \div NumChannels(c) \in Nat
  BY <1>1, DivMod
<1>3. c.subarrays \div NumChannels(c) # 0
  <2> SUFFICES ASSUME c.subarrays \div NumChannels(c) = 0 PROVE FALSE
    OBVIOUS
  <2>1. NumChannels(c) * 0 = 0
    BY <1>1
  <2> DEFINE r == c.subarrays % NumChannels(c)
  <2>2. c.subarrays = r /\ r \in 0 .. NumChannels(c) - 1
    BY <1>1, <1>2, <2>1
  <2> HIDE DEF r
  <2> QED  BY <1>1, <2>2
<1> QED  BY <1>1, <1>2, <1>3

\* The slices of the channels are not empty, lie within the sub-arrays of
\* the stack and do not overlap.
LEMMA SlicesDisjoint ==
  ASSUME NEW c \in Config, NEW ch \in 0 .. NumChannels(c) - 1
  PROVE  /\ First(c, ch) \in Nat /\ Count(c, ch) \in Nat \ {0}
         /\ First(c, ch) + Count(c, ch) <= c.subarrays
         /\ \A d \in 0 .. NumChannels(c) - 1 :
              d < ch => First(c, d) + Count(c, d) <= First(c, ch)
<1> USE MappingAssumption
<1> DEFINE n == NumChannels(c)
           per == c.subarrays \div n
<1>1. /\ n \in Nat \ {0} /\ per \in Nat \ {0} /\ n * per <= c.subarrays
  BY ChannelCount
<1>2. \A d \in 0 .. n - 1 : First(c, d) = d * per
  BY DEF First
<1>3. \A d \in 0 .. n - 1 :
        Count(c, d) = IF d = n - 1 THEN c.subarrays - d * per ELSE per
  BY <1>2 DEF Count
<1> HIDE DEF n, per
<1>4. \A d \in 0 .. n - 1 : d * per \in Nat /\ d * per + per <= n * per
  <2> TAKE d \in 0 .. n - 1
  <2>1. d + 1 <= n  BY <1>1
  <2>2. (d + 1) * per <= n * per  BY <1>1, <2>1
  <2> QED  BY <1>1, <2>2
<1>5. ch \in 0 .. n - 1
  BY DEF n
<1>6. \A d \in 0 .. n - 1 : d < ch => d * per + per <= ch * per
  <2> TAKE d \in 0 .. n - 1
  <2> HAVE d < ch
  <2>1. d + 1 <= ch  BY <1>5
  <2>2. (d + 1) * per <= ch * per  BY <1>1, <1>5, <2>1
  <2> QED  BY <1>1, <1>5, <2>2
<1>7. First(c, ch) \in Nat /\ Count(c, ch) \in Nat \ {0}
      /\ First(c, ch) + Count(c, ch) <= c.subarrays
  BY <1>1, <1>2, <1>3, <1>4, <1>5
<1>8. \A d \in 0 .. n - 1 : d < ch => First(c, d) + Count(c, d) <= First(c, ch)
  BY <1>1, <1>2, <1>3, <1>4, <1>5, <1>6
<1> QED  BY <1>7, <1>8 DEF n

\* A sub-array has one owner.
LEMMA OneOwner ==
  ASSUME NEW c \in Config, NEW ch \in 0 .. NumChannels(c) - 1,
         NEW s \in Nat, Owns(c, ch, s)
  PROVE  \A d \in 0 .. NumChannels(c) - 1 : Owns(c, d, s) <=> d = ch
<1>1. NumChannels(c) \in Nat
  BY ChannelCount
<1> TAKE d \in 0 .. NumChannels(c) - 1
<1>2. /\ First(c, d) \in Nat /\ Count(c, d) \in Nat
      /\ First(c, ch) \in Nat /\ Count(c, ch) \in Nat
  BY SlicesDisjoint
<1>3. CASE d < ch
  BY <1>1, <1>2, <1>3, SlicesDisjoint DEF Owns
<1>4. CASE ch < d
  BY <1>1, <1>2, <1>4, SlicesDisjoint DEF Owns
<1>5. CASE d = ch
  BY <1>5
<1> QED  BY <1>1, <1>3, <1>4, <1>5

\* The pages of a stack are shared out among the channels, at least one each.
LEMMA PagesPerChannelPositive ==
  ASSUME NEW c \in Config, EqualWholeBlocks(c)
  PROVE  /\ StackSize(c) = PerStack(c) * c.pageSize
         /\ StackSize(c) \div c.pageSize = PerStack(c)
         /\ PagesPerChannel(c) \in Nat \ {0}
<1> USE MappingAssumption
<1>1. /\ PerStack(c) \in Nat \ {0}
      /\ c.size = c.pageSize * Pages(c) /\ Pages(c) = c.stacks * PerStack(c)
  BY WholeSpan
<1>2. c.size = (PerStack(c) * c.pageSize) * c.stacks + 0
  BY <1>1
<1>3. 0 \in 0 .. c.stacks - 1 /\ PerStack(c) * c.pageSize \in Nat
  BY <1>1
<1>4. StackSize(c) = PerStack(c) * c.pageSize
  <2> DEFINE q == PerStack(c) * c.pageSize
  <2>1. q \in Nat /\ c.size = q * c.stacks + 0
    BY <1>2, <1>3
  <2> HIDE DEF q
  <2>2. (q * c.stacks + 0) \div c.stacks = q
    BY <1>3, <2>1, DivExact
  <2>3. c.size \div c.stacks = q
    BY <2>1, <2>2
  <2> QED  BY <2>3 DEF StackSize, q
<1>5. StackSize(c) \div c.pageSize = PerStack(c)
  <2>1. 0 \in 0 .. c.pageSize - 1  OBVIOUS
  <2>2. PerStack(c) * c.pageSize = PerStack(c) * c.pageSize + 0  BY <1>3
  <2> QED  BY <1>1, <1>4, <2>1, <2>2, DivExact
<1>6. NumChannels(c) \in Nat \ {0}
  BY ChannelCount
<1>7. PagesPerChannel(c) = (PerStack(c) + NumChannels(c) - 1) \div NumChannels(c)
  BY <1>5 DEF PagesPerChannel
<1> DEFINE top == PerStack(c) + NumChannels(c) - 1
<1>a. top \in Nat
  BY <1>1, <1>6
<1> HIDE DEF top
<1>8. /\ top = NumChannels(c) * (top \div NumChannels(c)) + (top % NumChannels(c))
      /\ top % NumChannels(c) \in 0 .. NumChannels(c) - 1
      /\ top \div NumChannels(c) \in Nat
  BY <1>a, <1>6, DivMod
<1>9. top \div NumChannels(c) # 0
  <2> SUFFICES ASSUME top \div NumChannels(c) = 0 PROVE FALSE
    OBVIOUS
  <2>1. NumChannels(c) * 0 = 0
    BY <1>6
  <2>2. top < NumChannels(c)
    BY <1>6, <1>8, <2>1
  <2> QED  BY <1>1, <1>6, <2>2 DEF top
<1> QED  BY <1>4, <1>5, <1>7, <1>8, <1>9 DEF top

\* The FTL and the controller agree on the channel and on the ordinal of a
\* page within it, although they compute them independently.
LEMMA LocationAgrees ==
  ASSUME NEW c \in Config, EqualWholeBlocks(c), NEW p \in Nat, HasChannel(c, p)
  PROVE  /\ ChannelOf(c, p) \in 0 .. NumChannels(c) - 1
         /\ FtlLocation(c, p).ch = ChannelOf(c, p)
         /\ FtlLocation(c, p).local \in Nat
         /\ FtlSubarray(c, p) = SubarrayOf(c, p)
<1> USE MappingAssumption
<1> DEFINE n == NumChannels(c)
           per == PagesPerChannel(c)
<1>1. n \in Nat \ {0} /\ per \in Nat \ {0}
  BY ChannelCount, PagesPerChannelPositive
<1>2. p = n * (p \div n) + (p % n) /\ p % n \in 0 .. n - 1 /\ p \div n \in Nat
  BY <1>1, DivMod
<1>3. p = per * (p \div per) + (p % per) /\ p % per \in 0 .. per - 1
      /\ p \div per \in Nat
  BY <1>1, DivMod
<1>4. CASE c.placement = 2
  <2>1. c.table[p] \in 0 .. n - 1
    BY <1>1, <1>4 DEF HasChannel
  <2>2. ChannelOf(c, p) = c.table[p]
    BY <1>4 DEF ChannelOf, ContiguousChannels
  <2>3. FtlLocation(c, p) = [ch |-> c.table[p], local |-> p]
    BY <1>4 DEF FtlLocation, FtlContiguous
  <2>4. FtlSubarray(c, p) = SubarrayOf(c, p)
    BY <1>4, <2>2, <2>3 DEF FtlSubarray, SubarrayOf, ContiguousChannels
  <2> QED  BY <2>1, <2>2, <2>3, <2>4
<1>5. CASE c.placement # 2 /\ ContiguousChannels(c)
  <2> DEFINE ch == Lesser(p \div per, n - 1)
  <2>1. ch \in 0 .. n - 1 /\ ch <= p \div per
    BY <1>1, <1>3, SMTT(30) DEF Lesser
  <2>2. ChannelOf(c, p) = ch /\ FtlContiguous(c)
    BY <1>5 DEF ChannelOf, ContiguousChannels, FtlContiguous
  <2>3. FtlLocation(c, p) = [ch |-> ch, local |-> p - ch * per]
    BY <1>1, <1>5, <2>2 DEF FtlLocation
  <2>4. per * ch <= per * (p \div per)
    <3> HIDE DEF ch, per, n
    <3>1. per \in Nat /\ ch \in Nat /\ p \div per \in Nat /\ ch <= p \div per
      BY <1>1, <1>3, <2>1
    <3> QED  BY <3>1, TimesMonotone
  <2>5. p - ch * per \in Nat
    <3> HIDE DEF ch, per, n
    <3> QED  BY <1>1, <1>3, <2>1, <2>4
  <2>6. FtlSubarray(c, p) = SubarrayOf(c, p)
    BY <1>5, <2>2, <2>3 DEF FtlSubarray, SubarrayOf
  <2> QED  BY <2>1, <2>2, <2>3, <2>5, <2>6
<1>6. CASE c.placement # 2 /\ ~ContiguousChannels(c)
  <2>1. ~FtlContiguous(c) /\ ChannelOf(c, p) = p % n
    BY <1>6 DEF ContiguousChannels, FtlContiguous, ChannelOf
  <2>2. FtlLocation(c, p) = [ch |-> p % n, local |-> p \div n]
    BY <1>6, <2>1 DEF FtlLocation
  <2>3. FtlSubarray(c, p) = SubarrayOf(c, p)
    BY <1>6, <2>1, <2>2 DEF FtlSubarray, SubarrayOf
  <2> QED  BY <1>2, <2>1, <2>2, <2>3
<1> QED  BY <1>4, <1>5, <1>6

\* The sub-array of a page belongs to the channel of the page.
LEMMA SubarrayOwned ==
  ASSUME NEW c \in Config, EqualWholeBlocks(c), NEW p \in Nat, HasChannel(c, p)
  PROVE  /\ FtlSubarray(c, p) \in Nat /\ FtlSubarray(c, p) < c.subarrays
         /\ Owns(c, ChannelOf(c, p), FtlSubarray(c, p))
<1> USE MappingAssumption
<1> DEFINE ch == ChannelOf(c, p)
           k  == Count(c, ch)
           l  == FtlLocation(c, p).local
<1>1. ch \in 0 .. NumChannels(c) - 1 /\ l \in Nat /\ FtlLocation(c, p).ch = ch
  BY LocationAgrees
<1>2. First(c, ch) \in Nat /\ k \in Nat \ {0} /\ First(c, ch) + k <= c.subarrays
  BY <1>1, SlicesDisjoint
<1>3. l % k \in 0 .. k - 1
  BY <1>1, <1>2, DivMod
<1>4. FtlSubarray(c, p) = First(c, ch) + (l % k)
  BY <1>1 DEF FtlSubarray
<1> QED  BY <1>2, <1>3, <1>4 DEF Owns

(***************************************************************************)
(* The specification.                                                      *)
(***************************************************************************)
\* The invariant that the rest follows from: requests are routed as Route
\* computes, for a configuration that passed the capacity check.
THEOREM TypeCorrect == MappingSpec => []MappingTypeOK
<1>1. MappingInit => MappingTypeOK
  BY DEF MappingInit, MappingTypeOK
<1>2. MappingTypeOK /\ [MappingNext]_mappingVars => MappingTypeOK'
  <2> SUFFICES ASSUME MappingTypeOK, [MappingNext]_mappingVars PROVE MappingTypeOK'
    OBVIOUS
  <2> USE DEF MappingTypeOK
  <2>1. CASE Boot
    BY <2>1 DEF Boot
  <2>2. ASSUME NEW a \in GpuAddress, Push(a) PROVE MappingTypeOK'
    <3>1. Route(cfg, a) \in Routes(cfg)
      BY <2>2 DEF Push, Routes
    <3> QED  BY <2>2, <3>1 DEF Push
  <2>3. ASSUME NEW a \in GpuAddress, Fail(a) PROVE MappingTypeOK'
    BY <2>3 DEF Fail
  <2>4. CASE UNCHANGED mappingVars
    BY <2>4 DEF mappingVars
  <2> QED  BY <2>1, <2>2, <2>3, <2>4 DEF MappingNext
<1> QED  BY <1>1, <1>2, PTL DEF MappingSpec

\* A routed request is Route of a mapped address that can be routed.
LEMMA RoutedIsRoute ==
  ASSUME MappingTypeOK, NEW i \in 1 .. Len(routed)
  PROVE  /\ cfg \in Config /\ EqualWholeBlocks(cfg)
         /\ routed[i].gpu \in GpuAddress /\ IsHbfAddr(cfg, routed[i].gpu)
         /\ Routable(cfg, routed[i].gpu)
         /\ routed[i] = Route(cfg, routed[i].gpu)
<1>1. routed # <<>> /\ routed[i] \in Routes(cfg)
  BY DEF MappingTypeOK
<1>2. PICK a \in GpuAddress : /\ IsHbfAddr(cfg, a) /\ Routable(cfg, a)
                              /\ routed[i] = Route(cfg, a)
  BY <1>1 DEF Routes
<1>3. routed[i].gpu = a
  BY <1>2 DEF Route
<1> QED  BY <1>1, <1>2, <1>3 DEF MappingTypeOK, Bootable

\* What the model-checked invariants need of a routed request.
LEMMA RouteFacts ==
  ASSUME NEW c \in Config, EqualWholeBlocks(c), NEW a \in GpuAddress,
         IsHbfAddr(c, a), Routable(c, a)
  PROVE  LET x == Route(c, a)
             g == Logical(c, a) \div c.pageSize
         IN /\ x.gpu = a /\ g \in Nat /\ x.page \in Nat
            /\ x.stack = StackOf(c, g).stack /\ x.page = StackOf(c, g).page
            /\ x.off = Logical(c, a) % c.pageSize
            /\ HasChannel(c, x.page) /\ HasDirect(c, x.page)
            /\ x.channel = ChannelOf(c, x.page)
            /\ x.direct = DirectAddress(c, x.page) /\ x.pseudo = Pseudo(c, x.page)
<1>1. StackOf(c, Logical(c, a) \div c.pageSize).page \in Nat
  BY PageReadBack, StackOfType
<1> QED  BY <1>1, PageReadBack DEF Route, Routable

\* The same of the requests routed so far.
LEMMA RoutedFacts ==
  ASSUME MappingTypeOK, NEW i \in 1 .. Len(routed)
  PROVE  LET x == routed[i]
             g == Logical(cfg, x.gpu) \div cfg.pageSize
         IN /\ x.gpu \in GpuAddress /\ IsHbfAddr(cfg, x.gpu)
            /\ g \in Nat /\ x.page \in Nat
            /\ x.stack = StackOf(cfg, g).stack /\ x.page = StackOf(cfg, g).page
            /\ x.off = Logical(cfg, x.gpu) % cfg.pageSize
            /\ HasChannel(cfg, x.page) /\ HasDirect(cfg, x.page)
            /\ x.channel = ChannelOf(cfg, x.page)
            /\ x.direct = DirectAddress(cfg, x.page) /\ x.pseudo = Pseudo(cfg, x.page)
<1> DEFINE a == routed[i].gpu
<1>1. /\ cfg \in Config /\ EqualWholeBlocks(cfg) /\ a \in GpuAddress
      /\ IsHbfAddr(cfg, a) /\ Routable(cfg, a) /\ routed[i] = Route(cfg, a)
  BY RoutedIsRoute
<1> HIDE DEF a
<1>2. LET x == Route(cfg, a)
          g == Logical(cfg, a) \div cfg.pageSize
      IN /\ x.gpu = a /\ g \in Nat /\ x.page \in Nat
         /\ x.stack = StackOf(cfg, g).stack /\ x.page = StackOf(cfg, g).page
         /\ x.off = Logical(cfg, a) % cfg.pageSize
         /\ HasChannel(cfg, x.page) /\ HasDirect(cfg, x.page)
         /\ x.channel = ChannelOf(cfg, x.page)
         /\ x.direct = DirectAddress(cfg, x.page) /\ x.pseudo = Pseudo(cfg, x.page)
  BY <1>1, RouteFacts
<1> QED  BY <1>1, <1>2 DEF a

\* No two GPU addresses share a byte of the device.
THEOREM AddressesDistinct == MappingSpec => []NoAliasing
<1>1. MappingTypeOK => NoAliasing
  <2> SUFFICES ASSUME MappingTypeOK, NEW i \in 1 .. Len(routed), NEW j \in 1 .. Len(routed)
               PROVE  LET x == routed[i]  y == routed[j]
                          g == Logical(cfg, x.gpu) \div cfg.pageSize
                          h == Logical(cfg, y.gpu) \div cfg.pageSize
                          samePage == x.stack = y.stack /\ x.page = y.page
                      IN /\ samePage <=> g = h
                         /\ samePage /\ x.off = y.off => x.gpu = y.gpu
    BY DEF NoAliasing
  <2> USE MappingAssumption
  <2> DEFINE x == routed[i]
             y == routed[j]
             k == Logical(cfg, x.gpu)
             l == Logical(cfg, y.gpu)
             n == cfg.pageSize
  <2>1. /\ cfg \in Config /\ EqualWholeBlocks(cfg)
        /\ x.gpu \in GpuAddress /\ IsHbfAddr(cfg, x.gpu)
    BY RoutedIsRoute
  <2>2. y.gpu \in GpuAddress /\ IsHbfAddr(cfg, y.gpu)
    BY RoutedIsRoute
  <2>3. /\ k \div n \in Nat /\ x.off = k % n
        /\ x.stack = StackOf(cfg, k \div n).stack
        /\ x.page = StackOf(cfg, k \div n).page
    BY RoutedFacts
  <2>4. /\ l \div n \in Nat /\ y.off = l % n
        /\ y.stack = StackOf(cfg, l \div n).stack
        /\ y.page = StackOf(cfg, l \div n).page
    BY RoutedFacts
  <2>5. x.stack = y.stack /\ x.page = y.page <=> k \div n = l \div n
    BY <2>1, <2>3, <2>4, StackMapInjective
  <2>6. /\ k \in Nat /\ k = IF cfg.routeAll THEN x.gpu ELSE x.gpu - cfg.base
        /\ l \in Nat /\ l = IF cfg.routeAll THEN y.gpu ELSE y.gpu - cfg.base
    BY <2>1, <2>2, LogicalFacts
  <2>7. k \div n = l \div n /\ k % n = l % n => k = l
    <3>1. n \in Nat \ {0}  BY <2>1
    <3>2. k = n * (k \div n) + (k % n) /\ l = n * (l \div n) + (l % n)
      BY <2>6, <3>1, DivMod
    <3> HIDE DEF k, l, n
    <3> QED  BY <3>2
  <2>8. k = l => x.gpu = y.gpu
    <3>1. x.gpu \in Nat /\ y.gpu \in Nat /\ cfg.base \in Nat
      BY <2>1, <2>2
    <3> HIDE DEF x, y, k, l
    <3> QED  BY <2>6, <3>1
  <2> QED  BY <2>3, <2>4, <2>5, <2>7, <2>8
<1> QED  BY <1>1, TypeCorrect, PTL

\* The controller's affinity check never fails for an address that the FTL
\* or direct addressing computes.
THEOREM AffinityHolds == MappingSpec => []ChannelAffinity
<1>1. MappingTypeOK => ChannelAffinity
  <2> SUFFICES ASSUME MappingTypeOK, NEW i \in 1 .. Len(routed)
               PROVE  LET x == routed[i]
                      IN /\ x.pseudo.sa = x.direct.sa
                         /\ x.pseudo.sa < cfg.subarrays
                         /\ \A ch \in 0 .. NumChannels(cfg) - 1 :
                              Owns(cfg, ch, x.pseudo.sa) <=> ch = x.channel
    BY DEF ChannelAffinity
  <2> DEFINE x == routed[i]
  <2>1. cfg \in Config /\ EqualWholeBlocks(cfg)
    BY RoutedIsRoute
  <2>2. /\ x.page \in Nat /\ HasChannel(cfg, x.page)
        /\ x.channel = ChannelOf(cfg, x.page)
        /\ x.direct = DirectAddress(cfg, x.page) /\ x.pseudo = Pseudo(cfg, x.page)
    BY RoutedFacts
  <2>3. x.pseudo.sa = FtlSubarray(cfg, x.page) /\ x.direct.sa = SubarrayOf(cfg, x.page)
    BY <2>2 DEF Pseudo, DirectAddress
  <2>4. /\ FtlSubarray(cfg, x.page) = SubarrayOf(cfg, x.page)
        /\ x.channel \in 0 .. NumChannels(cfg) - 1
    BY <2>1, <2>2, LocationAgrees
  <2>5. /\ x.pseudo.sa \in Nat /\ x.pseudo.sa < cfg.subarrays
        /\ Owns(cfg, x.channel, x.pseudo.sa)
    BY <2>1, <2>2, <2>3, SubarrayOwned
  <2>6. \A ch \in 0 .. NumChannels(cfg) - 1 :
          Owns(cfg, ch, x.pseudo.sa) <=> ch = x.channel
    BY <2>1, <2>4, <2>5, OneOwner
  <2> QED  BY <2>3, <2>4, <2>5, <2>6
<1> QED  BY <1>1, TypeCorrect, PTL

\* No page that was never written is read at the address of another page or
\* of a block of the FTL.
THEOREM PseudoSeparate == MappingSpec => []PseudoDistinct
<1>1. MappingTypeOK => PseudoDistinct
  <2> SUFFICES ASSUME MappingTypeOK, NEW i \in 1 .. Len(routed), NEW j \in 1 .. Len(routed)
               PROVE  LET x == routed[i]  y == routed[j]
                      IN /\ x.stack = y.stack /\ x.pseudo = y.pseudo => x.page = y.page
                         /\ x.pseudo.blk \notin FtlBlocks(cfg)
    BY DEF PseudoDistinct
  <2> USE MappingAssumption
  <2> DEFINE x == routed[i]
             y == routed[j]
             n == cfg.pagesPerBlock
  <2>1. /\ cfg \in Config /\ EqualWholeBlocks(cfg)
        /\ x.page \in Nat /\ x.pseudo = Pseudo(cfg, x.page)
    BY RoutedIsRoute, RoutedFacts
  <2>2. y.page \in Nat /\ y.pseudo = Pseudo(cfg, y.page)
    BY RoutedFacts
  <2>3. n \in Nat \ {0}
    BY <2>1
  <2>4. /\ x.page = n * (x.page \div n) + (x.page % n)
        /\ y.page = n * (y.page \div n) + (y.page % n)
        /\ x.page \div n \in Nat /\ y.page \div n \in Nat
    BY <2>1, <2>2, <2>3, DivMod
  <2>5. /\ x.pseudo.blk = DirectBit + (x.page \div n) /\ x.pseudo.off = x.page % n
        /\ y.pseudo.blk = DirectBit + (y.page \div n) /\ y.pseudo.off = y.page % n
    BY <2>1, <2>2 DEF Pseudo
  <2>6. x.pseudo = y.pseudo => x.page \div n = y.page \div n /\ x.page % n = y.page % n
    <3> HIDE DEF x, y, n
    <3> QED  BY <2>4, <2>5
  <2>7. x.pseudo.blk \notin FtlBlocks(cfg)
    <3> DEFINE q == x.page \div n
               w == StackSize(cfg) \div (cfg.pagesPerBlock * cfg.pageSize)
    <3>1. FtlBlocks(cfg) = 0 .. Lesser(IF w = 0 THEN 1 ELSE w, DirectBit) - 1
      BY DEF FtlBlocks
    <3>2. q \in Nat /\ x.pseudo.blk = DirectBit + q
      BY <2>4, <2>5
    <3>3. StackSize(cfg) \in Nat
      BY <2>1, WholeSpan, PagesPerChannelPositive
    <3>4. w \in Nat
      <4>1. cfg.pagesPerBlock * cfg.pageSize \in Nat \ {0}
        BY <2>1
      <4> QED  BY <3>3, <4>1, DivMod
    <3> HIDE DEF q, w
    <3>5. Lesser(IF w = 0 THEN 1 ELSE w, DirectBit) <= DirectBit
      BY <3>4 DEF Lesser
    <3>6. Lesser(IF w = 0 THEN 1 ELSE w, DirectBit) \in Nat
      BY <3>4 DEF Lesser
    <3> QED  BY <3>1, <3>2, <3>5, <3>6
  <2> QED  BY <2>4, <2>6, <2>7
<1> QED  BY <1>1, TypeCorrect, PTL

\* In range mode no stack is sent more pages than its blocks hold.
THEOREM StackCapacity == MappingSpec => []WithinStack
<1>1. MappingTypeOK => WithinStack
  <2> SUFFICES ASSUME MappingTypeOK, ~cfg.routeAll, NEW i \in 1 .. Len(routed)
               PROVE  routed[i].page \div cfg.pagesPerBlock \in FtlBlocks(cfg)
    BY DEF WithinStack
  <2> USE MappingAssumption
  <2> DEFINE p == routed[i].page
             l == Logical(cfg, routed[i].gpu)
             g == l \div cfg.pageSize
             n == cfg.pagesPerBlock
             per == PerStack(cfg)
             k == per \div n
             w == StackSize(cfg) \div (n * cfg.pageSize)
  <2>1. cfg \in Config /\ EqualWholeBlocks(cfg)
    BY RoutedIsRoute
  <2>2. /\ g \in Nat /\ p \in Nat /\ HasDirect(cfg, p)
        /\ p = StackOf(cfg, g).page
        /\ routed[i].gpu \in GpuAddress /\ IsHbfAddr(cfg, routed[i].gpu)
    BY RoutedFacts
  <2>3. /\ per \in Nat \ {0} /\ Pages(cfg) \in Nat
        /\ cfg.size = cfg.pageSize * Pages(cfg)
        /\ Pages(cfg) = cfg.stacks * per /\ per % n = 0
    BY <2>1, WholeSpan
  <2>4. l \in Nat /\ l < cfg.size
    BY <2>1, <2>2, LogicalFacts
  <2>5. g < Pages(cfg)
    BY <2>1, <2>3, <2>4, DivBound
  <2>6. p < per
    <3>1. CASE cfg.stackMap = 1
      <4>1. p = g % per
        BY <2>1, <2>2, <2>5, <3>1, StackOfCases, ContiguousExact
      <4>2. g % per \in 0 .. per - 1
        BY <2>2, <2>3, DivMod
      <4> HIDE DEF p, g, per
      <4> QED  BY <2>3, <4>1, <4>2
    <3>2. CASE cfg.stackMap # 1
      <4>1. p = g \div cfg.stacks
        BY <2>1, <2>2, <3>2, StackOfCases DEF Interleaved
      <4>2. g < cfg.stacks * per
        BY <2>3, <2>5
      <4> QED  BY <2>1, <2>2, <2>3, <4>1, <4>2, DivBound, SMTT(30)
    <3> QED  BY <3>1, <3>2
  <2>7. n \in Nat \ {0} /\ cfg.pageSize \in Nat \ {0}
    BY <2>1
  <2>8. per = n * k /\ k \in Nat \ {0}
    <3>1. per = n * k + (per % n) /\ k \in Nat
      BY <2>3, <2>7, DivMod
    <3> HIDE DEF k, n, per
    <3>2. per = n * k
      BY <2>3, <2>7, <3>1
    <3>3. k # 0
      BY <2>3, <2>7, <3>2
    <3> QED  BY <3>1, <3>2, <3>3
  <2>9. p \div n < k /\ p \div n \in Nat
    BY <2>2, <2>6, <2>7, <2>8, DivBound, DivMod
  <2>10. w = k
    <3>1. StackSize(cfg) = per * cfg.pageSize
      BY <2>1, PagesPerChannelPositive
    <3> DEFINE m == n * cfg.pageSize
    <3>2. m \in Nat \ {0}
      BY <2>7
    <3>3. StackSize(cfg) = k * m + 0
      <4> HIDE DEF k, n, per
      <4>1. per * cfg.pageSize = k * (n * cfg.pageSize)
        BY <2>7, <2>8
      <4> QED  BY <2>7, <2>8, <3>1, <3>2, <4>1
    <3> HIDE DEF k, m
    <3>4. (k * m + 0) \div m = k
      BY <2>8, <3>2, DivExact
    <3> QED  BY <3>3, <3>4 DEF m
  <2>11. FtlBlocks(cfg) = 0 .. Lesser(IF w = 0 THEN 1 ELSE w, DirectBit) - 1
    BY DEF FtlBlocks
  <2>12. p \div n < DirectBit
    BY <2>2 DEF HasDirect
  <2> HIDE DEF p, n, k, w
  <2>13. FtlBlocks(cfg) = 0 .. Lesser(k, DirectBit) - 1
    BY <2>8, <2>10, <2>11
  <2>14. p \div n < Lesser(k, DirectBit) /\ Lesser(k, DirectBit) \in Nat
    BY <2>8, <2>9, <2>12 DEF Lesser
  <2>15. p \div n \in FtlBlocks(cfg)
    BY <2>9, <2>13, <2>14
  <2> QED  BY <2>15 DEF p, n
<1> QED  BY <1>1, TypeCorrect, PTL
\* What boot, stack map and FTL agree on, together.
THEOREM AddressesCorrect == MappingSpec => []AddressesSound
<1>1. MappingTypeOK /\ NoAliasing /\ PseudoDistinct /\ WithinStack => AddressesSound
  BY DEF AddressesSound
<1> QED  BY <1>1, TypeCorrect, AddressesDistinct, PseudoSeparate, StackCapacity, PTL

-----------------------------------------------------------------------------
(***************************************************************************)
(* Write coverage, for pages and windows of any size and any writes of     *)
(* sectors: where the bytes of a write lie in its page.                    *)
(***************************************************************************)
\* An address, its window and its page.
LEMMA WindowInPage ==
  ASSUME NEW f \in Nat, NEW w \in Nat \ {0}, NEW size \in Nat \ {0}, size % w = 0
  PROVE  LET start == f - (f % w)
         IN /\ start \in Nat /\ f % w \in 0 .. w - 1
            /\ start \div size = f \div size /\ f \div size \in Nat
            /\ start % size \in 0 .. size - w
            /\ f % size = (start % size) + (f % w)
            /\ f = (f \div size) * size + (f % size)
<1> DEFINE start == f - (f % w)
           m == size \div w
           q == f \div w
           r == f % w
           Q == q \div m
           R == q % m
<1>1. f = w * q + r /\ r \in 0 .. w - 1 /\ q \in Nat
  BY DivMod
<1>2. size = w * m /\ m \in Nat
  <2>1. size = w * m + (size % w) /\ m \in Nat
    BY DivMod
  <2> QED  BY <2>1
<1>3. m # 0
  BY <1>2
<1>4. q = m * Q + R /\ R \in 0 .. m - 1 /\ Q \in Nat
  BY <1>1, <1>2, <1>3, DivMod
<1> HIDE DEF m, q, r, Q, R
<1>0. start = f - r
  BY DEF r
<1> HIDE DEF start
<1>5. w * R \in Nat /\ w * R <= size - w
  <2>1. m - 1 \in Nat /\ R \in Nat /\ R <= m - 1
    BY <1>2, <1>3, <1>4
  <2>2. w * R <= w * (m - 1)
    BY <2>1, TimesMonotone
  <2>3. w * (m - 1) = w * m - w
    BY <1>2
  <2> QED  BY <2>1, <2>2, <2>3, <1>2
<1>6. start = Q * size + w * R
  <2>1. start = w * q
    BY <1>0, <1>1
  <2>2. w * q = w * (m * Q) + w * R
    BY <1>2, <1>4
  <2>3. w * (m * Q) = Q * size
    BY <1>2, <1>4
  <2> QED  BY <2>1, <2>2, <2>3
<1>7. w * R \in 0 .. size - 1 /\ w * R + r \in 0 .. size - 1
  BY <1>1, <1>5
<1>8. start \div size = Q /\ start % size = w * R
  BY <1>4, <1>6, <1>7, DivExact
<1>9. f = Q * size + (w * R + r)
  <2>1. f = start + r /\ Q * size \in Nat
    BY <1>0, <1>1, <1>4
  <2> QED  BY <2>1, <1>1, <1>5, <1>6
<1>10. f \div size = Q /\ f % size = w * R + r
  BY <1>4, <1>7, <1>9, DivExact
<1>11. start \in Nat
  BY <1>4, <1>5, <1>6
<1>12. /\ start \in Nat /\ r \in 0 .. w - 1
       /\ start \div size = f \div size /\ f \div size \in Nat
       /\ start % size \in 0 .. size - w
       /\ f % size = (start % size) + r
       /\ f = (f \div size) * size + (f % size)
  <2>1. f = Q * size + (f % size)
    BY <1>9, <1>10
  <2>2. w * R \in 0 .. size - w
    BY <1>5
  <2> QED  BY <2>1, <2>2, <1>1, <1>4, <1>8, <1>10, <1>11
<1> QED  BY <1>12 DEF start, r

\* An address above a base that starts a window is in its window at the same
\* place as its distance from the base.
LEMMA WindowOfBase ==
  ASSUME NEW f \in Nat, NEW b \in Nat, NEW w \in Nat \ {0}, b % w = 0
  PROVE  (b + f) % w = f % w
<1> DEFINE p == b \div w
           q == f \div w
           r == f % w
<1>1. b = w * p + (b % w) /\ p \in Nat
  BY DivMod
<1>2. f = w * q + r /\ r \in 0 .. w - 1 /\ q \in Nat
  BY DivMod
<1> HIDE DEF p, q, r
<1>3. b + f = (p + q) * w + r /\ p + q \in Nat
  BY <1>1, <1>2
<1>4. (b + f) % w = r
  BY <1>2, <1>3, DivExact
<1> QED  BY <1>4 DEF r

\* The first byte of a page.
PageStart(p) == Base + p * PageSize

\* A write is valid, and what it covers of its page is what it names.
LEMMA WriteBytes ==
  ASSUME NEW w \in Writes
  PROVE  /\ Valid(w) /\ WritePage(w) \in Nat
         /\ Target(w) = {PageStart(WritePage(w)) + b : b \in Bytes(w)}
<1> DEFINE f == FromBase(w)
           W == Window
           start == f - (f % W)
           page  == f \div PageSize
<1>1. /\ w.addr \in Nat /\ w.addr >= Base /\ w.size \in Nat
      /\ w.mask \subseteq 0 .. W - 1 /\ (w.addr % W) + w.size <= W
      /\ Base \in Nat /\ Base % W = 0 /\ W \in Nat \ {0} /\ PageSize \in Nat \ {0}
      /\ PageSize % W = 0
  BY CoverageAssumption
<1>2. f \in Nat /\ w.addr = Base + f
  BY <1>1 DEF FromBase
<1>3. /\ start \in Nat /\ f % W \in 0 .. W - 1
      /\ start \div PageSize = page /\ page \in Nat
      /\ start % PageSize \in 0 .. PageSize - W
      /\ f % PageSize = (start % PageSize) + (f % W)
      /\ f = page * PageSize + (f % PageSize)
  <2> HIDE DEF f
  <2> QED  BY <1>1, <1>2, WindowInPage, ZenonT(60)
<1>4. w.addr % W = f % W
  <2> HIDE DEF f, W
  <2>1. (Base + f) % W = f % W
    BY <1>1, <1>2, WindowOfBase
  <2> QED  BY <2>1, <1>2
<1>5. WritePage(w) = page /\ MaskBase(w) = start
  BY DEF WritePage, MaskBase
<1>6. Bytes(w) = IF w.mask # {} THEN {(start % PageSize) + i : i \in w.mask}
                 ELSE (f % PageSize) .. (f % PageSize) + w.size - 1
  BY <1>5 DEF Bytes
<1>7. Target(w) = IF w.mask # {} THEN {w.addr - (w.addr % W) + i : i \in w.mask}
                  ELSE w.addr .. w.addr + w.size - 1
  BY DEF Target
<1> DEFINE off  == f % PageSize
           woff == start % PageSize
           r    == f % W
           at   == page * PageSize
<1> HIDE DEF f, start, page, off, woff, r, at, W
<1>8. at \in Nat
  BY <1>1, <1>3 DEF at
<1>10. woff \in 0 .. PageSize - W /\ off = woff + r /\ r \in 0 .. W - 1 /\ f = at + off
       /\ r + w.size <= W
  BY <1>1, <1>3, <1>4 DEF off, woff, r, at
<1>11. PageStart(page) = Base + at
  BY DEF PageStart, at
<1>12. w.addr - (w.addr % W) = Base + at + woff /\ w.addr = Base + at + off
  BY <1>1, <1>2, <1>4, <1>8, <1>10 DEF r
<1>13. CASE w.mask # {}
  <2>1. Bytes(w) = {woff + i : i \in w.mask}
    BY <1>6, <1>13 DEF woff
  <2>2. Target(w) = {Base + at + woff + i : i \in w.mask}
    BY <1>7, <1>12, <1>13
  <2>3. Bytes(w) \subseteq Byte
    BY <2>1, <1>1, <1>10 DEF Byte
  <2>4. \A i \in w.mask : Base + at + woff + i = (Base + at) + (woff + i)
    BY <1>1, <1>8, <1>10
  <2>5. Target(w) = {(Base + at) + b : b \in Bytes(w)}
    BY <2>1, <2>2, <2>4
  <2> QED  BY <2>3, <2>5, <1>3, <1>5, <1>11 DEF Valid
<1>14. CASE w.mask = {}
  <2>1. Bytes(w) = off .. off + w.size - 1
    BY <1>6, <1>14 DEF off
  <2>2. Target(w) = Base + at + off .. Base + at + off + w.size - 1
    BY <1>7, <1>12, <1>14
  <2>3. Bytes(w) \subseteq Byte
    <3> HIDE DEF off
    <3>1. off \in Nat /\ off + w.size <= PageSize
      BY <1>1, <1>10
    <3> QED  BY <2>1, <3>1, <1>1 DEF Byte
  <2>4. off \in Nat /\ Base + at \in Nat /\ w.size \in Nat
    BY <1>1, <1>8, <1>10
  <2>5. Target(w) = {(Base + at) + b : b \in Bytes(w)}
    <3>1. ASSUME NEW x \in Target(w) PROVE \E b \in Bytes(w) : x = (Base + at) + b
      <4>1. x - (Base + at) \in Bytes(w) /\ x = (Base + at) + (x - (Base + at))
        BY <2>1, <2>2, <2>4, <3>1
      <4> QED  BY <4>1
    <3>2. ASSUME NEW b \in Bytes(w) PROVE (Base + at) + b \in Target(w)
      BY <2>1, <2>2, <2>4, <3>2
    <3> QED  BY <3>1, <3>2
  <2> QED  BY <2>3, <2>5, <1>3, <1>5, <1>11, <1>14 DEF Valid
<1> QED  BY <1>13, <1>14

\* A set of bytes of a page is the whole of it when it has its size, and when
\* it names all of its addresses.
LEMMA WholePage ==
  ASSUME NEW S, S \subseteq Byte, NEW p \in Nat
  PROVE  /\ IsFiniteSet(S) /\ Cardinality(S) \in Nat
         /\ Cardinality(S) = PageSize <=> S = Byte
         /\ {PageStart(p) + b : b \in S} = PageStart(p) .. PageStart(p + 1) - 1 <=> S = Byte
<1>1. PageSize \in Nat \ {0} /\ Base \in Nat
  BY CoverageAssumption
<1>2. IsFiniteSet(Byte) /\ Cardinality(Byte) = PageSize
  <2>1. 0 \in Int /\ PageSize - 1 \in Int
    BY <1>1
  <2>2. IsFiniteSet(0 .. PageSize - 1)
        /\ Cardinality(0 .. PageSize - 1)
             = IF 0 > PageSize - 1 THEN 0 ELSE PageSize - 1 - 0 + 1
    BY <2>1, FS_Interval
  <2> QED  BY <2>2, <1>1 DEF Byte
<1>3. IsFiniteSet(S) /\ (Cardinality(S) = Cardinality(Byte) => S = Byte)
  BY <1>2, FS_Subset
<1>4. Cardinality(S) \in Nat
  BY <1>3, FS_CardinalityType
<1>5. PageStart(p) \in Nat /\ PageStart(p + 1) = PageStart(p) + PageSize
  BY <1>1 DEF PageStart
<1> DEFINE at == PageStart(p)
           T(s) == {at + b : b \in s}
<1> HIDE DEF at
<1>6. T(Byte) = at .. at + PageSize - 1
  <2>1. at \in Nat /\ PageSize \in Nat
    BY <1>1, <1>5 DEF at
  <2>2. \A x \in at .. at + PageSize - 1 : x - at \in Byte /\ x = at + (x - at)
    BY <2>1 DEF Byte
  <2>3. \A b \in Byte : at + b \in at .. at + PageSize - 1
    BY <2>1 DEF Byte
  <2> QED  BY <2>2, <2>3
<1>7. ASSUME T(S) = T(Byte) PROVE S = Byte
  <2> SUFFICES ASSUME NEW b \in Byte PROVE b \in S
    OBVIOUS
  <2>1. at + b \in T(S)
    BY <1>7
  <2>2. PICK c \in S : at + b = at + c
    BY <2>1
  <2>3. at \in Nat /\ b \in Nat /\ c \in Nat
    BY <1>1, <1>5 DEF at, Byte
  <2>4. b = c
    BY <2>2, <2>3
  <2> QED  BY <2>4
<1>8. T(S) = at .. at + PageSize - 1 <=> S = Byte
  BY <1>6, <1>7
<1> HIDE DEF T
<1>9. Cardinality(S) = PageSize <=> S = Byte
  BY <1>2, <1>3
<1>10. {PageStart(p) + b : b \in S} = PageStart(p) .. PageStart(p + 1) - 1 <=> S = Byte
  <2>1. PageStart(p) .. PageStart(p + 1) - 1 = at .. at + PageSize - 1
    <3>1. PageStart(p + 1) - 1 = at + PageSize - 1
      BY <1>1, <1>5 DEF at
    <3> QED  BY <3>1 DEF at
  <2>2. {PageStart(p) + b : b \in S} = T(S)
    BY DEF T, at
  <2> QED  BY <1>8, <2>1, <2>2
<1> QED  BY <1>3, <1>4, <1>9, <1>10

-----------------------------------------------------------------------------
\* The inductive invariant: what is covered is what the writes of the page
\* cover, the counter is its size, and no write has ended the run.
CoverageTypes ==
  /\ DOMAIN count = DOMAIN covered /\ DOMAIN wrote = DOMAIN covered
  /\ IsFiniteSet(DOMAIN covered) /\ DOMAIN covered \subseteq Nat
  /\ unique \in Nat /\ flushed \in Nat

CoveredByWrites ==
  \A p \in DOMAIN covered :
    /\ covered[p] \subseteq Byte /\ count[p] = Cardinality(covered[p])
    /\ \A w \in wrote[p] : w \in Writes /\ WritePage(w) = p
    /\ covered[p] = UNION {Bytes(w) : w \in wrote[p]}

CoverageIInv ==
  CoverageTypes /\ CoveredByWrites /\ UniqueBytesExact /\ NeverFatal

\* A page is full exactly when its writes named all of it.
LEMMA CoverageFull == CoverageIInv => FullIffAllWritten
<1> SUFFICES ASSUME CoverageIInv, NEW p \in DOMAIN covered
             PROVE  Full(p) <=> UNION {Target(w) : w \in wrote[p]}
                                 = Base + p * PageSize .. Base + (p + 1) * PageSize - 1
  BY DEF FullIffAllWritten
<1>1. /\ p \in Nat /\ covered[p] \subseteq Byte /\ count[p] = Cardinality(covered[p])
      /\ \A w \in wrote[p] : w \in Writes /\ WritePage(w) = p
      /\ covered[p] = UNION {Bytes(w) : w \in wrote[p]}
  BY DEF CoverageIInv, CoverageTypes, CoveredByWrites
<1>2. UNION {Target(w) : w \in wrote[p]} = {PageStart(p) + b : b \in covered[p]}
  <2>1. \A w \in wrote[p] : Target(w) = {PageStart(p) + b : b \in Bytes(w)}
    BY <1>1, WriteBytes
  <2> QED  BY <2>1, <1>1
<1>3. /\ Cardinality(covered[p]) = PageSize <=> covered[p] = Byte
      /\ {PageStart(p) + b : b \in covered[p]} = PageStart(p) .. PageStart(p + 1) - 1
           <=> covered[p] = Byte
  BY <1>1, WholePage
<1>4. PageStart(p) = Base + p * PageSize /\ PageStart(p + 1) = Base + (p + 1) * PageSize
  BY DEF PageStart
<1>5. PageSize # 0
  BY CoverageAssumption
<1>6. UNION {Target(w) : w \in wrote[p]} = Base + p * PageSize .. Base + (p + 1) * PageSize - 1
      <=> covered[p] = Byte
  <2>1. PageStart(p) .. PageStart(p + 1) - 1
          = Base + p * PageSize .. Base + (p + 1) * PageSize - 1
    <3> DEFINE next == (p + 1) * PageSize
    <3>1. next \in Nat /\ Base \in Nat
      BY <1>1, CoverageAssumption
    <3> HIDE DEF next
    <3>2. (Base + next) - 1 = Base + (next - 1)
      BY <3>1
    <3> QED  BY <3>2 DEF next, PageStart
  <2> QED  BY <1>2, <1>3, <2>1
<1>7. Full(p) <=> covered[p] = Byte
  BY <1>1, <1>3, <1>5 DEF Full
<1> QED  BY <1>6, <1>7

LEMMA CoverageInitially == CoverageInit => CoverageIInv
<1> SUFFICES ASSUME CoverageInit PROVE CoverageIInv
  OBVIOUS
<1>1. /\ DOMAIN covered = {} /\ DOMAIN count = {} /\ DOMAIN wrote = {}
      /\ unique = 0 /\ flushed = 0 /\ ~dead
  BY DEF CoverageInit
<1>2. Buffered = {}
  BY <1>1 DEF Buffered
<1>3. UniqueBytesExact
  BY <1>1, <1>2, FS_EmptySet DEF UniqueBytesExact
<1> QED  BY <1>1, <1>3, FS_EmptySet
         DEF CoverageIInv, CoverageTypes, CoveredByWrites, NeverFatal

\* The numbers of one page.
LEMMA BytesOfPage ==
  ASSUME NEW p, NEW a \in Nat, NEW b \in Nat, a <= b
  PROVE  /\ IsFiniteSet({p} \X (a + 1 .. b))
         /\ Cardinality({p} \X (a + 1 .. b)) = b - a
<1>1. IsFiniteSet({p}) /\ Cardinality({p}) = 1
  BY FS_Singleton
<1>2. IsFiniteSet(a + 1 .. b) /\ Cardinality(a + 1 .. b) = b - a
  <2>1. a + 1 \in Int /\ b \in Int
    OBVIOUS
  <2>2. /\ IsFiniteSet(a + 1 .. b)
        /\ Cardinality(a + 1 .. b) = IF a + 1 > b THEN 0 ELSE b - (a + 1) + 1
    BY <2>1, FS_Interval
  <2> QED  BY <2>2
<1>3. /\ IsFiniteSet({p} \X (a + 1 .. b))
      /\ Cardinality({p} \X (a + 1 .. b)) = Cardinality({p}) * Cardinality(a + 1 .. b)
  BY <1>1, <1>2, FS_Product
<1> QED  BY <1>1, <1>2, <1>3

\* There are finitely many buffered bytes.
LEMMA BufferedFinite == CoverageIInv => IsFiniteSet(Buffered)
<1> SUFFICES ASSUME CoverageIInv PROVE IsFiniteSet(Buffered)
  OBVIOUS
<1>1. PageSize \in Nat \ {0}
  BY CoverageAssumption
<1>2. IsFiniteSet(1 .. PageSize)
  BY <1>1, FS_Interval
<1>0. DOMAIN count = DOMAIN covered /\ IsFiniteSet(DOMAIN covered)
  BY DEF CoverageIInv, CoverageTypes
<1>3. IsFiniteSet((DOMAIN covered) \X (1 .. PageSize))
  <2>1. ASSUME NEW S, NEW T, IsFiniteSet(S), IsFiniteSet(T) PROVE IsFiniteSet(S \X T)
    BY <2>1, FS_Product
  <2> QED  BY <1>0, <1>2, <2>1
<1>4. ASSUME NEW p \in DOMAIN count PROVE count[p] \in 0 .. PageSize
  <2>1. covered[p] \subseteq Byte /\ count[p] = Cardinality(covered[p])
    BY DEF CoverageIInv, CoverageTypes, CoveredByWrites
  <2>2. IsFiniteSet(Byte) /\ Cardinality(Byte) = PageSize /\ Cardinality(covered[p]) \in Nat
    BY <2>1, <1>1, WholePage, 0 \in Nat
  <2>3. Cardinality(covered[p]) <= Cardinality(Byte)
    BY <2>1, <2>2, FS_Subset
  <2> QED  BY <2>1, <2>2, <2>3, <1>1
<1>5. ASSUME NEW x \in Buffered PROVE x \in (DOMAIN covered) \X (1 .. PageSize)
  <2>1. PICK p \in DOMAIN count : x \in {p} \X (1 .. count[p])
    BY DEF Buffered
  <2>2. count[p] \in 0 .. PageSize
    BY <1>4
  <2>3. 1 .. count[p] \subseteq 1 .. PageSize
    BY <2>2, <1>1
  <2>4. PICK b \in 1 .. count[p] : x = <<p, b>>
    BY <2>1
  <2>5. p \in DOMAIN covered /\ b \in 1 .. PageSize
    BY <2>3, <2>4, <1>0
  <2> QED  BY <2>4, <2>5
<1>6. Buffered \subseteq (DOMAIN covered) \X (1 .. PageSize)
  BY <1>5
<1> QED  BY <1>3, <1>6, FS_Subset

-----------------------------------------------------------------------------
LEMMA PushKeepsCoverage ==
  ASSUME CoverageIInv, NEW w \in Writes, PushWrite(w)
  PROVE  CoverageIInv'
<1> DEFINE p == WritePage(w)
           before == IF p \in DOMAIN covered THEN covered[p] ELSE {}
           n == IF p \in DOMAIN count THEN count[p] ELSE 0
           a == Cardinality(Added(w, before))
           had == IF p \in DOMAIN wrote THEN wrote[p] ELSE {}
           D == DOMAIN covered
<1>0. CoverageTypes /\ CoveredByWrites /\ UniqueBytesExact /\ NeverFatal
  BY DEF CoverageIInv
<1>1. Valid(w) /\ p \in Nat
  BY WriteBytes
<1>2. Bytes(w) \subseteq Byte
  BY <1>1 DEF Valid
<1>3. /\ covered' = [q \in D \cup {p} |-> IF q = p THEN before \cup Bytes(w) ELSE covered[q]]
      /\ count' = [q \in DOMAIN count \cup {p} |-> IF q = p THEN n + a ELSE count[q]]
      /\ wrote' = [q \in DOMAIN wrote \cup {p} |-> IF q = p THEN {w} \cup had ELSE wrote[q]]
      /\ unique' = unique + a /\ flushed' = flushed /\ dead' = dead
  BY <1>1 DEF PushWrite
<1>4. DOMAIN count = D /\ DOMAIN wrote = D /\ IsFiniteSet(D) /\ D \subseteq Nat
      /\ unique \in Nat /\ flushed \in Nat
  BY <1>0 DEF CoverageTypes
<1>5. /\ before \subseteq Byte /\ n = Cardinality(before)
      /\ before = UNION {Bytes(v) : v \in had}
      /\ \A v \in had : v \in Writes /\ WritePage(v) = p
  <2>1. CASE p \in D
    BY <2>1, <1>0, <1>4 DEF CoveredByWrites
  <2>2. CASE p \notin D
    <3>1. before = {} /\ n = 0 /\ had = {}
      BY <2>2, <1>4
    <3> QED  BY <3>1, FS_EmptySet
  <2> QED  BY <2>1, <2>2
<1>6. /\ n \in Nat /\ a \in Nat /\ Cardinality(before \cup Bytes(w)) = n + a
  <2> HIDE DEF p, n, before
  <2>1. IsFiniteSet(before) /\ Cardinality(before) \in Nat
    BY <1>1, <1>5, WholePage
  <2>2. Added(w, before) \subseteq Byte /\ before \cap Added(w, before) = {}
        /\ before \cup Added(w, before) = before \cup Bytes(w)
    BY <1>2 DEF Added
  <2>3. IsFiniteSet(Added(w, before))
    BY <1>1, <2>2, WholePage
  <2> QED  BY <1>5, <2>1, <2>2, <2>3, CountUnion
<1> HIDE DEF p, n, a, before, had
<1>7. CoverageTypes'
  <2>1. IsFiniteSet(D \cup {p})
    BY <1>4, FS_AddElement
  <2>2. DOMAIN covered' = D \cup {p} /\ DOMAIN count' = D \cup {p} /\ DOMAIN wrote' = D \cup {p}
    BY <1>3, <1>4
  <2>3. unique' \in Nat /\ flushed' \in Nat
    BY <1>3, <1>4, <1>6
  <2> QED  BY <2>1, <2>2, <2>3, <1>1, <1>4 DEF CoverageTypes, p
<1>8. CoveredByWrites'
  <2> SUFFICES ASSUME NEW q \in D \cup {p}
               PROVE  /\ covered'[q] \subseteq Byte /\ count'[q] = Cardinality(covered'[q])
                      /\ \A v \in wrote'[q] : v \in Writes /\ WritePage(v) = q
                      /\ covered'[q] = UNION {Bytes(v) : v \in wrote'[q]}
    <3>1. DOMAIN covered' = D \cup {p}
      BY <1>3
    <3> QED  BY <3>1 DEF CoveredByWrites
  <2>1. CASE q = p
    <3>1. /\ covered'[q] = before \cup Bytes(w) /\ count'[q] = n + a /\ wrote'[q] = {w} \cup had
      BY <2>1, <1>3, <1>4
    <3>2. UNION {Bytes(v) : v \in {w} \cup had} = Bytes(w) \cup UNION {Bytes(v) : v \in had}
      OBVIOUS
    <3>3. WritePage(w) = p
      BY DEF p
    <3>4. covered'[q] = UNION {Bytes(v) : v \in wrote'[q]}
      BY <3>1, <3>2, <1>5
    <3>5. \A v \in wrote'[q] : v \in Writes /\ WritePage(v) = q
      BY <3>1, <3>3, <2>1, <1>5
    <3> QED  BY <3>1, <3>4, <3>5, <1>2, <1>5, <1>6
  <2>2. CASE q # p
    <3>1. /\ q \in D /\ covered'[q] = covered[q] /\ count'[q] = count[q] /\ wrote'[q] = wrote[q]
      BY <2>2, <1>3, <1>4
    <3> QED  BY <3>1, <1>0 DEF CoveredByWrites
  <2> QED  BY <2>1, <2>2
<1>9. UniqueBytesExact'
  <2> DEFINE new == {p} \X (n + 1 .. n + a)
  <2>1. Buffered' = Buffered \cup new
    <3>1. Buffered' = UNION {{q} \X (1 .. count'[q]) : q \in D \cup {p}}
      BY <1>3, <1>4 DEF Buffered
    <3>2. Buffered = UNION {{q} \X (1 .. count[q]) : q \in D}
      BY <1>4 DEF Buffered
    <3>3. count'[p] = n + a /\ \A q \in D : q # p => count'[q] = count[q]
      BY <1>3, <1>4
    <3>4. 1 .. n + a = (1 .. n) \cup (n + 1 .. n + a)
      BY <1>6
    <3>5. p \in D => count[p] = n
      BY <1>4 DEF n
    <3>6. p \notin D => 1 .. n = {}
      BY <1>4 DEF n
    <3>7. {p} \X (1 .. n + a) = ({p} \X (1 .. n)) \cup new
      BY <3>4
    <3>8. ASSUME NEW x \in Buffered' PROVE x \in Buffered \cup new
      <4>1. PICK q \in D \cup {p} : x \in {q} \X (1 .. count'[q])
        BY <3>1
      <4>2. CASE q = p
        <5>1. x \in {p} \X (1 .. n) \/ x \in new
          BY <4>1, <4>2, <3>3, <3>7
        <5>2. x \in {p} \X (1 .. n) => p \in D
          BY <3>6
        <5> QED  BY <5>1, <5>2, <3>2, <3>5
      <4>3. CASE q # p
        BY <4>1, <4>3, <3>2, <3>3
      <4> QED  BY <4>2, <4>3
    <3>9. ASSUME NEW x \in Buffered PROVE x \in Buffered'
      <4>1. PICK q \in D : x \in {q} \X (1 .. count[q])
        BY <3>2
      <4>2. CASE q = p
        <5>1. x \in {p} \X (1 .. n + a)
          BY <4>1, <4>2, <3>5, <3>7
        <5> QED  BY <5>1, <3>1, <3>3
      <4>3. CASE q # p
        BY <4>1, <4>3, <3>1, <3>3
      <4> QED  BY <4>2, <4>3
    <3>10. new \subseteq Buffered'
      BY <3>1, <3>3, <3>7
    <3> QED  BY <3>8, <3>9, <3>10
  <2>2. Buffered \cap new = {}
    <3>1. ASSUME NEW x \in Buffered, x \in new PROVE FALSE
      <4>1. PICK q \in D : x \in {q} \X (1 .. count[q])
        BY <1>4 DEF Buffered
      <4>2. x[1] = q /\ x[2] \in 1 .. count[q] /\ x[1] = p /\ x[2] \in n + 1 .. n + a
        BY <4>1, <3>1
      <4>3. count[q] = n
        BY <4>1, <4>2, <1>4 DEF n
      <4> QED  BY <4>2, <4>3, <1>6
    <3> QED  BY <3>1
  <2>3. IsFiniteSet(Buffered)
    BY BufferedFinite
  <2>4. n <= n + a /\ n + a \in Nat /\ (n + a) - n = a
    BY <1>6
  <2>5. IsFiniteSet(new) /\ Cardinality(new) = a
    BY <2>4, <1>6, BytesOfPage
  <2> HIDE DEF new
  <2>6. Cardinality(Buffered') = Cardinality(Buffered) + a /\ Cardinality(Buffered) \in Nat
    BY <2>1, <2>2, <2>3, <2>5, CountUnion
  <2>7. unique = flushed + Cardinality(Buffered)
    BY <1>0 DEF UniqueBytesExact
  <2>8. unique' = flushed' + Cardinality(Buffered')
    BY <2>6, <2>7, <1>3, <1>4, <1>6
  <2> QED  BY <2>8 DEF UniqueBytesExact
<1>10. NeverFatal'
  BY <1>0, <1>3 DEF NeverFatal
<1> QED  BY <1>7, <1>8, <1>9, <1>10 DEF CoverageIInv

LEMMA FlushKeepsCoverage ==
  ASSUME CoverageIInv, NEW p, Flush(p)
  PROVE  CoverageIInv'
<1> DEFINE D == DOMAIN covered
<1>0. CoverageTypes /\ CoveredByWrites /\ UniqueBytesExact /\ NeverFatal
  BY DEF CoverageIInv
<1>1. /\ p \in D /\ flushed' = flushed + count[p] /\ unique' = unique /\ dead' = dead
      /\ covered' = [q \in D \ {p} |-> covered[q]]
      /\ count' = [q \in DOMAIN count \ {p} |-> count[q]]
      /\ wrote' = [q \in DOMAIN wrote \ {p} |-> wrote[q]]
  BY DEF Flush, Left, Without
<1>2. DOMAIN count = D /\ DOMAIN wrote = D /\ IsFiniteSet(D) /\ D \subseteq Nat
      /\ unique \in Nat /\ flushed \in Nat
  BY <1>0 DEF CoverageTypes
<1>3. count[p] \in Nat
  <2>1. p \in Nat /\ covered[p] \subseteq Byte /\ count[p] = Cardinality(covered[p])
    BY <1>0, <1>1, <1>2 DEF CoveredByWrites
  <2> QED  BY <2>1, WholePage
<1>4. CoverageTypes'
  <2>1. IsFiniteSet(D \ {p})
    BY <1>2, FS_Difference
  <2> QED  BY <2>1, <1>1, <1>2, <1>3 DEF CoverageTypes
<1>5. CoveredByWrites'
  <2> SUFFICES ASSUME NEW q \in D \ {p}
               PROVE  /\ covered'[q] \subseteq Byte /\ count'[q] = Cardinality(covered'[q])
                      /\ \A v \in wrote'[q] : v \in Writes /\ WritePage(v) = q
                      /\ covered'[q] = UNION {Bytes(v) : v \in wrote'[q]}
    <3>1. DOMAIN covered' = D \ {p}
      BY <1>1
    <3> QED  BY <3>1 DEF CoveredByWrites
  <2>1. /\ covered'[q] = covered[q] /\ count'[q] = count[q] /\ wrote'[q] = wrote[q]
    BY <1>1, <1>2
  <2> QED  BY <2>1, <1>0 DEF CoveredByWrites
<1>6. UniqueBytesExact'
  <2> DEFINE old == {p} \X (0 + 1 .. count[p])
  <2>1. Buffered = UNION {{q} \X (1 .. count[q]) : q \in D}
    BY <1>2 DEF Buffered
  <2>2. Buffered' = UNION {{q} \X (1 .. count[q]) : q \in D \ {p}}
    <3>1. Buffered' = UNION {{q} \X (1 .. count'[q]) : q \in D \ {p}}
      BY <1>1, <1>2 DEF Buffered
    <3>2. \A q \in D \ {p} : count'[q] = count[q]
      BY <1>1, <1>2
    <3>3. {{q} \X (1 .. count'[q]) : q \in D \ {p}} = {{q} \X (1 .. count[q]) : q \in D \ {p}}
      BY <3>2
    <3> QED  BY <3>1, <3>3
  <2>3. old = {p} \X (1 .. count[p])
    OBVIOUS
  <2>4. Buffered = Buffered' \cup old
    BY <2>1, <2>2, <2>3, <1>1
  <2>5. Buffered' \cap old = {}
    BY <2>2, <2>3
  <2>6. IsFiniteSet(Buffered)
    BY BufferedFinite
  <2>7. IsFiniteSet(old) /\ Cardinality(old) = count[p] - 0
    <3>1. 0 <= count[p] /\ 0 \in Nat
      BY <1>3
    <3> QED  BY <3>1, <1>3, BytesOfPage
  <2>8. IsFiniteSet(Buffered')
    BY <2>4, <2>6, FS_Subset
  <2> HIDE DEF old
  <2>9. Cardinality(Buffered) = Cardinality(Buffered') + Cardinality(old)
        /\ Cardinality(Buffered') \in Nat
    BY <2>4, <2>5, <2>7, <2>8, CountUnion
  <2>10. unique = flushed + Cardinality(Buffered)
    BY <1>0 DEF UniqueBytesExact
  <2>11. unique' = flushed' + Cardinality(Buffered')
    BY <2>7, <2>9, <2>10, <1>1, <1>2, <1>3
  <2> QED  BY <2>11 DEF UniqueBytesExact
<1>7. NeverFatal'
  BY <1>0, <1>1 DEF NeverFatal
<1> QED  BY <1>4, <1>5, <1>6, <1>7 DEF CoverageIInv

LEMMA CoverageStep == CoverageIInv /\ [CoverageNext]_coverageVars => CoverageIInv'
<1> SUFFICES ASSUME CoverageIInv, [CoverageNext]_coverageVars PROVE CoverageIInv'
  OBVIOUS
<1>1. ASSUME NEW w \in Writes, PushWrite(w) PROVE CoverageIInv'
  BY <1>1, PushKeepsCoverage
<1>2. ASSUME NEW p, Flush(p) PROVE CoverageIInv'
  BY <1>2, FlushKeepsCoverage
<1>3. CASE UNCHANGED coverageVars
  <2>1. /\ covered' = covered /\ count' = count /\ unique' = unique
        /\ flushed' = flushed /\ wrote' = wrote /\ dead' = dead
    BY <1>3 DEF coverageVars
  <2>2. Buffered' = Buffered
    BY <2>1 DEF Buffered
  <2>3. CoverageTypes' /\ CoveredByWrites'
    BY <2>1 DEF CoverageIInv, CoverageTypes, CoveredByWrites
  <2> QED  BY <2>1, <2>2, <2>3 DEF CoverageIInv, UniqueBytesExact, NeverFatal
<1> QED  BY <1>1, <1>2, <1>3 DEF CoverageNext

\* A page counts as complete exactly when its writes have named every byte of
\* it, the byte counters are exact, and no write of a sector ends the run
\* (hbf_controller.cc:270-350).
THEOREM Coverage == CoverageSpec => []CoverageExact
<1>1. CoverageIInv => CoverageExact
  BY CoverageFull DEF CoverageIInv, CoverageExact
<1> QED  BY CoverageInitially, CoverageStep, <1>1, PTL DEF CoverageSpec

-----------------------------------------------------------------------------
(***************************************************************************)
(* The trace format, for any number of lanes and any width of addresses    *)
(* and strides: remainders of sums.                                        *)
(***************************************************************************)
LEMMA DivModInt ==
  ASSUME NEW a \in Int, NEW n \in Nat \ {0}
  PROVE  a \div n \in Int /\ a % n \in 0 .. n - 1 /\ a = n * (a \div n) + (a % n)
  BY SMT

LEMMA RemainderUnique ==
  ASSUME NEW n \in Nat \ {0}, NEW q \in Int, NEW r \in 0 .. n - 1,
         NEW q2 \in Int, NEW r2 \in 0 .. n - 1, n * q + r = n * q2 + r2
  PROVE  r = r2
  BY SMT

\* The remainder of a number plus a multiple.
LEMMA RemainderShift ==
  ASSUME NEW n \in Nat \ {0}, NEW a \in Int, NEW q \in Int
  PROVE  (n * q + a) % n = a % n
<1> DEFINE s == n * q + a
<1>1. s \in Int
  OBVIOUS
<1>2. a \div n \in Int /\ a % n \in 0 .. n - 1 /\ a = n * (a \div n) + (a % n)
  BY DivModInt
<1> HIDE DEF s
<1>3. s \div n \in Int /\ s % n \in 0 .. n - 1 /\ s = n * (s \div n) + (s % n)
  BY <1>1, DivModInt
<1> DEFINE k == a \div n
           r == a % n
<1> HIDE DEF k, r
<1>4. n * (q + k) + r = n * (s \div n) + (s % n)
  <2>1. n * (q + k) = n * q + n * k
    BY <1>2 DEF k
  <2>2. s = n * q + (n * k + r)
    BY <1>2 DEF s, k, r
  <2> QED  BY <2>1, <2>2, <1>2, <1>3 DEF k, r
<1>5. q + k \in Int /\ r \in 0 .. n - 1
  BY <1>2 DEF k, r
<1>6. r = s % n
  BY <1>3, <1>4, <1>5, RemainderUnique
<1> QED  BY <1>6 DEF r, s

\* A remainder for a summand.
LEMMA RemainderOfSum ==
  ASSUME NEW n \in Nat \ {0}, NEW a \in Int, NEW b \in Int
  PROVE  ((a % n) + b) % n = (a + b) % n /\ (b + (a % n)) % n = (b + a) % n
<1> DEFINE k == a \div n
           r == a % n
<1>1. k \in Int /\ r \in Int /\ a = n * k + r
  BY DivModInt
<1> HIDE DEF k, r
<1>2. a + b = n * k + (r + b) /\ r + b \in Int
  BY <1>1
<1>3. (a + b) % n = (r + b) % n
  <2>1. (n * k + (r + b)) % n = (r + b) % n
    BY <1>1, <1>2, RemainderShift
  <2> QED  BY <2>1, <1>2
<1>4. b + r = r + b /\ b + a = a + b
  BY <1>1
<1> QED  BY <1>3, <1>4 DEF r

\* Numbers in range are their own remainders.
LEMMA RemainderOfSmall ==
  ASSUME NEW n \in Nat \ {0}, NEW a \in 0 .. n - 1
  PROVE  a % n = a
  BY SMT

\* A number and its signed reading have the same remainder.
LEMMA SignedRemainder ==
  ASSUME NEW n \in Nat \ {0}, NEW a \in Int, NEW b \in Int
  PROVE  Signed(a, n) \in Int /\ (b + Signed(a, n)) % n = (b + a) % n
<1> DEFINE r == a % n
<1>1. r \in 0 .. n - 1
  BY DivModInt
<1>2. (b + r) % n = (b + a) % n
  BY RemainderOfSum
<1> HIDE DEF r
<1>3. (b + (r - n)) % n = (b + r) % n
  <2>1. b + (r - n) = n * (-1) + (b + r) /\ b + r \in Int /\ -1 \in Int
    BY <1>1
  <2> QED  BY <2>1, RemainderShift
<1>4. Signed(a, n) = IF 2 * r >= n THEN r - n ELSE r
  BY DEF Signed, r
<1> QED  BY <1>1, <1>2, <1>3, <1>4

-----------------------------------------------------------------------------
\* The active lanes by their ranks.
LEMMA LanesInOrder ==
  ASSUME NEW mask \in SUBSET Lane
  PROVE  /\ IsFiniteSet(mask) /\ Cardinality(mask) \in Nat
         /\ Len(LaneSeq(mask)) = Cardinality(mask)
         /\ DOMAIN LaneSeq(mask) = 1 .. Cardinality(mask)
         /\ \A i \in 1 .. Cardinality(mask) : LaneSeq(mask)[i] \in mask
         /\ \A s \in mask : /\ Rank(mask, s) \in 1 .. Cardinality(mask)
                            /\ LaneSeq(mask)[Rank(mask, s)] = s
<1>1. Lanes \in Nat /\ mask \subseteq Int /\ IsFiniteSet(Lane)
  BY FormatAssumption, FS_Interval DEF Lane
<1>2. IsFiniteSet(mask)
  BY <1>1, FS_Subset
<1> DEFINE N == Cardinality(mask)
<1>3. /\ N \in Nat
      /\ \A i \in mask : Rank(mask, i) \in 1 .. N
      /\ \A i, k \in mask : Rank(mask, i) = Rank(mask, k) => i = k
      /\ \A m \in 1 .. N : \E i \in mask : Rank(mask, i) = m
  BY <1>1, <1>2, RankedSet DEF Rank
<1>4. LaneSeq(mask) = [i \in 1 .. N |-> CHOOSE s \in mask : Rank(mask, s) = i]
  BY DEF LaneSeq
<1> HIDE DEF N
<1>5. \A i \in 1 .. N : LaneSeq(mask)[i] \in mask
  BY <1>3, <1>4
<1>6. ASSUME NEW s \in mask PROVE LaneSeq(mask)[Rank(mask, s)] = s
  <2>1. Rank(mask, s) \in 1 .. N
    BY <1>3
  <2>2. LaneSeq(mask)[Rank(mask, s)] = CHOOSE t \in mask : Rank(mask, t) = Rank(mask, s)
    BY <2>1, <1>4
  <2>3. \A t \in mask : Rank(mask, t) = Rank(mask, s) => t = s
    BY <1>3
  <2> QED  BY <2>2, <2>3
<1>7. DOMAIN LaneSeq(mask) = 1 .. N
  BY <1>4
<1>8. Len(LaneSeq(mask)) = N
  <2>1. LaneSeq(mask) \in [1 .. N -> mask]
    BY <1>4, <1>5
  <2> QED  BY <2>1, <1>3, FunctionSeq
<1> QED  BY <1>2, <1>3, <1>5, <1>6, <1>7, <1>8 DEF N

\* The first active lane.
LEMMA FirstLane ==
  ASSUME NEW mask \in SUBSET Lane, mask # {}
  PROVE  /\ Min(mask) \in mask /\ \A s \in mask : Min(mask) <= s
         /\ Cardinality(mask) \in Nat \ {0} /\ LaneSeq(mask)[1] = Min(mask)
<1>1. Lanes \in Nat /\ mask \subseteq Nat
  BY FormatAssumption DEF Lane
<1>2. Min(mask) \in mask /\ \A s \in mask : Min(mask) <= s
  BY <1>1, LeastNat
<1>3. {t \in mask : t <= Min(mask)} = {Min(mask)}
  <2> DEFINE m == Min(mask)
  <2> HIDE DEF m
  <2>1. m \in mask /\ \A t \in mask : m <= t /\ t \in Nat
    BY <1>1, <1>2 DEF m
  <2>2. m <= m /\ \A t \in mask : t <= m => t = m
    BY <2>1
  <2>3. {t \in mask : t <= m} = {m}
    BY <2>1, <2>2
  <2> QED  BY <2>3 DEF m
<1>4. Rank(mask, Min(mask)) = 1
  BY <1>3, FS_Singleton DEF Rank
<1>5. LaneSeq(mask)[1] = Min(mask) /\ 1 \in 1 .. Cardinality(mask)
  BY <1>2, <1>4, LanesInOrder
<1>6. Cardinality(mask) \in Nat
  BY LanesInOrder
<1>7. Cardinality(mask) # 0
  BY <1>2, LanesInOrder, FS_EmptySet
<1> QED  BY <1>2, <1>5, <1>6, <1>7

-----------------------------------------------------------------------------
\* A sequence behind a number.
LEMMA BehindNumber ==
  ASSUME NEW a \in Int, NEW seq \in Seq(Int)
  PROVE  LET l == <<a>> \o seq
         IN /\ l \in Seq(Int) /\ Len(l) = 1 + Len(seq) /\ l[1] = a
            /\ Len(seq) \in Nat
            /\ \A k \in 1 .. Len(seq) : l[1 + k] = seq[k]
<1> DEFINE l == <<a>> \o seq
           n == Len(seq)
<1>1. n \in Nat /\ <<a>> \in Seq(Int) /\ Len(<<a>>) = 1 /\ <<a>>[1] = a
  BY LenProperties
<1>2. l \in Seq(Int) /\ Len(l) = 1 + n
      /\ \A i \in 1 .. 1 + n : l[i] = IF i <= 1 THEN <<a>>[i] ELSE seq[i - 1]
  BY <1>1, ConcatProperties
<1> HIDE DEF l, n
<1>3. l[1] = a
  <2>1. 1 \in 1 .. 1 + n /\ 1 <= 1
    BY <1>1
  <2> QED  BY <2>1, <1>1, <1>2
<1>4. ASSUME NEW k \in 1 .. n PROVE l[1 + k] = seq[k]
  <2>1. 1 + k \in 1 .. 1 + n /\ ~(1 + k <= 1) /\ (1 + k) - 1 = k
    BY <1>1
  <2> QED  BY <2>1, <1>2
<1> QED  BY <1>1, <1>2, <1>3, <1>4 DEF l, n

\* The numbers of a line, before its immediate.
LEMMA NumbersOfLine ==
  ASSUME NEW seq \in Seq(Int), NEW imm \in Int
  PROVE  LET l == seq \o <<imm>>
         IN /\ \A k \in 1 .. Len(seq) : Number(l, k) = seq[k] /\ l[k] = seq[k]
            /\ Number(l, Len(seq) + 1) = imm /\ Len(seq) \in Nat
<1> DEFINE l == Append(seq, imm)
           n == Len(seq)
<1>0. seq \o <<imm>> = l
  BY AppendIsConcat
<1>1. n \in Nat /\ l \in Seq(Int) /\ Len(l) = n + 1
      /\ (\A i \in 1 .. n : l[i] = seq[i]) /\ l[n + 1] = imm
  BY LenProperties, AppendProperties
<1> HIDE DEF l, n
<1>2. DOMAIN l = 1 .. n + 1
  BY <1>1, LenProperties
<1>3. \A k \in 1 .. n : k \in 1 .. n + 1
  BY <1>1
<1>4. n + 1 \in 1 .. n + 1
  BY <1>1
<1>5. \A k \in 1 .. n : Number(l, k) = seq[k] /\ l[k] = seq[k]
  BY <1>1, <1>2, <1>3 DEF Number
<1>6. Number(l, n + 1) = imm
  BY <1>1, <1>2, <1>4 DEF Number
<1> QED  BY <1>0, <1>1, <1>5, <1>6 DEF n

-----------------------------------------------------------------------------
(***************************************************************************)
(* Each format is read as it is written.                                   *)
(***************************************************************************)
\* What the simulator should see of an instruction.
Restored(i) == [s \in Lane |-> IF i.isMem /\ s \in i.mask THEN i.addrs[s] ELSE 0]

LEMMA ExecutedFields ==
  ASSUME NEW i \in Executed
  PROVE  /\ i.isMem \in BOOLEAN /\ i.mask \in SUBSET Lane /\ i.imm \in Int
         /\ \A s \in Lane : i.addrs[s] \in 0 .. AddrRange - 1 /\ i.addrs[s] \in Int
         /\ AddrRange \in Nat \ {0} /\ StrideRange \in Nat \ {0} /\ Lane \subseteq Nat
<1>1. i.isMem \in BOOLEAN /\ i.mask \in SUBSET Lane /\ i.imm \in Immediate
      /\ i.addrs \in [Lane -> LaneAddress]
  BY DEF Executed
<1>2. /\ AddrRange \in Nat \ {0} /\ StrideRange \in Nat \ {0} /\ Lanes \in Nat \ {0}
      /\ LaneAddress \subseteq 0 .. (AddrRange - 1) /\ Immediate \subseteq 0 .. 99
  BY FormatAssumption
<1>3. Lane \subseteq Nat
  BY <1>2 DEF Lane
<1>4. ASSUME NEW s \in Lane PROVE i.addrs[s] \in 0 .. AddrRange - 1 /\ i.addrs[s] \in Int
  <2>1. i.addrs[s] \in LaneAddress
    BY <1>1
  <2>2. 0 .. AddrRange - 1 \subseteq Int
    BY <1>2
  <2> QED  BY <2>1, <2>2, <1>2
<1>5. i.imm \in Int
  <2>1. 0 .. 99 \subseteq Int
    OBVIOUS
  <2> QED  BY <2>1, <1>1, <1>2
<1> QED  BY <1>1, <1>2, <1>3, <1>4, <1>5

\* The parser chooses the format by the first two numbers.
LEMMA ParseByFormat ==
  ASSUME NEW l, NEW mask
  PROVE  /\ l[1] = 0 => Parse(l, mask) = [addrs |-> None, imm |-> Number(l, 2)]
         /\ l[1] = Width /\ l[2] = ListAll => Parse(l, mask) = ParseList(l, mask)
         /\ l[1] = Width /\ l[2] = BaseStride => Parse(l, mask) = ParseStride(l, mask)
         /\ l[1] = Width /\ l[2] = BaseDelta => Parse(l, mask) = ParseDelta(l, mask)
  BY DEF Parse, Width, ListAll, BaseStride, BaseDelta

LEMMA NoAddressRead ==
  ASSUME NEW i \in Executed, ~i.isMem, NEW c
  PROVE  /\ Parse(TraceLine(i, c), i.mask).addrs = Restored(i)
         /\ Parse(TraceLine(i, c), i.mask).imm = i.imm
<1> DEFINE l == <<0>> \o <<i.imm>>
<1>1. TraceLine(i, c) = l
  BY DEF TraceLine
<1>2. /\ <<0>> \in Seq(Int) /\ Len(<<0>>) = 1 /\ <<0>>[1] = 0 /\ i.imm \in Int
  BY ExecutedFields
<1>3. l[1] = 0 /\ Number(l, 2) = i.imm
  <2>1. 1 \in 1 .. 1 /\ 1 + 1 = 2
    OBVIOUS
  <2> QED  BY <1>2, <2>1, NumbersOfLine, ZenonT(60)
<1> HIDE DEF l
<1>4. Parse(l, i.mask) = [addrs |-> None, imm |-> Number(l, 2)]
  BY <1>3, ParseByFormat
<1>5. None = Restored(i)
  BY DEF None, Restored
<1> QED  BY <1>1, <1>3, <1>4, <1>5

\* A line with addresses: the width, the numbers of the format, the immediate.
LineWith(i, seq) == (<<Width>> \o seq) \o <<i.imm>>

LEMMA LineOfAddresses ==
  ASSUME NEW i \in Executed, NEW seq \in Seq(Int)
  PROVE  LET l == LineWith(i, seq)
         IN /\ l[1] = Width /\ Len(seq) \in Nat
            /\ \A k \in 1 .. Len(seq) : Number(l, 1 + k) = seq[k] /\ l[1 + k] = seq[k]
<1> DEFINE s == <<Width>> \o seq
           l == s \o <<i.imm>>
           n == Len(seq)
<1>1. LineWith(i, seq) = l
  BY DEF LineWith
<1>2. /\ s \in Seq(Int) /\ Len(s) = 1 + n /\ s[1] = Width
      /\ n \in Nat /\ \A k \in 1 .. n : s[1 + k] = seq[k]
  BY BehindNumber, 4 \in Int DEF Width
<1> HIDE DEF s
<1>3. \A k \in 1 .. Len(s) : Number(l, k) = s[k] /\ l[k] = s[k]
  BY <1>2, ExecutedFields, NumbersOfLine
<1> HIDE DEF l, n
<1>4. 1 \in 1 .. 1 + n /\ \A k \in 1 .. n : 1 + k \in 1 .. 1 + n
  BY <1>2
<1> QED  BY <1>1, <1>2, <1>3, <1>4 DEF n

LEMMA ListRead ==
  ASSUME NEW i \in Executed, i.isMem, NEW c, ~c
  PROVE  Parse(TraceLine(i, c), i.mask).addrs = Restored(i)
<1> DEFINE l == TraceLine(i, c)
           N == Cardinality(i.mask)
           lane == LaneSeq(i.mask)
           given == [k \in DOMAIN lane |-> i.addrs[lane[k]]]
           seq == <<ListAll>> \o given
<1>1. i.mask \in SUBSET Lane /\ \A s \in Lane : i.addrs[s] \in Int
  BY ExecutedFields
<1>2. /\ N \in Nat /\ DOMAIN lane = 1 .. N /\ \A k \in 1 .. N : lane[k] \in i.mask
      /\ \A s \in i.mask : Rank(i.mask, s) \in 1 .. N /\ lane[Rank(i.mask, s)] = s
  BY <1>1, LanesInOrder
<1> HIDE DEF lane, N
<1>3. given \in [1 .. N -> Int]
  BY <1>1, <1>2
<1>4. given \in Seq(Int) /\ Len(given) = N
  <2> HIDE DEF given
  <2> QED  BY <1>2, <1>3, FunctionSeq
<1>5. \A k \in 1 .. N : given[k] = i.addrs[lane[k]]
  BY <1>2
<1> HIDE DEF given
<1>6. /\ seq \in Seq(Int) /\ Len(seq) = 1 + N /\ seq[1] = ListAll
      /\ \A k \in 1 .. N : seq[1 + k] = given[k]
  BY <1>4, BehindNumber, 0 \in Int DEF ListAll
<1>7. Addresses(i, c) = seq
  BY DEF Addresses, given, lane
<1> HIDE DEF seq
<1>8. l[1] = Width /\ \A k \in 1 .. 1 + N : Number(l, 1 + k) = seq[k] /\ l[1 + k] = seq[k]
  <2>1. l = LineWith(i, seq)
    BY <1>7 DEF TraceLine, LineWith
  <2> QED  BY <2>1, <1>6, LineOfAddresses
<1> HIDE DEF l
<1>9. l[2] = ListAll
  <2>1. 1 \in 1 .. 1 + N /\ 1 + 1 = 2
    BY <1>2
  <2>2. l[1 + 1] = seq[1]
    BY <2>1, <1>8
  <2> QED  BY <2>1, <2>2, <1>6
<1>10. ASSUME NEW s \in i.mask PROVE Number(l, 2 + Rank(i.mask, s)) = i.addrs[s]
  <2> DEFINE k == Rank(i.mask, s)
  <2>1. k \in 1 .. N /\ lane[k] = s
    BY <1>2
  <2> HIDE DEF k
  <2>2. 1 + k \in 1 .. 1 + N /\ 1 + (1 + k) = 2 + k
    BY <2>1, <1>2
  <2>3. Number(l, 2 + k) = seq[1 + k]
    <3>1. Number(l, 1 + (1 + k)) = seq[1 + k]
      BY <2>2, <1>8
    <3> QED  BY <3>1, <2>2
  <2>4. seq[1 + k] = i.addrs[s]
    BY <2>1, <1>5, <1>6
  <2> QED  BY <2>3, <2>4 DEF k
<1>11. Parse(l, i.mask) = ParseList(l, i.mask)
  BY <1>8, <1>9, ParseByFormat
<1>12. ParseList(l, i.mask).addrs
         = [s \in Lane |-> IF s \in i.mask THEN Number(l, 2 + Rank(i.mask, s)) ELSE 0]
  BY DEF ParseList
<1> QED  BY <1>10, <1>11, <1>12 DEF Restored, l

\* Behind the first lane, every lane is a stride further.
LEMMA StrideAddsUp ==
  ASSUME NEW i \in Executed, i.mask # {}, HasStride(i.addrs, i.mask),
         NEW s \in i.mask
  PROVE  LET first == Min(i.mask)
         IN Unsigned(i.addrs[first] + (s - first) * Stride(i.addrs, i.mask)) = i.addrs[s]
<1> DEFINE first == Min(i.mask)
           S == Stride(i.addrs, i.mask)
           R == AddrRange
           at(k) == i.addrs[first + k]
           Bad == {k \in Nat : first + k \in i.mask /\ (at(0) + k * S) % R # at(k)}
<1>1. /\ i.mask \subseteq Lane /\ Lane \subseteq Nat /\ R \in Nat \ {0}
      /\ \A t \in Lane : i.addrs[t] \in 0 .. R - 1 /\ i.addrs[t] \in Int
  BY ExecutedFields
<1>2. first \in i.mask /\ (\A t \in i.mask : first <= t) /\ first \in Nat
  BY <1>1, ExecutedFields, FirstLane
<1>3. /\ first + 1 \in i.mask /\ \A t \in i.mask : first .. t \subseteq i.mask
      /\ \A t \in i.mask \ {first} : Unsigned(S) = Unsigned(i.addrs[t] - i.addrs[t - 1])
  BY DEF HasStride
<1>4. S \in Int
  <2>1. i.addrs[first + 1] - i.addrs[first] \in Int /\ StrideRange \in Nat \ {0}
    BY <1>1, <1>2, <1>3, ExecutedFields
  <2> DEFINE d == i.addrs[first + 1] - i.addrs[first]
  <2>2. S = Signed(d, StrideRange)
    BY DEF Stride
  <2> HIDE DEF d, S
  <2>3. Signed(d, StrideRange) \in Int
    BY <2>1, SignedRemainder, 0 \in Int DEF d
  <2> QED  BY <2>2, <2>3
<1> HIDE DEF S, first, R
<1>5. \A k \in Nat : first + k \in i.mask => at(k) \in 0 .. R - 1 /\ at(k) \in Int
  BY <1>1
<1>6. at(0) \in 0 .. R - 1 /\ at(0) \in Int /\ at(0) = i.addrs[first]
  <2>1. first + 0 = first
    BY <1>2
  <2> QED  BY <2>1, <1>1, <1>2
<1>7. ASSUME NEW k \in Nat, first + (k + 1) \in i.mask
      PROVE  first + k \in i.mask /\ S % R = (at(k + 1) - at(k)) % R
  <2> DEFINE t == first + (k + 1)
  <2>1. t \in i.mask \ {first} /\ first + k \in first .. t /\ t - 1 = first + k
    BY <1>2, <1>7
  <2>2. Unsigned(S) = Unsigned(i.addrs[t] - i.addrs[t - 1])
    BY <2>1, <1>3
  <2>3. first + k \in i.mask
    BY <2>1, <1>3
  <2> QED  BY <2>1, <2>2, <2>3 DEF Unsigned, R
<1>8. Bad = {}
  <2> SUFFICES ASSUME Bad # {} PROVE FALSE
    OBVIOUS
  <2>1. Bad \subseteq Nat
    OBVIOUS
  <2>2. PICK k \in Bad : \A j \in Bad : k <= j
    <3> HIDE DEF Bad
    <3> QED  BY <2>1, LeastElement
  <2>3. k \in Nat /\ first + k \in i.mask /\ (at(0) + k * S) % R # at(k)
    OBVIOUS
  <2>4. CASE k = 0
    <3>1. at(0) + k * S = at(0)
      BY <2>4, <1>4, <1>6
    <3>2. at(0) % R = at(0)
      BY <1>1, <1>6, RemainderOfSmall
    <3> QED  BY <3>1, <3>2, <2>3, <2>4
  <2>5. CASE k # 0
    <3> DEFINE j == k - 1
    <3>1. j \in Nat /\ k = j + 1 /\ j < k
      BY <2>3, <2>5
    <3> HIDE DEF j
    <3>2. first + j \in i.mask /\ S % R = (at(k) - at(j)) % R
      BY <3>1, <2>3, <1>7
    <3>3. j \notin Bad
      <4> HIDE DEF Bad
      <4> QED  BY <3>1, <2>2, <2>3
    <3>4. (at(0) + j * S) % R = at(j)
      BY <3>1, <3>2, <3>3
    <3> DEFINE x == at(0) + j * S
               d == at(k) - at(j)
               a == at(j)
               b == at(k)
    <3>5. b \in 0 .. R - 1 /\ b \in Int /\ a \in Int /\ d \in Int /\ d = b - a
      BY <1>5, <2>3, <3>1, <3>2
    <3>6. j * S \in Int
      BY <3>1, <1>4
    <3>7. x \in Int
      BY <3>6, <1>6
    <3>8. at(0) + k * S = x + S
      <4>1. k * S = j * S + S
        BY <3>1, <1>4
      <4> QED  BY <4>1, <3>6, <1>4, <1>6
    <3>9. x % R = a
      BY <3>4
    <3>10. S % R = d % R
      BY <3>2
    <3> HIDE DEF x, d, a, b
    <3>11. (x + S) % R = (a + S) % R
      BY <3>7, <3>9, <1>1, <1>4, RemainderOfSum
    <3>12. (a + S) % R = (a + (S % R)) % R
      BY <3>5, <1>1, <1>4, RemainderOfSum
    <3>13. (a + (d % R)) % R = (a + d) % R
      BY <3>5, <1>1, RemainderOfSum
    <3>14. a + d = b
      BY <3>5
    <3>15. b % R = b
      BY <3>5, <1>1, RemainderOfSmall
    <3>16. (at(0) + k * S) % R = b
      BY <3>8, <3>10, <3>11, <3>12, <3>13, <3>14, <3>15
    <3> QED  BY <3>16, <2>3 DEF b
  <2> QED  BY <2>4, <2>5
<1>9. s - first \in Nat /\ first + (s - first) = s
  <2>1. s \in Nat /\ first \in Nat /\ first <= s
    BY <1>1, <1>2
  <2> QED  BY <2>1
<1>10. (at(0) + (s - first) * S) % R = i.addrs[s]
  <2>1. s - first \notin Bad
    BY <1>8
  <2> QED  BY <2>1, <1>9
<1> QED  BY <1>6, <1>10 DEF first, S, R, Unsigned

LEMMA StrideRead ==
  ASSUME NEW i \in Executed, i.isMem, NEW c, c, HasStride(i.addrs, i.mask)
  PROVE  Parse(TraceLine(i, c), i.mask).addrs = Restored(i)
<1> DEFINE l == TraceLine(i, c)
           first == Min(i.mask)
           S == Stride(i.addrs, i.mask)
           a == IF i.mask = {} THEN 0 ELSE i.addrs[first]
           b == IF i.mask = {} THEN 0 ELSE S
           seq == <<BaseStride>> \o <<a, b>>
<1>1. /\ i.mask \in SUBSET Lane /\ i.mask \subseteq Lane /\ Lane \subseteq Nat
      /\ \A t \in Lane : i.addrs[t] \in Int
  BY ExecutedFields
<1>2. i.mask # {} => first \in i.mask /\ (\A t \in i.mask : first <= t)
  BY <1>1, FirstLane
<1>3. i.mask # {} => S \in Int
  <2> SUFFICES ASSUME i.mask # {} PROVE S \in Int
    OBVIOUS
  <2> DEFINE d == i.addrs[first + 1] - i.addrs[first]
  <2>1. first + 1 \in Lane /\ first \in Lane
    BY <1>1, <1>2 DEF HasStride
  <2>2. d \in Int /\ StrideRange \in Nat \ {0}
    <3> HIDE DEF first
    <3>1. i.addrs[first + 1] \in Int /\ i.addrs[first] \in Int
      BY <2>1, <1>1
    <3> QED  BY <3>1, ExecutedFields
  <2>3. S = Signed(d, StrideRange)
    BY DEF Stride
  <2> HIDE DEF d, S
  <2> QED  BY <2>2, <2>3, SignedRemainder, 0 \in Int
<1>4. a \in Int /\ b \in Int
  <2>1. CASE i.mask = {}
    BY <2>1
  <2>2. CASE i.mask # {}
    <3>1. a = i.addrs[first] /\ b = S
      BY <2>2
    <3> HIDE DEF a, b, S, first
    <3>2. first \in Lane
      BY <2>2, <1>1, <1>2
    <3> QED  BY <2>2, <3>1, <3>2, <1>1, <1>3
  <2> QED  BY <2>1, <2>2
<1>6. Addresses(i, c) = seq
  <2>1. CASE i.mask = {}
    <3>1. a = 0 /\ b = 0
      BY <2>1
    <3> HIDE DEF a, b
    <3> QED  BY <2>1, <3>1 DEF Addresses
  <2>2. CASE i.mask # {}
    <3>1. a = i.addrs[first] /\ b = S
      BY <2>2
    <3> HIDE DEF a, b
    <3> QED  BY <2>2, <3>1 DEF Addresses
  <2> QED  BY <2>1, <2>2
<1> DEFINE a2 == a
           b2 == b
<1>5. seq \in Seq(Int) /\ Len(seq) = 3 /\ seq[1] = BaseStride /\ seq[2] = a2 /\ seq[3] = b2
  <2> HIDE DEF a, b
  <2>1. <<a, b>> \in Seq(Int) /\ Len(<<a, b>>) = 2 /\ <<a, b>>[1] = a /\ <<a, b>>[2] = b
    BY <1>4
  <2>2. /\ seq \in Seq(Int) /\ Len(seq) = 1 + 2 /\ seq[1] = BaseStride
        /\ \A k \in 1 .. 2 : seq[1 + k] = <<a, b>>[k]
    BY <2>1, BehindNumber, 1 \in Int DEF BaseStride
  <2>3. 1 \in 1 .. 2 /\ 2 \in 1 .. 2 /\ 1 + 1 = 2 /\ 1 + 2 = 3
    OBVIOUS
  <2> HIDE DEF seq
  <2>4. seq[1 + 1] = a /\ seq[1 + 2] = b
    BY <2>1, <2>2, <2>3
  <2> QED  BY <2>2, <2>3, <2>4
<1> HIDE DEF seq, l, a2, b2
<1>7. /\ l[1] = Width
      /\ \A k \in 1 .. 3 : Number(l, 1 + k) = seq[k] /\ l[1 + k] = seq[k]
  <2>1. l = LineWith(i, seq)
    BY <1>6 DEF TraceLine, LineWith, l
  <2> HIDE DEF a, b
  <2> QED  BY <2>1, <1>5, LineOfAddresses, ZenonT(60)
<1>8. l[2] = BaseStride /\ Number(l, 3) = a /\ Number(l, 4) = b
  <2> HIDE DEF a, b
  <2>1. 1 \in 1 .. 3 /\ 2 \in 1 .. 3 /\ 3 \in 1 .. 3 /\ 1 + 1 = 2 /\ 1 + 2 = 3 /\ 1 + 3 = 4
    OBVIOUS
  <2>2. l[1 + 1] = seq[1] /\ Number(l, 1 + 2) = seq[2] /\ Number(l, 1 + 3) = seq[3]
    BY <2>1, <1>7
  <2> QED  BY <2>1, <2>2, <1>5 DEF a2, b2
<1>9. Parse(l, i.mask) = ParseStride(l, i.mask)
  BY <1>7, <1>8, ParseByFormat
<1>10. ParseStride(l, i.mask).addrs
         = [s \in Lane |->
              IF i.mask # {} /\ s >= first /\ first .. s \subseteq i.mask
                THEN Unsigned(Number(l, 3) + (s - first) * Number(l, 4)) ELSE 0]
  BY DEF ParseStride
<1>11. ASSUME NEW s \in Lane
       PROVE  (IF i.mask # {} /\ s >= first /\ first .. s \subseteq i.mask
                 THEN Unsigned(Number(l, 3) + (s - first) * Number(l, 4)) ELSE 0)
                = IF s \in i.mask THEN i.addrs[s] ELSE 0
  <2>1. CASE s \in i.mask
    <3>1. i.mask # {} /\ first <= s /\ first \in Nat /\ s \in Nat
      BY <2>1, <1>1, <1>2
    <3>2. first .. s \subseteq i.mask
      BY <2>1, <3>1 DEF HasStride
    <3>3. Unsigned(i.addrs[first] + (s - first) * S) = i.addrs[s]
      BY <2>1, <3>1, StrideAddsUp
    <3>4. Number(l, 3) = i.addrs[first] /\ Number(l, 4) = S
      BY <3>1, <1>8
    <3>5. s >= first
      BY <3>1
    <3> QED  BY <2>1, <3>1, <3>2, <3>3, <3>4, <3>5
  <2>2. CASE s \notin i.mask
    <3>1. ASSUME i.mask # {}, s >= first PROVE s \in first .. s
      BY <3>1, <1>1, <1>2
    <3> QED  BY <2>2, <3>1
  <2> QED  BY <2>1, <2>2
<1> QED  BY <1>9, <1>10, <1>11 DEF Restored, l

\* Two functions over an interval that begin with the same number and go on
\* by the same steps are one.
Sums(f, n, a, d, r) ==
  f = [k \in 1 .. n |-> IF k = 1 THEN a ELSE (f[k - 1] + d[k]) % r]

LEMMA SameSums ==
  ASSUME NEW n \in Nat, NEW a, NEW d, NEW r, NEW f, NEW g,
         Sums(f, n, a, d, r), Sums(g, n, a, d, r)
  PROVE  f = g
<1> DEFINE Bad == {k \in 1 .. n : f[k] # g[k]}
<1>0. \A k \in 1 .. n : /\ f[k] = IF k = 1 THEN a ELSE (f[k - 1] + d[k]) % r
                        /\ g[k] = IF k = 1 THEN a ELSE (g[k - 1] + d[k]) % r
  <2>1. \A k \in 1 .. n : f[k] = IF k = 1 THEN a ELSE (f[k - 1] + d[k]) % r
    BY DEF Sums
  <2>2. \A k \in 1 .. n : g[k] = IF k = 1 THEN a ELSE (g[k - 1] + d[k]) % r
    BY DEF Sums
  <2> QED  BY <2>1, <2>2
<1>1. Bad = {}
  <2> SUFFICES ASSUME Bad # {} PROVE FALSE
    OBVIOUS
  <2>1. Bad \subseteq Nat
    OBVIOUS
  <2>2. PICK k \in Bad : \A j \in Bad : k <= j
    <3> HIDE DEF Bad
    <3> QED  BY <2>1, LeastElement
  <2>3. k \in 1 .. n /\ f[k] # g[k]
    OBVIOUS
  <2>4. k # 1
    BY <2>3, <1>0
  <2>5. k - 1 \in 1 .. n /\ k - 1 < k
    BY <2>3, <2>4
  <2>6. f[k - 1] = g[k - 1]
    BY <2>2, <2>3, <2>5
  <2> QED  BY <2>3, <2>6, <1>0
<1>2. \A k \in 1 .. n : f[k] = g[k]
  BY <1>1
<1>3. DOMAIN f = 1 .. n /\ DOMAIN g = 1 .. n
      /\ f = [k \in 1 .. n |-> f[k]] /\ g = [k \in 1 .. n |-> g[k]]
  BY DEF Sums
<1> QED  BY <1>2, <1>3

LEMMA DeltaRead ==
  ASSUME NEW i \in Executed, i.isMem, NEW c, c, ~HasStride(i.addrs, i.mask)
  PROVE  Parse(TraceLine(i, c), i.mask).addrs = Restored(i)
<1> DEFINE l == TraceLine(i, c)
           N == Cardinality(i.mask)
           lane == LaneSeq(i.mask)
           deltas == Deltas(i.addrs, i.mask)
           base == i.addrs[Min(i.mask)]
           seq == <<BaseDelta, base>> \o deltas
           R == AddrRange
           A(k) == i.addrs[lane[k]]
<1>0. i.mask # {}
  BY DEF HasStride
<1>1. /\ i.mask \in SUBSET Lane /\ R \in Nat \ {0}
      /\ \A s \in Lane : i.addrs[s] \in 0 .. R - 1 /\ i.addrs[s] \in Int
  BY ExecutedFields
<1>2. /\ N \in Nat /\ Len(lane) = N /\ \A k \in 1 .. N : lane[k] \in Lane
      /\ \A s \in i.mask : Rank(i.mask, s) \in 1 .. N /\ lane[Rank(i.mask, s)] = s
  BY <1>1, LanesInOrder
<1>3. N \in Nat \ {0} /\ lane[1] = Min(i.mask)
  BY <1>0, <1>1, FirstLane
<1>4. deltas = [k \in 1 .. (N - 1) |-> Signed(A(k + 1) - A(k), R)]
  BY <1>2 DEF Deltas
<1> HIDE DEF lane, N, R
<1>5. \A k \in 1 .. N : A(k) \in 0 .. R - 1 /\ A(k) \in Int
  BY <1>1, <1>2
<1>6. base = A(1) /\ base \in 0 .. R - 1 /\ base \in Int
  <2>1. 1 \in 1 .. N
    BY <1>3
  <2> QED  BY <2>1, <1>3, <1>5
<1> HIDE DEF deltas, base
<1>7. \A k \in 1 .. (N - 1) :
        deltas[k] = Signed(A(k + 1) - A(k), R) /\ deltas[k] \in Int
  <2> SUFFICES ASSUME NEW k \in 1 .. (N - 1)
               PROVE  deltas[k] = Signed(A(k + 1) - A(k), R) /\ deltas[k] \in Int
    OBVIOUS
  <2>1. k \in 1 .. N /\ k + 1 \in 1 .. N
    BY <1>2
  <2> DEFINE d == A(k + 1) - A(k)
  <2>2. d \in Int
    BY <2>1, <1>5
  <2>3. deltas[k] = Signed(d, R)
    BY <1>4
  <2> HIDE DEF d
  <2>4. Signed(d, R) \in Int
    BY <2>2, <1>1, SignedRemainder, 0 \in Int
  <2> QED  BY <2>3, <2>4 DEF d
<1>8. deltas \in Seq(Int) /\ Len(deltas) = N - 1
  <2>1. N - 1 \in Nat
    BY <1>3
  <2>2. DOMAIN deltas = 1 .. (N - 1) /\ deltas = [k \in 1 .. (N - 1) |-> deltas[k]]
    BY <1>4
  <2>3. deltas \in [1 .. (N - 1) -> Int]
    BY <2>2, <1>7
  <2> QED  BY <2>1, <2>3, FunctionSeq
<1>9. /\ seq \in Seq(Int) /\ Len(seq) = N + 1 /\ seq[1] = BaseDelta /\ seq[2] = base
      /\ \A k \in 1 .. (N - 1) : seq[2 + k] = deltas[k]
  <2> DEFINE h == <<BaseDelta, base>>
  <2>1. h \in Seq(Int) /\ Len(h) = 2 /\ h[1] = BaseDelta /\ h[2] = base
    BY <1>6 DEF BaseDelta
  <2>2. seq = h \o deltas
    OBVIOUS
  <2> HIDE DEF h, seq
  <2>0. /\ seq \in Seq(Int) /\ Len(seq) = Len(h) + Len(deltas)
        /\ \A k \in 1 .. Len(h) + Len(deltas) :
             seq[k] = IF k <= Len(h) THEN h[k] ELSE deltas[k - Len(h)]
    <3>1. h \in Seq(Int) /\ deltas \in Seq(Int)
      BY <2>1, <1>8
    <3> QED  BY <2>2, <3>1, ConcatProperties
  <2>4. 2 + (N - 1) = N + 1 /\ 1 \in 1 .. N + 1 /\ 2 \in 1 .. N + 1
    BY <1>3
  <2>3. /\ Len(seq) = N + 1
        /\ \A k \in 1 .. N + 1 : seq[k] = IF k <= 2 THEN h[k] ELSE deltas[k - 2]
    <3>1. Len(h) + Len(deltas) = N + 1
      BY <2>1, <2>4, <1>8
    <3> QED  BY <2>1, <2>0, <3>1
  <2>5. ASSUME NEW k \in 1 .. (N - 1) PROVE seq[2 + k] = deltas[k]
    <3>1. 2 + k \in 1 .. N + 1 /\ ~(2 + k <= 2) /\ (2 + k) - 2 = k
      BY <1>2
    <3> QED  BY <3>1, <2>3, <2>4
  <2> QED  BY <2>1, <2>0, <2>3, <2>4, <2>5
<1>10. Addresses(i, c) = seq
  BY DEF Addresses, deltas, base
<1> HIDE DEF seq
<1>11. /\ l[1] = Width
       /\ \A k \in 1 .. N + 1 : Number(l, 1 + k) = seq[k] /\ l[1 + k] = seq[k]
  <2>1. l = LineWith(i, seq)
    BY <1>10 DEF TraceLine, LineWith
  <2> HIDE DEF l
  <2> QED  BY <2>1, <1>9, LineOfAddresses
<1> HIDE DEF l
<1>12. l[2] = BaseDelta /\ Number(l, 3) = base
  <2>1. 1 \in 1 .. N + 1 /\ 2 \in 1 .. N + 1 /\ 1 + 1 = 2 /\ 1 + 2 = 3
    BY <1>3
  <2>2. l[1 + 1] = seq[1] /\ Number(l, 1 + 2) = seq[2]
    BY <2>1, <1>11
  <2> QED  BY <2>1, <2>2, <1>9
<1>13. ASSUME NEW k \in 1 .. N, k # 1
       PROVE  Number(l, 2 + k) = Signed(A(k) - A(k - 1), R)
  <2> DEFINE j == k - 1
  <2>1. j \in 1 .. (N - 1) /\ k = j + 1
    BY <1>2, <1>13
  <2> HIDE DEF j
  <2>2. 2 + j \in 1 .. N + 1 /\ 1 + (2 + j) = 2 + k
    BY <2>1, <1>2
  <2>3. Number(l, 1 + (2 + j)) = seq[2 + j]
    BY <2>2, <1>11
  <2>4. seq[2 + j] = Signed(A(j + 1) - A(j), R)
    BY <2>1, <1>7, <1>9
  <2> QED  BY <2>1, <2>2, <2>3, <2>4 DEF j
<1> DEFINE d == [k \in 1 .. N |-> Number(l, 2 + k)]
           g == [k \in 1 .. N |-> A(k)]
           f == CHOOSE h : h = [k \in 1 .. N |->
                  IF k = 1 THEN Unsigned(Number(l, 3))
                  ELSE Unsigned(h[k - 1] + Number(l, 2 + k))]
<1>14. g = [k \in 1 .. N |-> IF k = 1 THEN Unsigned(Number(l, 3))
                             ELSE Unsigned(g[k - 1] + Number(l, 2 + k))]
  <2> SUFFICES ASSUME NEW k \in 1 .. N
               PROVE  g[k] = IF k = 1 THEN Unsigned(Number(l, 3))
                             ELSE Unsigned(g[k - 1] + Number(l, 2 + k))
    OBVIOUS
  <2>1. CASE k = 1
    <3>1. base % R = base
      BY <1>1, <1>6, RemainderOfSmall
    <3> QED  BY <2>1, <3>1, <1>6, <1>12 DEF Unsigned, R
  <2>2. CASE k # 1
    <3>1. k - 1 \in 1 .. N
      BY <2>2, <1>2
    <3> DEFINE a == A(k - 1)
               b == A(k)
               e == b - a
    <3>2. g[k] = b /\ g[k - 1] = a
      BY <3>1
    <3>3. a \in Int /\ b \in Int /\ b \in 0 .. R - 1 /\ e \in Int /\ a + e = b
      BY <3>1, <1>5
    <3>4. Number(l, 2 + k) = Signed(e, R)
      BY <2>2, <1>13
    <3> HIDE DEF a, b, e, g
    <3>5. (a + Signed(e, R)) % R = (a + e) % R
      BY <3>3, <1>1, SignedRemainder
    <3>6. b % R = b
      BY <3>3, <1>1, RemainderOfSmall
    <3> QED  BY <2>2, <3>2, <3>3, <3>4, <3>5, <3>6 DEF Unsigned, R
  <2> QED  BY <2>1, <2>2
<1> HIDE DEF g, A
<1>15. f = [k \in 1 .. N |-> IF k = 1 THEN Unsigned(Number(l, 3))
                             ELSE Unsigned(f[k - 1] + Number(l, 2 + k))]
  BY <1>14
<1> HIDE DEF f
<1>16. f = g
  <2> DEFINE a == Unsigned(Number(l, 3))
  <2>1. \A k \in 1 .. N : d[k] = Number(l, 2 + k)
    OBVIOUS
  <2> HIDE DEF a, d
  <2>2. Sums(f, N, a, d, R)
    BY <2>1, <1>15 DEF Unsigned, R, a, Sums
  <2>3. Sums(g, N, a, d, R)
    BY <2>1, <1>14 DEF Unsigned, R, a, Sums
  <2>4. N \in Nat
    BY <1>2
  <2> QED  BY <2>2, <2>3, <2>4, SameSums
<1>17. Parse(l, i.mask) = ParseDelta(l, i.mask)
  BY <1>11, <1>12, ParseByFormat
<1>18. ParseDelta(l, i.mask).addrs
         = [s \in Lane |-> IF s \in i.mask THEN f[Rank(i.mask, s)] ELSE 0]
  BY DEF ParseDelta, f, N
<1>19. ASSUME NEW s \in i.mask PROVE f[Rank(i.mask, s)] = i.addrs[s]
  BY <1>2, <1>16 DEF g, A
<1> QED  BY <1>17, <1>18, <1>19 DEF Restored, l

-----------------------------------------------------------------------------
\* Every line is read as the instruction it was written for.
LEMMA LineRead ==
  ASSUME NEW i \in Executed, NEW c \in BOOLEAN
  PROVE  LET r == Parse(TraceLine(i, c), i.mask)
         IN r.addrs = Restored(i) /\ (~i.isMem => r.imm = i.imm)
<1>1. CASE ~i.isMem
  BY <1>1, NoAddressRead
<1>2. CASE i.isMem /\ ~c
  BY <1>2, ListRead
<1>3. CASE i.isMem /\ c /\ HasStride(i.addrs, i.mask)
  BY <1>3, StrideRead
<1>4. CASE i.isMem /\ c /\ ~HasStride(i.addrs, i.mask)
  BY <1>4, DeltaRead
<1> QED  BY <1>1, <1>2, <1>3, <1>4

\* The inductive invariant: what lies between tracer and parser is a line of
\* the instruction.
FormatIInv ==
  /\ inst \in Executed /\ phase \in {"executed", "written", "read"}
  /\ phase = "written" => \E c \in BOOLEAN : line = TraceLine(inst, c)
  /\ phase = "read" => \E c \in BOOLEAN : read = Parse(TraceLine(inst, c), inst.mask)

LEMMA FormatStep == FormatIInv /\ [FormatNext]_formatVars => FormatIInv'
<1> SUFFICES ASSUME FormatIInv, [FormatNext]_formatVars PROVE FormatIInv'
  OBVIOUS
<1>1. CASE Write
  BY <1>1 DEF Write, FormatIInv
<1>2. CASE Read
  <2>1. PICK c \in BOOLEAN : line = TraceLine(inst, c)
    BY <1>2 DEF Read, FormatIInv
  <2>2. inst' = inst /\ phase' = "read" /\ read' = Parse(TraceLine(inst, c), inst.mask)
    BY <1>2, <2>1 DEF Read
  <2> QED  BY <2>2 DEF FormatIInv
<1>3. CASE UNCHANGED formatVars
  BY <1>3 DEF formatVars, FormatIInv
<1> QED  BY <1>1, <1>2, <1>3 DEF FormatNext

LEMMA FormatSafe == FormatIInv => TraceRestored
<1> SUFFICES ASSUME FormatIInv, phase = "read" PROVE TraceRestored
  BY DEF TraceRestored, AddressesRestored, DepbarGroupKept
<1>1. PICK c \in BOOLEAN : read = Parse(TraceLine(inst, c), inst.mask)
  BY DEF FormatIInv
<1>2. inst \in Executed
  BY DEF FormatIInv
<1>3. read.addrs = Restored(inst) /\ (~inst.isMem => read.imm = inst.imm)
  BY <1>1, <1>2, LineRead
<1> QED  BY <1>3 DEF TraceRestored, AddressesRestored, DepbarGroupKept, Restored

\* What the tracer writes of an instruction, in each of its address formats,
\* is what the parser makes of the line (tracer_tool.cu:1068-1122,
\* trace_parser.cc:176-227).
THEOREM TraceRoundTrip == FormatSpec => []TraceRestored
<1>1. FormatInit => FormatIInv
  BY DEF FormatInit, FormatIInv
<1> QED  BY <1>1, FormatStep, FormatSafe, PTL DEF FormatSpec

-----------------------------------------------------------------------------
(***************************************************************************)
(* The spinlock filter of the tracer, for any number of warps, kernels and *)
(* records: the counter of a warp and instruction is the number of its     *)
(* iterations in the loop the warp is in.                                  *)
(***************************************************************************)

\* Where the iterations are that a warp's counter of an instruction stands for.
Iterations(w, i) ==
  {q \in DOMAIN executed :
     executed[q] = <<w, i>> /\ \A r \in q .. Len(executed) :
                                 executed[r][1] = w => executed[r][2] \in Spin}

CountersOfSpin ==
  /\ kernel \in DOMAIN Spinlocks
  /\ executed \in Seq(Warps \X Instrs)
  /\ \A w \in Warps : Counter(w) \in [Spin -> Nat]

IterationsCounted ==
  \A w \in Warps : \A i \in Spin : Counter(w)[i] = Cardinality(Iterations(w, i))

SpinIInv == CountersOfSpin /\ IterationsCounted /\ FastForwardExact

\* Nothing was executed and no warp has counters: all are zero.
LEMMA NothingExecuted ==
  /\ kernel \in DOMAIN Spinlocks /\ counters = [w \in {} |-> Zero]
  /\ trace = <<>> /\ executed = <<>>
  => SpinIInv
<1> SUFFICES ASSUME kernel \in DOMAIN Spinlocks, counters = [w \in {} |-> Zero],
                    trace = <<>>, executed = <<>>
             PROVE  SpinIInv
  OBVIOUS
<1>1. executed \in Seq(Warps \X Instrs) /\ DOMAIN executed = {}
  BY EmptySeq
<1>2. ASSUME NEW w \in Warps PROVE Counter(w) = [i \in Spin |-> 0]
  BY DEF Counter, Zero
<1>3. CountersOfSpin
  BY <1>1, <1>2 DEF CountersOfSpin
<1>4. IterationsCounted
  <2>1. ASSUME NEW w, NEW i PROVE Iterations(w, i) = {}
    BY <1>1 DEF Iterations
  <2> QED  BY <2>1, <1>2, FS_EmptySet DEF IterationsCounted
<1>5. FastForwardExact
  <2>1. {p \in DOMAIN executed : Kept(p)} = {}
    BY <1>1
  <2>2. RecordsAt({}) = <<>>
    <3>1. 1 .. Cardinality({}) = {}
      BY FS_EmptySet
    <3> QED  BY <3>1 DEF RecordsAt
  <2> QED  BY <2>1, <2>2 DEF FastForwardExact
<1> QED  BY <1>3, <1>4, <1>5 DEF SpinIInv

LEMMA SpinInitially == SpinInit => SpinIInv
<1>1. SpinInit => kernel \in DOMAIN Spinlocks
  BY SpinlockAssumption, EmptySeq, LenProperties DEF SpinInit
<1> QED  BY <1>1, NothingExecuted DEF SpinInit

-----------------------------------------------------------------------------
\* A new greatest position comes last.
LEMMA LastPosition ==
  ASSUME NEW n \in Nat, NEW P, P \subseteq 1 .. n
  PROVE  LET nth(S, m) == CHOOSE p \in S : Cardinality({q \in S : q <= p}) = m
             more == P \cup {n + 1}
         IN /\ Cardinality(P) \in Nat /\ Cardinality(more) = Cardinality(P) + 1
            /\ \A m \in 1 .. Cardinality(P) : nth(P, m) \in P /\ nth(more, m) = nth(P, m)
            /\ nth(more, Cardinality(P) + 1) = n + 1
<1> DEFINE rank(S, p) == Cardinality({q \in S : q <= p})
           nth(S, m)  == CHOOSE p \in S : rank(S, p) = m
           more       == P \cup {n + 1}
           N          == Cardinality(P)
<1>1. IsFiniteSet(P) /\ N \in Nat
  BY Ranked
<1>2. \A p \in P : rank(P, p) \in 1 .. N
  BY Ranked
<1>3. \A p, q \in P : rank(P, p) = rank(P, q) => p = q
  BY Ranked
<1>4. \A m \in 1 .. N : \E p \in P : rank(P, p) = m
  BY Ranked
<1>5. \A p \in P : rank(more, p) = rank(P, p)
  <2> SUFFICES ASSUME NEW p \in P PROVE rank(more, p) = rank(P, p)
    OBVIOUS
  <2>1. {q \in more : q <= p} = {q \in P : q <= p}
    OBVIOUS
  <2> QED  BY <2>1
<1>6. Cardinality(more) = N + 1
  BY <1>1, FS_AddElement
<1>7. rank(more, n + 1) = N + 1
  <2>1. \A q \in more : q <= n + 1
    <3>1. \A q \in 1 .. n : q <= n + 1
      OBVIOUS
    <3> QED  BY <3>1
  <2>2. {q \in more : q <= n + 1} = more
    BY <2>1
  <2> QED  BY <2>2, <1>6
<1> HIDE DEF rank, N
<1>8. ASSUME NEW m \in 1 .. N
      PROVE  nth(P, m) \in P /\ nth(more, m) = nth(P, m)
  <2>1. PICK p \in P : rank(P, p) = m
    BY <1>4
  <2>2. nth(P, m) = p
    BY <2>1, <1>3
  <2>3. \A q \in more : rank(more, q) = m => q = p
    BY <2>1, <1>1, <1>3, <1>5, <1>7
  <2>4. nth(more, m) = p
    BY <2>1, <2>3, <1>5
  <2> QED  BY <2>2, <2>4
<1>9. nth(more, N + 1) = n + 1
  <2>1. \A q \in more : rank(more, q) = N + 1 => q = n + 1
    BY <1>1, <1>2, <1>5
  <2> QED  BY <2>1, <1>7
<1> QED  BY <1>1, <1>6, <1>8, <1>9 DEF rank, N

-----------------------------------------------------------------------------
\* What a record leaves of the positions before it.
LEMMA RecordPositions ==
  ASSUME SpinIInv, NEW w \in Warps, NEW i \in Instrs,
         executed' = Append(executed, <<w, i>>), kernel' = kernel
  PROVE  /\ Len(executed) \in Nat /\ DOMAIN executed = 1 .. Len(executed)
         /\ executed' \in Seq(Warps \X Instrs) /\ Len(executed') = Len(executed) + 1
         /\ DOMAIN executed' = 1 .. Len(executed) + 1
         /\ \A q \in 1 .. Len(executed) : executed'[q] = executed[q]
         /\ executed'[Len(executed) + 1] = <<w, i>>
         /\ Spin' = Spin
<1>1. executed \in Seq(Warps \X Instrs) /\ <<w, i>> \in Warps \X Instrs
  BY DEF SpinIInv, CountersOfSpin
<1>2. Len(executed) \in Nat /\ DOMAIN executed = 1 .. Len(executed)
  BY <1>1, LenProperties
<1>3. /\ executed' \in Seq(Warps \X Instrs) /\ Len(executed') = Len(executed) + 1
      /\ \A q \in 1 .. Len(executed) : executed'[q] = executed[q]
      /\ executed'[Len(executed) + 1] = <<w, i>>
  BY <1>1, <1>2, AppendProperties
<1>4. DOMAIN executed' = 1 .. Len(executed) + 1
  BY <1>3, LenProperties
<1> QED  BY <1>2, <1>3, <1>4 DEF Spin

\* How the iterations of the loops grow, or end.
LEMMA IterationsOfRecord ==
  ASSUME SpinIInv, NEW w \in Warps, NEW i \in Instrs,
         executed' = Append(executed, <<w, i>>), kernel' = kernel
  PROVE  /\ \A v \in Warps, j \in Instrs : IsFiniteSet(Iterations(v, j))
         /\ \A v \in Warps, j \in Instrs : v # w => Iterations(v, j)' = Iterations(v, j)
         /\ i \notin Spin => \A j \in Instrs : Iterations(w, j)' = {}
         /\ i \in Spin => \A j \in Instrs :
              Iterations(w, j)' = IF j = i THEN Iterations(w, j) \cup {Len(executed) + 1}
                                           ELSE Iterations(w, j)
<1> DEFINE n == Len(executed)
           e == executed
           f == executed'
           on(v, q)  == \A r \in q .. n : e[r][1] = v => e[r][2] \in Spin
           onn(v, q) == \A r \in q .. n + 1 : f[r][1] = v => f[r][2] \in Spin
<1>1. n \in Nat /\ DOMAIN e = 1 .. n /\ DOMAIN f = 1 .. n + 1 /\ Len(f) = n + 1
      /\ (\A q \in 1 .. n : f[q] = e[q]) /\ f[n + 1] = <<w, i>> /\ Spin' = Spin
  BY RecordPositions
<1>2. \A v, j : Iterations(v, j) = {q \in 1 .. n : e[q] = <<v, j>> /\ on(v, q)}
  BY <1>1 DEF Iterations
<1>3. \A v, j : Iterations(v, j)' = {q \in 1 .. n + 1 : f[q] = <<v, j>> /\ onn(v, q)}
  BY <1>1 DEF Iterations
<1>4. ASSUME NEW v, NEW j PROVE IsFiniteSet(Iterations(v, j))
  <2>1. Iterations(v, j) \subseteq 1 .. n /\ IsFiniteSet(1 .. n)
    BY <1>1, <1>2, FS_Interval
  <2> HIDE DEF n
  <2> QED  BY <2>1, FS_Subset
<1> HIDE DEF n, e, f
<1>5. ASSUME NEW v, NEW q \in 1 .. n
      PROVE  onn(v, q) <=> on(v, q) /\ (v = w => i \in Spin)
  <2>1. q .. n + 1 = (q .. n) \cup {n + 1} /\ q .. n \subseteq 1 .. n
    BY <1>1
  <2>2. f[n + 1][1] = w /\ f[n + 1][2] = i
    BY <1>1
  <2>3. \A r \in q .. n : f[r] = e[r]
    BY <2>1, <1>1
  <2> QED  BY <2>1, <2>2, <2>3
<1>6. ASSUME NEW v PROVE onn(v, n + 1) <=> (v = w => i \in Spin)
  <2>1. n + 1 .. n + 1 = {n + 1} /\ f[n + 1][1] = w /\ f[n + 1][2] = i
    BY <1>1
  <2> QED  BY <2>1
<1>7. 1 .. n + 1 = (1 .. n) \cup {n + 1} /\ n + 1 \notin 1 .. n
  BY <1>1
<1> HIDE DEF on, onn
<1>8. ASSUME NEW v \in Warps, NEW j \in Instrs, v # w
      PROVE  Iterations(v, j)' = Iterations(v, j)
  <2>1. f[n + 1] # <<v, j>>
    BY <1>1, <1>8
  <2> QED  BY <2>1, <1>1, <1>2, <1>3, <1>5, <1>7, <1>8
<1>9. ASSUME i \notin Spin, NEW j \in Instrs PROVE Iterations(w, j)' = {}
  BY <1>3, <1>5, <1>6, <1>7, <1>9
<1>10. ASSUME i \in Spin, NEW j \in Instrs
       PROVE  Iterations(w, j)' = IF j = i THEN Iterations(w, j) \cup {n + 1}
                                           ELSE Iterations(w, j)
  <2>1. f[n + 1] = <<w, j>> <=> j = i
    BY <1>1
  <2> QED  BY <2>1, <1>1, <1>2, <1>3, <1>5, <1>6, <1>7, <1>10, ZenonT(60)
<1> QED  BY <1>4, <1>8, <1>9, <1>10 DEF n

\* The counters follow.
LEMMA RecordCounts ==
  ASSUME SpinIInv, NEW w \in Warps, NEW i \in Instrs,
         executed' = Append(executed, <<w, i>>), kernel' = kernel,
         counters' = With(w, Counted(Counter(w), i))
  PROVE  CountersOfSpin' /\ IterationsCounted'
<1>0. CountersOfSpin /\ IterationsCounted
  BY DEF SpinIInv
<1>1. Spin' = Spin /\ executed' \in Seq(Warps \X Instrs) /\ Len(executed) \in Nat
      /\ DOMAIN executed = 1 .. Len(executed)
  BY RecordPositions
<1>2. ASSUME NEW v \in Warps
      PROVE  Counter(v)' = IF v = w THEN Counted(Counter(w), i) ELSE Counter(v)
  BY <1>1 DEF Counter, With, Zero
<1>3. Counter(w) \in [Spin -> Nat] /\ Counted(Counter(w), i) \in [Spin -> Nat]
  BY <1>0 DEF CountersOfSpin, Counted, Zero
<1>4. CountersOfSpin'
  BY <1>0, <1>1, <1>2, <1>3 DEF CountersOfSpin
<1>5. Spin \subseteq Instrs
  BY <1>0, SpinlockAssumption, ElementOfSeq DEF Spin, CountersOfSpin
<1>6. IterationsCounted'
  <2> SUFFICES ASSUME NEW v \in Warps, NEW j \in Spin
               PROVE  Counter(v)'[j] = Cardinality(Iterations(v, j)')
    BY <1>1 DEF IterationsCounted
  <2>0. j \in Instrs /\ Counter(v)[j] = Cardinality(Iterations(v, j))
    BY <1>0, <1>5 DEF IterationsCounted
  <2>1. CASE v # w
    BY <2>0, <2>1, <1>2, IterationsOfRecord
  <2>2. CASE v = w /\ i \notin Spin
    <3>1. Iterations(w, j)' = {}
      BY <2>0, <2>2, IterationsOfRecord
    <3> QED  BY <3>1, <2>2, <1>2, FS_EmptySet DEF Counted, Zero
  <2>3. CASE v = w /\ i \in Spin /\ j # i
    <3>1. Iterations(w, j)' = Iterations(w, j)
      BY <2>0, <2>3, IterationsOfRecord
    <3> QED  BY <3>1, <2>0, <2>3, <1>2, <1>3 DEF Counted
  <2>4. CASE v = w /\ i \in Spin /\ j = i
    <3>1. /\ Iterations(w, j)' = Iterations(w, j) \cup {Len(executed) + 1}
          /\ IsFiniteSet(Iterations(w, j))
      BY <2>0, <2>4, IterationsOfRecord
    <3>2. Len(executed) + 1 \notin Iterations(w, j)
      BY <1>1 DEF Iterations
    <3>3. Cardinality(Iterations(w, j)') = Cardinality(Iterations(w, j)) + 1
      BY <3>1, <3>2, FS_AddElement
    <3>4. Counter(v)'[j] = Counter(w)[j] + 1
      BY <2>4, <1>2, <1>3 DEF Counted
    <3> QED  BY <3>3, <3>4, <2>0, <2>4
  <2> QED  BY <2>1, <2>2, <2>3, <2>4
<1> QED  BY <1>4, <1>6

-----------------------------------------------------------------------------
\* What is kept of the records before stays kept; the record itself is kept
\* unless its counter says otherwise.
LEMMA RecordKept ==
  ASSUME SpinIInv, NEW w \in Warps, NEW i \in Instrs,
         executed' = Append(executed, <<w, i>>), kernel' = kernel,
         NEW n, n = Len(executed)
  PROVE  /\ \A p \in DOMAIN executed : Kept(p)' <=> Kept(p)
         /\ Kept(n + 1)' <=> ~Skipped(Counted(Counter(w), i), i)
<1>0. CountersOfSpin /\ IterationsCounted
  BY DEF SpinIInv
<1> DEFINE e == executed
           f == executed'
<1>1. n \in Nat /\ DOMAIN e = 1 .. n /\ DOMAIN f = 1 .. n + 1 /\ Len(f) = n + 1
      /\ (\A q \in 1 .. n : f[q] = e[q]) /\ f[n + 1] = <<w, i>> /\ Spin' = Spin
  BY RecordPositions
<1>2. ASSUME NEW p \in 1 .. n PROVE Kept(p)' <=> Kept(p)
  <2> DEFINE same(q)  == \A r \in q .. p : e[r][1] = e[p][1] => e[r][2] \in Spin
             same2(q) == \A r \in q .. p : f[r][1] = f[p][1] => f[r][2] \in Spin
  <2>1. \A r \in 1 .. p : r \in 1 .. n
    BY <1>1
  <2>2. \A q \in 1 .. p : \A r \in q .. p : r \in 1 .. p
    BY <1>1
  <2>3. \A r \in 1 .. p : f[r] = e[r]
    BY <2>1, <1>1
  <2>3a. f[p] = e[p]
    BY <1>1
  <2> HIDE DEF e, f
  <2>4. \A q \in 1 .. p : same2(q) <=> same(q)
    BY <2>2, <2>3, <2>3a
  <2>5. Loop(p)' = {q \in 1 .. p : same2(q)} /\ Loop(p) = {q \in 1 .. p : same(q)}
    BY <1>1 DEF Loop, e, f
  <2> HIDE DEF same, same2
  <2>6. Loop(p)' = Loop(p) /\ Loop(p) \subseteq 1 .. p
    BY <2>4, <2>5
  <2>7. {q \in Loop(p)' : f[q] = f[p]} = {q \in Loop(p) : e[q] = e[p]}
    BY <2>3, <2>3a, <2>6
  <2> QED  BY <2>7, <2>3a, <1>1 DEF Kept, e, f
<1>3. Kept(n + 1)' <=> ~Skipped(Counted(Counter(w), i), i)
  <2>1. CASE i \notin Spin
    BY <2>1, <1>1 DEF Kept, Skipped
  <2>2. CASE i \in Spin
    <3>1. {q \in Loop(n + 1)' : f[q] = f[n + 1]} = Iterations(w, i)'
      <4>1. Loop(n + 1)' = {q \in 1 .. n + 1 :
                              \A r \in q .. n + 1 : f[r][1] = w => f[r][2] \in Spin}
        BY <1>1 DEF Loop
      <4>2. Iterations(w, i)' = {q \in 1 .. n + 1 : f[q] = <<w, i>> /\
                              \A r \in q .. n + 1 : f[r][1] = w => f[r][2] \in Spin}
        BY <1>1 DEF Iterations
      <4> QED  BY <4>1, <4>2, <1>1
    <3>2. Iterations(w, i)' = Iterations(w, i) \cup {n + 1} /\ IsFiniteSet(Iterations(w, i))
      BY <2>2, IterationsOfRecord
    <3>3. n + 1 \notin Iterations(w, i)
      BY <1>1 DEF Iterations
    <3>4. Cardinality(Iterations(w, i)') = Cardinality(Iterations(w, i)) + 1
      BY <3>2, <3>3, FS_AddElement
    <3>5. Counter(w)[i] = Cardinality(Iterations(w, i)) /\ Counter(w) \in [Spin -> Nat]
      BY <2>2, <1>0 DEF IterationsCounted, CountersOfSpin
    <3>6. Counted(Counter(w), i)[i] = Cardinality(Iterations(w, i)')
      BY <3>4, <3>5, <2>2 DEF Counted
    <3>7. Kept(n + 1)' <=> Cardinality(Iterations(w, i)') <= Keep
      <4>1. Kept(n + 1)' <=> \/ f[n + 1][2] \notin Spin'
                            \/ Cardinality({q \in Loop(n + 1)' : f[q] = f[n + 1]}) <= Keep
        BY DEF Kept
      <4>2. f[n + 1][2] \in Spin'
        BY <2>2, <1>1
      <4> QED  BY <4>1, <4>2, <3>1
    <3>8. Cardinality(Iterations(w, i)') \in Nat /\ Keep \in Nat
      BY <3>4, <3>5, <2>2, SpinlockAssumption
    <3> QED  BY <3>6, <3>7, <3>8, <2>2 DEF Skipped
  <2> QED  BY <2>1, <2>2
<1> QED  BY <1>1, <1>2, <1>3

\* So the file stays what should be kept.
LEMMA RecordWritten ==
  ASSUME SpinIInv, NEW w \in Warps, NEW i \in Instrs,
         executed' = Append(executed, <<w, i>>), kernel' = kernel,
         trace' = IF Skipped(Counted(Counter(w), i), i) THEN trace
                  ELSE Append(trace, <<w, i>>)
  PROVE  FastForwardExact'
<1>n. PICK n : n = Len(executed)
  OBVIOUS
<1> DEFINE P == {p \in DOMAIN executed : Kept(p)}
           Q == {p \in DOMAIN executed' : Kept(p)'}
           nth(S, m) == CHOOSE p \in S : Cardinality({q \in S : q <= p}) = m
<1>0. trace = [m \in 1 .. Cardinality(P) |-> executed[nth(P, m)]]
  BY DEF SpinIInv, FastForwardExact, RecordsAt
<1>1. n \in Nat /\ DOMAIN executed = 1 .. n /\ DOMAIN executed' = 1 .. n + 1
      /\ (\A q \in 1 .. n : executed'[q] = executed[q]) /\ executed'[n + 1] = <<w, i>>
  BY <1>n, RecordPositions
<1>2. P \subseteq 1 .. n
  BY <1>1
<1>3. Q = IF Skipped(Counted(Counter(w), i), i) THEN P ELSE P \cup {n + 1}
  <2>1. 1 .. n + 1 = (1 .. n) \cup {n + 1}
    BY <1>1
  <2>2. \A p \in 1 .. n : Kept(p)' <=> Kept(p)
    BY <1>n, <1>1, RecordKept
  <2>3. Kept(n + 1)' <=> ~Skipped(Counted(Counter(w), i), i)
    BY <1>n, RecordKept
  <2> QED  BY <2>1, <2>2, <2>3, <1>1
<1>4. FastForwardExact' <=> trace' = [m \in 1 .. Cardinality(Q) |-> executed'[nth(Q, m)]]
  BY DEF FastForwardExact, RecordsAt
<1> DEFINE N == Cardinality(P)
<1>5. /\ N \in Nat /\ Cardinality(P \cup {n + 1}) = N + 1
      /\ \A m \in 1 .. N : nth(P, m) \in P /\ nth(P \cup {n + 1}, m) = nth(P, m)
      /\ nth(P \cup {n + 1}, N + 1) = n + 1
  <2> HIDE DEF P
  <2> QED  BY <1>1, <1>2, LastPosition
<1> HIDE DEF nth, P, Q, N
<1>6. \A m \in 1 .. N : executed'[nth(P, m)] = executed[nth(P, m)]
  BY <1>1, <1>2, <1>5
<1>7. trace = [m \in 1 .. N |-> executed[nth(P, m)]]
  BY <1>0 DEF N
<1>8. CASE Skipped(Counted(Counter(w), i), i)
  <2>1. trace' = trace /\ Q = P
    BY <1>8, <1>3
  <2>2. [m \in 1 .. Cardinality(Q) |-> executed'[nth(Q, m)]]
          = [m \in 1 .. N |-> executed[nth(P, m)]]
    BY <2>1, <1>6 DEF N
  <2> QED  BY <2>1, <2>2, <1>4, <1>7
<1>9. CASE ~Skipped(Counted(Counter(w), i), i)
  <2>1. trace' = Append(trace, <<w, i>>) /\ Q = P \cup {n + 1}
    BY <1>9, <1>3
  <2> DEFINE T == [m \in 1 .. N + 1 |-> executed'[nth(Q, m)]]
  <2>2. ASSUME NEW m \in 1 .. N PROVE T[m] = trace[m]
    <3>1. m \in 1 .. N + 1
      BY <1>5
    <3>2. T[m] = executed'[nth(P, m)]
      BY <3>1, <2>1, <1>5
    <3> QED  BY <3>2, <1>6, <1>7
  <2>3. T[N + 1] = <<w, i>>
    <3>1. N + 1 \in 1 .. N + 1
      BY <1>5
    <3> QED  BY <3>1, <2>1, <1>1, <1>5
  <2>4. trace \in Seq(Warps \X Instrs) /\ Len(trace) = N
    <3>1. \A m \in 1 .. N : trace[m] = executed[nth(P, m)] /\ nth(P, m) \in DOMAIN executed
      BY <1>1, <1>2, <1>5, <1>7
    <3>2. executed \in Seq(Warps \X Instrs)
      BY DEF SpinIInv, CountersOfSpin
    <3>3. \A m \in 1 .. N : trace[m] \in Warps \X Instrs
      BY <3>1, <3>2, ElementOfSeq, <1>1
    <3>4. trace \in [1 .. N -> Warps \X Instrs]
      BY <1>7, <3>3
    <3> QED  BY <3>4, <1>5, FunctionSeq
  <2>5. Append(trace, <<w, i>>) = T
    <3> DEFINE A == Append(trace, <<w, i>>)
    <3>1. /\ A \in Seq(Warps \X Instrs) /\ Len(A) = N + 1
          /\ \A m \in 1 .. N : A[m] = trace[m]
          /\ A[N + 1] = <<w, i>>
      BY <2>4, AppendProperties
    <3>2. A = [m \in 1 .. N + 1 |-> A[m]]
      BY <3>1, LenProperties
    <3> HIDE DEF A
    <3>3. \A m \in 1 .. N + 1 : A[m] = T[m]
      <4>1. \A m \in 1 .. N + 1 : m \in 1 .. N \/ m = N + 1
        BY <1>5
      <4> HIDE DEF T
      <4> QED  BY <4>1, <3>1, <2>2, <2>3
    <3> QED  BY <3>2, <3>3 DEF A
  <2>6. Cardinality(Q) = N + 1
    BY <2>1, <1>5
  <2> QED  BY <2>1, <2>5, <2>6, <1>4
<1> QED  BY <1>8, <1>9

LEMMA SpinStep == SpinIInv /\ [SpinNext]_spinVars => SpinIInv'
<1> SUFFICES ASSUME SpinIInv, [SpinNext]_spinVars PROVE SpinIInv'
  OBVIOUS
<1>1. CASE Record
  <2>1. PICK w \in Warps, i \in Instrs :
          /\ counters' = With(w, Counted(Counter(w), i))
          /\ trace' = IF Skipped(Counted(Counter(w), i), i) THEN trace
                      ELSE Append(trace, <<w, i>>)
          /\ executed' = Append(executed, <<w, i>>) /\ kernel' = kernel
    BY <1>1 DEF Record
  <2>2. CountersOfSpin' /\ IterationsCounted'
    BY <2>1, RecordCounts
  <2>3. FastForwardExact'
    BY <2>1, RecordWritten
  <2> QED  BY <2>2, <2>3 DEF SpinIInv
<1>2. CASE KernelEnds
  <2>1. kernel' \in DOMAIN Spinlocks
    <3>1. Len(Spinlocks) \in Nat /\ DOMAIN Spinlocks = 1 .. Len(Spinlocks)
      BY SpinlockAssumption, LenProperties
    <3> QED  BY <3>1, <1>2 DEF KernelEnds, SpinIInv, CountersOfSpin
  <2>2. counters' = [w \in {} |-> Zero'] /\ trace' = <<>> /\ executed' = <<>>
    <3>1. [w \in {} |-> {}] = [w \in {} |-> Zero']
      OBVIOUS
    <3> QED  BY <3>1, <1>2 DEF KernelEnds, Cleared
  <2>3. (/\ kernel \in DOMAIN Spinlocks /\ counters = [w \in {} |-> Zero]
         /\ trace = <<>> /\ executed = <<>>
         => SpinIInv)'
    BY NothingExecuted, PTL
  <2> QED  BY <2>1, <2>2, <2>3
<1>3. CASE UNCHANGED spinVars
  <2>1. kernel' = kernel /\ counters' = counters /\ trace' = trace
        /\ executed' = executed /\ Spin' = Spin
    BY <1>3 DEF spinVars, Spin
  <2>2. \A w : Counter(w)' = Counter(w)
    BY <2>1 DEF Counter, Zero
  <2>3. \A w, i : Iterations(w, i)' = Iterations(w, i)
    BY <2>1 DEF Iterations
  <2>4. CountersOfSpin' /\ IterationsCounted'
    BY <2>1, <2>2, <2>3 DEF SpinIInv, CountersOfSpin, IterationsCounted
  <2>5. \A p : Loop(p)' = Loop(p)
    BY <2>1 DEF Loop
  <2>6. \A p : Kept(p)' <=> Kept(p)
    BY <2>1, <2>5 DEF Kept
  <2>7. {p \in DOMAIN executed' : Kept(p)'} = {p \in DOMAIN executed : Kept(p)}
    BY <2>1, <2>6
  <2>8. \A P : RecordsAt(P)' = RecordsAt(P)
    BY <2>1 DEF RecordsAt
  <2>9. FastForwardExact'
    BY <2>1, <2>7, <2>8 DEF SpinIInv, FastForwardExact
  <2> QED  BY <2>4, <2>9 DEF SpinIInv
<1> QED  BY <1>1, <1>2, <1>3 DEF SpinNext

\* Fast forward in spinlocks writes of every loop of a warp the first
\* iterations of each instruction, and everything else (tracer_tool.cu:997-1038).
THEOREM FastForward == SpinSpec => []FastForwardExact
<1>1. SpinIInv => FastForwardExact
  BY DEF SpinIInv
<1> QED  BY SpinInitially, SpinStep, <1>1, PTL DEF SpinSpec

-----------------------------------------------------------------------------
(***************************************************************************)
(* The controller without coalescing, for any pages, requests and limits,  *)
(* and whatever number a key is: what the tables are, and where a request  *)
(* can be.                                                                 *)
(***************************************************************************)
TableRecord(t) ==
  t = [wb |-> t.wb, mshr |-> t.mshr, queue |-> t.queue, outw |-> t.outw, nand |-> t.nand]

TablesTyped(t) ==
  /\ TableRecord(t)
  /\ t.wb \in [LogicalPage -> Seq(Req)] /\ t.outw \in Nat /\ t.queue \in Seq(Nat)
  /\ t.nand \subseteq Subarray
  /\ t.mshr = [k \in DOMAIN t.mshr |-> t.mshr[k]]
  /\ DOMAIN t.mshr \subseteq Nat /\ IsFiniteSet(DOMAIN t.mshr)
  /\ \A k \in DOMAIN t.mshr : t.mshr[k] \in Entry /\ t.mshr[k].pending # <<>>

WriteKeys(t) == {k \in DOMAIN t.mshr : t.mshr[k].write}

\* The requests of L are in one place of the tables at most, others in none.
Apart(t, L) ==
  /\ \A p \in LogicalPage :
       /\ IsInjective(t.wb[p])
       /\ \A r \in ToSet(t.wb[p]) : r \in L /\ ReqPage[r] = p
  /\ \A k \in DOMAIN t.mshr :
       IsInjective(t.mshr[k].pending) /\ ToSet(t.mshr[k].pending) \subseteq L
  /\ \A p \in LogicalPage : \A k \in DOMAIN t.mshr :
       \A r \in ToSet(t.wb[p]) : r \notin ToSet(t.mshr[k].pending)
  /\ \A j, k \in DOMAIN t.mshr : j # k =>
       \A r \in ToSet(t.mshr[j].pending) : r \notin ToSet(t.mshr[k].pending)

Queued(t) == \A k \in DOMAIN t.mshr : t.mshr[k].op = "waiting" => k \in ToSet(t.queue)

TablesInv(t, L) ==
  TablesTyped(t) /\ Apart(t, L) /\ Queued(t) /\ t.outw >= Cardinality(WriteKeys(t))

\* Requests that were pushed and have not left the tables.
Inside == pushed \ (ToSet(returnq) \cup done)

NoCoalesceIInv ==
  /\ TablesInv(ctl, Inside)
  /\ pushed \subseteq Req /\ done \subseteq pushed /\ todo \subseteq LogicalPage
  /\ returnq \in Seq(Req) /\ Len(returnq) <= ReturnCap
  /\ IsInjective(returnq) /\ ToSet(returnq) \subseteq pushed /\ ToSet(returnq) \cap done = {}

\* The inductive invariant has all that is wanted.
LEMMA NoCoalesceSafe == NoCoalesceIInv => EntriesSound
<1> SUFFICES ASSUME NoCoalesceIInv PROVE EntriesSound
  OBVIOUS
<1>0. /\ TablesTyped(ctl) /\ Apart(ctl, Inside) /\ Queued(ctl)
      /\ ctl.outw >= Cardinality(WriteKeys(ctl))
      /\ returnq \in Seq(Req) /\ IsInjective(returnq) /\ ToSet(returnq) \cap done = {}
      /\ \A r \in Inside : r \notin ToSet(returnq) /\ r \notin done
  BY DEF NoCoalesceIInv, TablesInv, Inside
<1>1. TypeOK
  BY <1>0 DEF NoCoalesceIInv, TablesTyped, TypeOK
<1>2. WaitingIsQueued
  BY <1>0 DEF Queued, WaitingIsQueued
<1>3. OutstandingWritesCovered
  BY <1>0 DEF OutstandingWritesCovered, WriteKeys
<1>4. AtOnePlace
  <2>1. ASSUME NEW x \in Places
        PROVE  \/ \E p \in LogicalPage : x = <<"buffer", p>> /\ Held(x) = ctl.wb[p]
               \/ \E k \in DOMAIN ctl.mshr : x = <<"entry", k>> /\ Held(x) = ctl.mshr[k].pending
               \/ x = <<"return", 0>> /\ Held(x) = returnq
    <3>1. CASE x \in {"buffer"} \X LogicalPage
      <4>1. PICK p \in LogicalPage : x = <<"buffer", p>>
        BY <3>1
      <4> QED  BY <4>1 DEF Held
    <3>2. CASE x \in {"entry"} \X DOMAIN ctl.mshr
      <4>1. PICK k \in DOMAIN ctl.mshr : x = <<"entry", k>>
        BY <3>2
      <4> QED  BY <4>1 DEF Held
    <3>3. CASE x = <<"return", 0>>
      BY <3>3 DEF Held
    <3> QED  BY <3>1, <3>2, <3>3 DEF Places
  <2>2. ASSUME NEW x \in Places PROVE IsInjective(Held(x)) /\ ToSet(Held(x)) \cap done = {}
    <3>1. ASSUME NEW p \in LogicalPage
          PROVE  IsInjective(ctl.wb[p]) /\ ToSet(ctl.wb[p]) \cap done = {}
      BY <1>0 DEF Apart
    <3>2. ASSUME NEW k \in DOMAIN ctl.mshr
          PROVE  IsInjective(ctl.mshr[k].pending) /\ ToSet(ctl.mshr[k].pending) \cap done = {}
      BY <1>0 DEF Apart
    <3> QED  BY <2>1, <3>1, <3>2, <1>0
  <2>3. ASSUME NEW x \in Places, NEW y \in Places, x # y,
               NEW r \in ToSet(Held(x)), r \in ToSet(Held(y))
        PROVE  FALSE
    <3>1. CASE \E p \in LogicalPage : x = <<"buffer", p>> /\ Held(x) = ctl.wb[p]
      <4>1. PICK p \in LogicalPage : x = <<"buffer", p>> /\ Held(x) = ctl.wb[p]
        BY <3>1
      <4>2. r \in Inside /\ ReqPage[r] = p
        BY <4>1, <2>3, <1>0 DEF Apart
      <4>3. CASE \E q \in LogicalPage : y = <<"buffer", q>> /\ Held(y) = ctl.wb[q]
        BY <4>1, <4>2, <4>3, <2>3, <1>0 DEF Apart
      <4>4. CASE \E k \in DOMAIN ctl.mshr : y = <<"entry", k>> /\ Held(y) = ctl.mshr[k].pending
        BY <4>1, <4>4, <2>3, <1>0 DEF Apart
      <4>5. CASE y = <<"return", 0>> /\ Held(y) = returnq
        BY <4>2, <4>5, <2>3, <1>0
      <4> QED  BY <2>1, <4>3, <4>4, <4>5
    <3>2. CASE \E j \in DOMAIN ctl.mshr : x = <<"entry", j>> /\ Held(x) = ctl.mshr[j].pending
      <4>1. PICK j \in DOMAIN ctl.mshr : x = <<"entry", j>> /\ Held(x) = ctl.mshr[j].pending
        BY <3>2
      <4>2. r \in Inside
        BY <4>1, <2>3, <1>0 DEF Apart
      <4>3. CASE \E q \in LogicalPage : y = <<"buffer", q>> /\ Held(y) = ctl.wb[q]
        BY <4>1, <4>3, <2>3, <1>0 DEF Apart
      <4>4. CASE \E k \in DOMAIN ctl.mshr : y = <<"entry", k>> /\ Held(y) = ctl.mshr[k].pending
        BY <4>1, <4>4, <2>3, <1>0 DEF Apart
      <4>5. CASE y = <<"return", 0>> /\ Held(y) = returnq
        BY <4>2, <4>5, <2>3, <1>0
      <4> QED  BY <2>1, <4>3, <4>4, <4>5
    <3>3. CASE x = <<"return", 0>> /\ Held(x) = returnq
      <4>1. CASE \E q \in LogicalPage : y = <<"buffer", q>> /\ Held(y) = ctl.wb[q]
        BY <3>3, <4>1, <2>3, <1>0 DEF Apart
      <4>2. CASE \E k \in DOMAIN ctl.mshr : y = <<"entry", k>> /\ Held(y) = ctl.mshr[k].pending
        BY <3>3, <4>2, <2>3, <1>0 DEF Apart
      <4> QED  BY <3>3, <2>1, <2>3, <4>1, <4>2
    <3> QED  BY <2>1, <3>1, <3>2, <3>3
  <2> QED  BY <2>2, <2>3 DEF AtOnePlace
<1> QED  BY <1>1, <1>2, <1>3, <1>4 DEF EntriesSound

\* A table that changes leaves a record of the tables.
LEMMA TablesStay ==
  ASSUME NEW t, TableRecord(t), NEW x
  PROVE  /\ TableRecord([t EXCEPT !.wb = x]) /\ TableRecord([t EXCEPT !.mshr = x])
         /\ TableRecord([t EXCEPT !.queue = x]) /\ TableRecord([t EXCEPT !.outw = x])
         /\ TableRecord([t EXCEPT !.nand = x])
<1>1. TableRecord([t EXCEPT !.wb = x])
  BY DEF TableRecord
<1>2. TableRecord([t EXCEPT !.mshr = x])
  BY DEF TableRecord
<1>3. TableRecord([t EXCEPT !.queue = x])
  BY DEF TableRecord
<1>4. TableRecord([t EXCEPT !.outw = x])
  BY DEF TableRecord
<1>5. TableRecord([t EXCEPT !.nand = x])
  BY DEF TableRecord
<1> QED  BY <1>1, <1>2, <1>3, <1>4, <1>5

Put(f, k, e) == [j \in DOMAIN f \cup {k} |-> IF j = k THEN e ELSE f[j]]

LEMMA PutEntry ==
  ASSUME NEW t, TableRecord(t), NEW k, NEW e
  PROVE  LET u == Insert(t, k, e)
         IN /\ u.wb = t.wb /\ u.outw = t.outw /\ u.nand = t.nand
            /\ u.queue = Append(t.queue, k) /\ u.mshr = Put(t.mshr, k, e)
            /\ TableRecord(u)
<1> DEFINE m == Put(t.mshr, k, e)
           q == Append(t.queue, k)
           v == [t EXCEPT !.mshr = m]
           u == [t EXCEPT !.mshr = m, !.queue = q]
<1>1. Insert(t, k, e) = u
  BY DEF Insert, Put
<1> HIDE DEF m, q
<1>2. u.wb = t.wb /\ u.outw = t.outw /\ u.nand = t.nand /\ u.queue = q /\ u.mshr = m
  BY DEF TableRecord
<1>3. TableRecord(v)
  BY TablesStay
<1>4. u = [v EXCEPT !.queue = q]
  OBVIOUS
<1> HIDE DEF v, u
<1>5. TableRecord(u)
  BY <1>3, <1>4, TablesStay
<1> QED  BY <1>1, <1>2, <1>5 DEF m, q

\* The bounds of a set with one element more.
LEMMA OneMore ==
  ASSUME NEW S, IsFiniteSet(S), NEW k, NEW V, V \subseteq S \cup {k}
  PROVE  /\ IsFiniteSet(V) /\ Cardinality(V) \in Nat /\ Cardinality(S) \in Nat
         /\ Cardinality(V) <= Cardinality(S) + 1
<1>1. IsFiniteSet(S \cup {k})
      /\ (Cardinality(S \cup {k}) = Cardinality(S) \/ Cardinality(S \cup {k}) = Cardinality(S) + 1)
  BY FS_AddElement
<1>2. Cardinality(S) \in Nat /\ Cardinality(S \cup {k}) \in Nat
  BY <1>1, FS_CardinalityType
<1>3. IsFiniteSet(V) /\ Cardinality(V) <= Cardinality(S \cup {k}) /\ Cardinality(V) \in Nat
  BY <1>1, FS_Subset, FS_CardinalityType
<1> QED  BY <1>1, <1>2, <1>3

\* A new entry, of requests that were nowhere, perhaps over another entry.
LEMMA InsertKeeps ==
  ASSUME NEW t, NEW L, TablesTyped(t), Apart(t, L), Queued(t),
         NEW k \in Nat, NEW e \in Entry, e.pending # <<>>, IsInjective(e.pending),
         ToSet(e.pending) \cap L = {},
         t.outw >= Cardinality(WriteKeys(t)) + (IF e.write THEN 1 ELSE 0)
  PROVE  TablesInv(Insert(t, k, e), L \cup ToSet(e.pending))
<1> DEFINE u == Insert(t, k, e)
           M == L \cup ToSet(e.pending)
<1>1. /\ u.wb = t.wb /\ u.outw = t.outw /\ u.nand = t.nand /\ u.queue = Append(t.queue, k)
      /\ u.mshr = Put(t.mshr, k, e) /\ TableRecord(u)
  <2>1. TableRecord(t)
    BY DEF TablesTyped
  <2> HIDE DEF u
  <2> QED  BY <2>1, PutEntry DEF u
<1>2. /\ DOMAIN u.mshr = DOMAIN t.mshr \cup {k} /\ u.mshr[k] = e
      /\ \A j \in DOMAIN t.mshr : j # k => u.mshr[j] = t.mshr[j]
      /\ u.mshr = [j \in DOMAIN u.mshr |-> u.mshr[j]]
  <2> HIDE DEF u
  <2> QED  BY <1>1 DEF Put
<1> HIDE DEF u
<1>3. t.queue \in Seq(Nat) /\ Append(t.queue, k) \in Seq(Nat)
      /\ ToSet(u.queue) = ToSet(t.queue) \cup {k}
  <2>1. t.queue \in Seq(Nat)
    BY DEF TablesTyped
  <2> QED  BY <1>1, <2>1, AppendElements
<1>4. TablesTyped(u)
  <2>1. IsFiniteSet(DOMAIN t.mshr \cup {k})
    BY FS_AddElement DEF TablesTyped
  <2>2. \A j \in DOMAIN u.mshr : u.mshr[j] \in Entry /\ u.mshr[j].pending # <<>>
    BY <1>2 DEF TablesTyped
  <2>3. DOMAIN u.mshr \subseteq Nat
    BY <1>2 DEF TablesTyped
  <2> QED  BY <1>1, <1>2, <1>3, <2>1, <2>2, <2>3 DEF TablesTyped
<1>5. Apart(u, M)
  <2>1. ASSUME NEW p \in LogicalPage
        PROVE  /\ IsInjective(u.wb[p])
               /\ \A r \in ToSet(u.wb[p]) : r \in M /\ ReqPage[r] = p
    BY <1>1 DEF Apart
  <2>2. ASSUME NEW j \in DOMAIN u.mshr
        PROVE  IsInjective(u.mshr[j].pending) /\ ToSet(u.mshr[j].pending) \subseteq M
    BY <1>2 DEF Apart
  <2>3. ASSUME NEW p \in LogicalPage, NEW j \in DOMAIN u.mshr, NEW r \in ToSet(u.wb[p])
        PROVE  r \notin ToSet(u.mshr[j].pending)
    <3>1. r \in L /\ r \in ToSet(t.wb[p])
      BY <1>1 DEF Apart
    <3> QED  BY <3>1, <1>2 DEF Apart
  <2>4. ASSUME NEW i \in DOMAIN u.mshr, NEW j \in DOMAIN u.mshr, i # j,
               NEW r \in ToSet(u.mshr[i].pending)
        PROVE  r \notin ToSet(u.mshr[j].pending)
    <3>1. CASE i = k
      <4>1. r \notin L /\ j \in DOMAIN t.mshr /\ u.mshr[j] = t.mshr[j]
        BY <3>1, <2>4, <1>2
      <4> QED  BY <4>1 DEF Apart
    <3>2. CASE i # k
      <4>1. i \in DOMAIN t.mshr /\ r \in ToSet(t.mshr[i].pending) /\ r \in L
        BY <3>2, <2>4, <1>2 DEF Apart
      <4>2. CASE j = k
        BY <4>1, <4>2, <1>2
      <4>3. CASE j # k
        <5>1. j \in DOMAIN t.mshr /\ u.mshr[j] = t.mshr[j]
          BY <4>3, <1>2
        <5> QED  BY <4>1, <5>1, <2>4 DEF Apart
      <4> QED  BY <4>2, <4>3
    <3> QED  BY <3>1, <3>2
  <2> HIDE DEF M
  <2> QED  BY <2>1, <2>2, <2>3, <2>4 DEF Apart
<1>6. Queued(u)
  BY <1>2, <1>3 DEF Queued
<1>7. u.outw >= Cardinality(WriteKeys(u))
  <2> DEFINE W == WriteKeys(t)
             V == WriteKeys(u)
  <2>1. IsFiniteSet(W) /\ Cardinality(W) \in Nat
    <3>1. W \subseteq DOMAIN t.mshr /\ IsFiniteSet(DOMAIN t.mshr)
      BY DEF TablesTyped, WriteKeys
    <3> HIDE DEF W
    <3> QED  BY <3>1, FS_Subset, FS_CardinalityType
  <2>2. t.outw \in Nat /\ u.outw = t.outw
    BY <1>1 DEF TablesTyped
  <2>3. CASE e.write
    <3>1. V \subseteq W \cup {k}
      BY <1>2 DEF WriteKeys
    <3>2. t.outw >= Cardinality(W) + 1
      BY <2>3
    <3> HIDE DEF V, W
    <3>3. Cardinality(V) \in Nat /\ Cardinality(V) <= Cardinality(W) + 1
      BY <2>1, <3>1, OneMore
    <3>4. u.outw >= Cardinality(V)
      BY <2>1, <2>2, <3>2, <3>3
    <3> QED  BY <3>4 DEF V
  <2>4. CASE ~e.write
    <3>1. V \subseteq W
      BY <2>4, <1>2 DEF WriteKeys
    <3>2. t.outw >= Cardinality(W)
      BY <2>4, <2>1
    <3> HIDE DEF V, W
    <3>4. Cardinality(V) <= Cardinality(W) /\ Cardinality(V) \in Nat
      BY <3>1, <2>1, FS_Subset, FS_CardinalityType
    <3>5. u.outw >= Cardinality(V)
      BY <2>1, <2>2, <3>2, <3>4
    <3> QED  BY <3>5 DEF V
  <2> QED  BY <2>3, <2>4
<1> QED  BY <1>4, <1>5, <1>6, <1>7 DEF TablesInv, u

\* Tables are what their fields are.
LEMMA SameTables ==
  ASSUME NEW t, NEW u, TableRecord(t), TableRecord(u), t.wb = u.wb, t.mshr = u.mshr,
         t.queue = u.queue, t.outw = u.outw, t.nand = u.nand
  PROVE  t = u
  BY DEF TableRecord

\* A page leaves the buffer, and one more write is counted.
Freed(t, p) == [t EXCEPT !.wb[p] = <<>>, !.outw = @ + 1]

LEMMA FreedTables ==
  ASSUME NEW t, TablesTyped(t), NEW p \in LogicalPage
  PROVE  LET u == Freed(t, p)
         IN /\ TablesTyped(u) /\ u.mshr = t.mshr /\ u.queue = t.queue /\ u.nand = t.nand
            /\ u.outw = t.outw + 1
            /\ \A q \in LogicalPage : u.wb[q] = IF q = p THEN <<>> ELSE t.wb[q]
<1> DEFINE w == [t.wb EXCEPT ![p] = <<>>]
           n == t.outw + 1
           v == [t EXCEPT !.wb = w]
           u == [t EXCEPT !.wb = w, !.outw = n]
<1>1. Freed(t, p) = u
  BY DEF Freed
<1>0. TableRecord(t) /\ t.wb \in [LogicalPage -> Seq(Req)] /\ t.outw \in Nat
  BY DEF TablesTyped
<1>2. w \in [LogicalPage -> Seq(Req)] /\ n \in Nat
      /\ \A q \in LogicalPage : w[q] = IF q = p THEN <<>> ELSE t.wb[q]
  BY <1>0
<1> HIDE DEF w, n
<1>3. u.wb = w /\ u.outw = n /\ u.nand = t.nand /\ u.queue = t.queue /\ u.mshr = t.mshr
  BY <1>0 DEF TableRecord
<1>4. TableRecord(v) /\ u = [v EXCEPT !.outw = n]
  BY <1>0, TablesStay
<1> HIDE DEF v, u
<1>5. TableRecord(u)
  BY <1>4, TablesStay
<1>6. TablesTyped(u)
  BY <1>2, <1>3, <1>5 DEF TablesTyped
<1> QED  BY <1>1, <1>2, <1>3, <1>6 DEF n

LEMMA FreedKeeps ==
  ASSUME NEW t, NEW L, TablesInv(t, L), NEW p \in LogicalPage
  PROVE  LET u == Freed(t, p)
         IN /\ TablesTyped(u) /\ Apart(u, L \ ToSet(t.wb[p])) /\ Queued(u)
            /\ u.outw >= Cardinality(WriteKeys(u)) + 1
<1> DEFINE u == Freed(t, p)
           B == ToSet(t.wb[p])
<1>0. /\ TablesTyped(t) /\ Apart(t, L) /\ Queued(t) /\ t.outw >= Cardinality(WriteKeys(t))
      /\ t.outw \in Nat
  BY DEF TablesInv, TablesTyped
<1>1. /\ TablesTyped(u) /\ u.mshr = t.mshr /\ u.queue = t.queue /\ u.outw = t.outw + 1
      /\ \A q \in LogicalPage : u.wb[q] = IF q = p THEN <<>> ELSE t.wb[q]
  BY <1>0, FreedTables
<1> HIDE DEF u
<1>2. Queued(u)
  BY <1>0, <1>1 DEF Queued
<1>3. u.outw >= Cardinality(WriteKeys(u)) + 1
  <2> DEFINE c == Cardinality(WriteKeys(t))
  <2>1. WriteKeys(u) = WriteKeys(t)
    BY <1>1 DEF WriteKeys
  <2>2. c \in Nat
    <3>1. WriteKeys(t) \subseteq DOMAIN t.mshr /\ IsFiniteSet(DOMAIN t.mshr)
      BY <1>0 DEF WriteKeys, TablesTyped
    <3> QED  BY <3>1, FS_Subset, FS_CardinalityType
  <2>3. t.outw >= c /\ Cardinality(WriteKeys(u)) = c
    BY <1>0, <2>1
  <2> HIDE DEF c
  <2> QED  BY <1>0, <1>1, <2>2, <2>3
<1>4. Apart(u, L \ B)
  <2>1. IsInjective(<<>>) /\ ToSet(<<>>) = {}
    BY DEF IsInjective, ToSet
  <2>2. ASSUME NEW q \in LogicalPage
        PROVE  /\ IsInjective(u.wb[q])
               /\ \A r \in ToSet(u.wb[q]) :
                    r \in L /\ ReqPage[r] = q /\ r \notin B /\ r \in ToSet(t.wb[q])
    <3>1. CASE q = p
      BY <3>1, <2>1, <1>1
    <3>2. CASE q # p
      <4>1. u.wb[q] = t.wb[q]
        BY <3>2, <1>1
      <4>2. \A r \in ToSet(t.wb[q]) : r \in L /\ ReqPage[r] = q
        BY <1>0 DEF Apart
      <4>3. \A r \in B : ReqPage[r] = p
        BY <1>0 DEF Apart
      <4>4. IsInjective(t.wb[q])
        BY <1>0 DEF Apart
      <4> HIDE DEF B
      <4> QED  BY <4>1, <4>2, <4>3, <4>4, <3>2
    <3> QED  BY <3>1, <3>2
  <2>3. ASSUME NEW k \in DOMAIN u.mshr
        PROVE  IsInjective(u.mshr[k].pending) /\ ToSet(u.mshr[k].pending) \subseteq L \ B
    BY <1>0, <1>1 DEF Apart
  <2>4. ASSUME NEW q \in LogicalPage, NEW k \in DOMAIN u.mshr, NEW r \in ToSet(u.wb[q])
        PROVE  r \notin ToSet(u.mshr[k].pending)
    BY <2>2, <1>0, <1>1 DEF Apart
  <2>5. ASSUME NEW j \in DOMAIN u.mshr, NEW k \in DOMAIN u.mshr, j # k,
               NEW r \in ToSet(u.mshr[j].pending)
        PROVE  r \notin ToSet(u.mshr[k].pending)
    BY <2>5, <1>0, <1>1 DEF Apart
  <2> HIDE DEF B
  <2> QED  BY <2>2, <2>3, <2>4, <2>5 DEF Apart
<1> QED  BY <1>1, <1>2, <1>3, <1>4 DEF u

\* What flush_write_buffer_entry() makes of the tables when it flushes.
WriteEntry(t, p) == [page |-> p, write |-> TRUE, pending |-> t.wb[p], op |-> "waiting"]
Flushed(t, p, n) ==
  [Insert(t, Key(p, n), WriteEntry(t, p)) EXCEPT !.wb[p] = <<>>, !.outw = @ + 1]

LEMMA FlushedKeeps ==
  ASSUME NEW t, NEW L, TablesInv(t, L), NEW p \in LogicalPage, t.wb[p] # <<>>,
         NEW n \in 0 .. Cardinality(Req)
  PROVE  TablesInv(Flushed(t, p, n), L)
<1> DEFINE k == Key(p, n)
           e == WriteEntry(t, p)
           f == Freed(t, p)
           a == Insert(t, k, e)
           b == Freed(a, p)
           c == Insert(f, k, e)
           B == ToSet(t.wb[p])
<1>0. TablesTyped(t) /\ Apart(t, L) /\ TableRecord(t) /\ t.wb[p] \in Seq(Req)
      /\ t.wb \in [LogicalPage -> Seq(Req)]
  BY DEF TablesInv, TablesTyped
<1>1. Flushed(t, p, n) = b
  BY DEF Flushed, Freed
<1>2. k \in Nat
  BY NoCoalesceAssumption DEF Key
<1>3. e \in Entry /\ e.pending = t.wb[p] /\ e.write
  BY <1>0 DEF WriteEntry, Entry
<1>4. IsInjective(t.wb[p]) /\ B \subseteq L
  BY <1>0 DEF Apart
<1> HIDE DEF k, e
<1>5. /\ TablesTyped(f) /\ Apart(f, L \ B) /\ Queued(f)
      /\ f.outw >= Cardinality(WriteKeys(f)) + 1
      /\ f.mshr = t.mshr /\ f.queue = t.queue /\ f.nand = t.nand /\ f.outw = t.outw + 1
      /\ f.wb = [t.wb EXCEPT ![p] = <<>>]
  <2>1. /\ TablesTyped(f) /\ Apart(f, L \ B) /\ Queued(f)
        /\ f.outw >= Cardinality(WriteKeys(f)) + 1
    BY FreedKeeps
  <2>2. /\ f.mshr = t.mshr /\ f.queue = t.queue /\ f.nand = t.nand /\ f.outw = t.outw + 1
    BY <1>0, FreedTables
  <2>3. f.wb = [t.wb EXCEPT ![p] = <<>>]
    BY <1>0 DEF TableRecord, Freed
  <2> QED  BY <2>1, <2>2, <2>3
<1> HIDE DEF f
<1>6. TablesInv(c, L)
  <2>1. (L \ B) \cup ToSet(e.pending) = L /\ ToSet(e.pending) \cap (L \ B) = {}
    BY <1>3, <1>4
  <2>2. f.outw >= Cardinality(WriteKeys(f)) + (IF e.write THEN 1 ELSE 0)
    BY <1>3, <1>5
  <2>3. TablesInv(c, (L \ B) \cup ToSet(e.pending))
    <3> HIDE DEF c, B
    <3> QED  BY <1>2, <1>3, <1>4, <1>5, <2>1, <2>2, InsertKeeps DEF c
  <2> QED  BY <2>1, <2>3
<1>7. b = c
  <2>1. /\ a.wb = t.wb /\ a.outw = t.outw /\ a.nand = t.nand
        /\ a.queue = Append(t.queue, k) /\ a.mshr = Put(t.mshr, k, e) /\ TableRecord(a)
    BY <1>0, PutEntry
  <2>2. /\ c.wb = f.wb /\ c.outw = f.outw /\ c.nand = f.nand
        /\ c.queue = Append(f.queue, k) /\ c.mshr = Put(f.mshr, k, e) /\ TableRecord(c)
    BY <1>5, PutEntry DEF TablesTyped
  <2> HIDE DEF a, c
  <2> DEFINE w == [a.wb EXCEPT ![p] = <<>>]
             m == a.outw + 1
             v == [a EXCEPT !.wb = w]
  <2>3. b = [a EXCEPT !.wb = w, !.outw = m]
    BY DEF Freed
  <2>4. b = [v EXCEPT !.outw = m]
    BY <2>3
  <2> HIDE DEF b
  <2>5. b.wb = w /\ b.outw = m /\ b.nand = a.nand /\ b.queue = a.queue /\ b.mshr = a.mshr
    <3> HIDE DEF w, m
    <3> QED  BY <2>1, <2>3 DEF TableRecord
  <2>6. TableRecord(b)
    <3> HIDE DEF w, m
    <3>1. TableRecord(v)
      BY <2>1, TablesStay
    <3> HIDE DEF v
    <3> QED  BY <3>1, <2>4, TablesStay
  <2>7. b.wb = c.wb /\ b.outw = c.outw
    BY <2>1, <2>2, <2>5, <1>5
  <2>8. b.mshr = c.mshr /\ b.queue = c.queue /\ b.nand = c.nand
    BY <2>1, <2>2, <2>5, <1>5
  <2> QED  BY <2>2, <2>6, <2>7, <2>8, SameTables
<1> QED  BY <1>1, <1>6, <1>7

\* A write joins the buffer.
LEMMA BufferKeeps ==
  ASSUME NEW t, NEW L, TablesInv(t, L), NEW r \in Req, r \notin L
  PROVE  LET p == ReqPage[r]
             u == [t EXCEPT !.wb[p] = Append(@, r)]
         IN TablesInv(u, L \cup {r}) /\ p \in LogicalPage /\ u.wb[p] = Append(t.wb[p], r)
<1> DEFINE p == ReqPage[r]
           w == [t.wb EXCEPT ![p] = Append(t.wb[p], r)]
           u == [t EXCEPT !.wb = w]
           M == L \cup {r}
<1>1. [t EXCEPT !.wb[p] = Append(@, r)] = u
  OBVIOUS
<1>0. /\ TablesTyped(t) /\ Apart(t, L) /\ Queued(t) /\ t.outw >= Cardinality(WriteKeys(t))
      /\ TableRecord(t) /\ t.wb \in [LogicalPage -> Seq(Req)] /\ p \in LogicalPage
  BY NoCoalesceAssumption DEF TablesInv, TablesTyped
<1>2. /\ t.wb[p] \in Seq(Req) /\ Append(t.wb[p], r) \in Seq(Req)
      /\ ToSet(Append(t.wb[p], r)) = ToSet(t.wb[p]) \cup {r}
      /\ IsInjective(Append(t.wb[p], r))
  <2>1. t.wb[p] \in Seq(Req)
    BY <1>0
  <2>2. IsInjective(t.wb[p]) /\ r \notin ToSet(t.wb[p])
    BY <1>0 DEF Apart
  <2> QED  BY <2>1, <2>2, AppendElements
<1>3. w \in [LogicalPage -> Seq(Req)]
      /\ \A q \in LogicalPage : w[q] = IF q = p THEN Append(t.wb[p], r) ELSE t.wb[q]
  BY <1>0, <1>2
<1> HIDE DEF w, p
<1>4. u.wb = w /\ u.mshr = t.mshr /\ u.queue = t.queue /\ u.outw = t.outw /\ u.nand = t.nand
  BY <1>0 DEF TableRecord
<1>5. TableRecord(u)
  BY <1>0, TablesStay
<1> HIDE DEF u
<1>6. TablesTyped(u)
  BY <1>0, <1>3, <1>4, <1>5 DEF TablesTyped
<1>7. Queued(u) /\ u.outw >= Cardinality(WriteKeys(u))
  BY <1>0, <1>4 DEF Queued, WriteKeys
<1>8. Apart(u, M)
  <2>1. ASSUME NEW q \in LogicalPage
        PROVE  IsInjective(u.wb[q]) /\ \A s \in ToSet(u.wb[q]) : s \in M /\ ReqPage[s] = q
    <3>1. CASE q = p
      <4>1. u.wb[q] = Append(t.wb[p], r) /\ ReqPage[r] = q
        BY <3>1, <1>3, <1>4 DEF p
      <4>2. \A s \in ToSet(t.wb[p]) : s \in L /\ ReqPage[s] = p
        BY <1>0 DEF Apart
      <4> QED  BY <4>1, <4>2, <1>2, <3>1
    <3>2. CASE q # p
      <4>1. u.wb[q] = t.wb[q]
        BY <3>2, <1>3, <1>4
      <4> QED  BY <4>1, <1>0 DEF Apart
    <3> QED  BY <3>1, <3>2
  <2>2. ASSUME NEW k \in DOMAIN u.mshr
        PROVE  IsInjective(u.mshr[k].pending) /\ ToSet(u.mshr[k].pending) \subseteq M
    BY <1>0, <1>4 DEF Apart
  <2>3. ASSUME NEW q \in LogicalPage, NEW k \in DOMAIN u.mshr, NEW s \in ToSet(u.wb[q])
        PROVE  s \notin ToSet(u.mshr[k].pending)
    <3>1. CASE s = r
      <4>1. ToSet(t.mshr[k].pending) \subseteq L
        BY <1>0, <1>4 DEF Apart
      <4> QED  BY <4>1, <3>1, <1>4
    <3>2. CASE s # r
      <4>1. s \in ToSet(t.wb[q])
        BY <3>2, <2>3, <1>2, <1>3, <1>4
      <4> QED  BY <4>1, <1>0, <1>4 DEF Apart
    <3> QED  BY <3>1, <3>2
  <2>4. ASSUME NEW j \in DOMAIN u.mshr, NEW k \in DOMAIN u.mshr, j # k,
               NEW s \in ToSet(u.mshr[j].pending)
        PROVE  s \notin ToSet(u.mshr[k].pending)
    BY <2>4, <1>0, <1>4 DEF Apart
  <2> HIDE DEF M
  <2> QED  BY <2>1, <2>2, <2>3, <2>4 DEF Apart
<1>9. u.wb[p] = Append(t.wb[p], r)
  BY <1>0, <1>3, <1>4
<1> QED  BY <1>0, <1>1, <1>6, <1>7, <1>8, <1>9 DEF TablesInv, p

\* The requests that wait in an entry change.
LEMMA PendingKeeps ==
  ASSUME NEW t, NEW L, TablesInv(t, L), NEW k \in DOMAIN t.mshr,
         NEW s \in Seq(Req), s # <<>>, IsInjective(s),
         ToSet(s) \cap (L \ ToSet(t.mshr[k].pending)) = {}
  PROVE  TablesInv([t EXCEPT !.mshr[k].pending = s],
                   (L \ ToSet(t.mshr[k].pending)) \cup ToSet(s))
<1> DEFINE e == [t.mshr[k] EXCEPT !.pending = s]
           m == [t.mshr EXCEPT ![k] = e]
           u == [t EXCEPT !.mshr = m]
           old == ToSet(t.mshr[k].pending)
           M == (L \ old) \cup ToSet(s)
<1>1. [t EXCEPT !.mshr[k].pending = s] = u
  OBVIOUS
<1>0. /\ TablesTyped(t) /\ Apart(t, L) /\ Queued(t) /\ t.outw >= Cardinality(WriteKeys(t))
      /\ TableRecord(t) /\ t.mshr[k] \in Entry
      /\ t.mshr = [j \in DOMAIN t.mshr |-> t.mshr[j]]
  BY DEF TablesInv, TablesTyped
<1>2. e \in Entry /\ e.pending = s /\ e.write = t.mshr[k].write /\ e.op = t.mshr[k].op
  BY <1>0 DEF Entry
<1>3. /\ DOMAIN m = DOMAIN t.mshr /\ m = [j \in DOMAIN m |-> m[j]]
      /\ \A j \in DOMAIN t.mshr : m[j] = IF j = k THEN e ELSE t.mshr[j]
  <2> HIDE DEF e
  <2> QED  BY <1>0
<1> HIDE DEF e, m
<1>4. u.wb = t.wb /\ u.mshr = m /\ u.queue = t.queue /\ u.outw = t.outw /\ u.nand = t.nand
  BY <1>0 DEF TableRecord
<1>5. TableRecord(u)
  BY <1>0, TablesStay
<1> HIDE DEF u
<1>6. TablesTyped(u)
  <2>1. \A j \in DOMAIN u.mshr : u.mshr[j] \in Entry /\ u.mshr[j].pending # <<>>
    BY <1>0, <1>2, <1>3, <1>4 DEF TablesTyped
  <2>2. DOMAIN u.mshr \subseteq Nat /\ IsFiniteSet(DOMAIN u.mshr)
        /\ u.mshr = [j \in DOMAIN u.mshr |-> u.mshr[j]]
    BY <1>0, <1>3, <1>4 DEF TablesTyped
  <2> QED  BY <1>0, <1>4, <1>5, <2>1, <2>2 DEF TablesTyped
<1>7. Queued(u)
  BY <1>0, <1>2, <1>3, <1>4 DEF Queued
<1>8. u.outw >= Cardinality(WriteKeys(u))
  <2>1. WriteKeys(u) = WriteKeys(t)
    BY <1>2, <1>3, <1>4 DEF WriteKeys
  <2> QED  BY <2>1, <1>0, <1>4
<1>9. Apart(u, M)
  <2>1. ASSUME NEW p \in LogicalPage
        PROVE  /\ IsInjective(u.wb[p])
               /\ \A r \in ToSet(u.wb[p]) : r \in M /\ r \in L \ old /\ ReqPage[r] = p
    BY <1>0, <1>4 DEF Apart
  <2>2. ASSUME NEW j \in DOMAIN u.mshr
        PROVE  IsInjective(u.mshr[j].pending) /\ ToSet(u.mshr[j].pending) \subseteq M
    <3>1. CASE j = k
      BY <3>1, <1>2, <1>3, <1>4
    <3>2. CASE j # k
      <4>1. u.mshr[j] = t.mshr[j] /\ j \in DOMAIN t.mshr
        BY <3>2, <1>3, <1>4
      <4>2. \A r \in ToSet(t.mshr[j].pending) : r \in L /\ r \notin old
        BY <3>2, <4>1, <1>0 DEF Apart
      <4>3. IsInjective(t.mshr[j].pending)
        BY <4>1, <1>0 DEF Apart
      <4> QED  BY <4>1, <4>2, <4>3
    <3> QED  BY <3>1, <3>2
  <2>3. ASSUME NEW p \in LogicalPage, NEW j \in DOMAIN u.mshr, NEW r \in ToSet(u.wb[p])
        PROVE  r \notin ToSet(u.mshr[j].pending)
    <3>1. CASE j = k
      <4>1. r \in L \ old
        BY <2>1
      <4> QED  BY <3>1, <4>1, <1>2, <1>3, <1>4
    <3>2. CASE j # k
      BY <3>2, <1>0, <1>3, <1>4 DEF Apart
    <3> QED  BY <3>1, <3>2
  <2>4. ASSUME NEW i \in DOMAIN u.mshr, NEW j \in DOMAIN u.mshr, i # j,
               NEW r \in ToSet(u.mshr[i].pending)
        PROVE  r \notin ToSet(u.mshr[j].pending)
    <3>1. CASE i = k
      <4>1. r \in ToSet(s) /\ u.mshr[j] = t.mshr[j] /\ j \in DOMAIN t.mshr
        BY <3>1, <2>4, <1>2, <1>3, <1>4
      <4>2. \A q \in ToSet(t.mshr[j].pending) : q \in L /\ q \notin old
        BY <3>1, <2>4, <4>1, <1>0 DEF Apart
      <4> QED  BY <4>1, <4>2
    <3>2. CASE i # k
      <4>1. i \in DOMAIN t.mshr /\ r \in ToSet(t.mshr[i].pending)
        BY <3>2, <2>4, <1>3, <1>4
      <4>2. r \in L /\ r \notin old
        BY <3>2, <4>1, <1>0 DEF Apart
      <4>3. CASE j = k
        BY <4>2, <4>3, <1>2, <1>3, <1>4
      <4>4. CASE j # k
        BY <4>1, <4>4, <2>4, <1>0, <1>3, <1>4 DEF Apart
      <4> QED  BY <4>3, <4>4
    <3> QED  BY <3>1, <3>2
  <2> HIDE DEF M
  <2> QED  BY <2>1, <2>2, <2>3, <2>4 DEF Apart
<1> QED  BY <1>1, <1>6, <1>7, <1>8, <1>9 DEF TablesInv

\* Entries go on, with the requests they have.
Progress(f, m, q) ==
  /\ DOMAIN m = DOMAIN f /\ m = [k \in DOMAIN m |-> m[k]]
  /\ \A k \in DOMAIN m : /\ m[k] \in Entry /\ m[k].pending = f[k].pending
                         /\ m[k].write = f[k].write
                         /\ m[k].op = "waiting" => k \in ToSet(q)

LEMMA ProgressKeeps ==
  ASSUME NEW t, NEW L, TablesInv(t, L), NEW m, NEW q \in Seq(Nat), Progress(t.mshr, m, q),
         NEW d, d \subseteq Subarray
  PROVE  TablesInv([t EXCEPT !.mshr = m, !.queue = q, !.nand = d], L)
<1> DEFINE v == [t EXCEPT !.mshr = m]
           w == [v EXCEPT !.queue = q]
           u == [t EXCEPT !.mshr = m, !.queue = q, !.nand = d]
<1>0. /\ TablesTyped(t) /\ Apart(t, L) /\ t.outw >= Cardinality(WriteKeys(t)) /\ TableRecord(t)
  BY DEF TablesInv, TablesTyped
<1>1. u.wb = t.wb /\ u.mshr = m /\ u.queue = q /\ u.outw = t.outw /\ u.nand = d
  BY <1>0 DEF TableRecord
<1>10. /\ DOMAIN m = DOMAIN t.mshr /\ m = [k \in DOMAIN m |-> m[k]]
      /\ \A k \in DOMAIN m : /\ m[k] \in Entry /\ m[k].pending = t.mshr[k].pending
                             /\ m[k].write = t.mshr[k].write
                             /\ m[k].op = "waiting" => k \in ToSet(q)
  BY DEF Progress
<1>2. u = [w EXCEPT !.nand = d]
  OBVIOUS
<1>3. TableRecord(v)
  BY <1>0, TablesStay
<1> HIDE DEF v, u
<1>4. TableRecord(w)
  BY <1>3, TablesStay
<1> HIDE DEF w
<1>5. TableRecord(u)
  BY <1>2, <1>4, TablesStay
<1>6. TablesTyped(u)
  BY <1>0, <1>1, <1>10, <1>5 DEF TablesTyped
<1>7. Apart(u, L)
  <2>1. \A k \in DOMAIN u.mshr :
          k \in DOMAIN t.mshr /\ u.mshr[k].pending = t.mshr[k].pending
    BY <1>1, <1>10
  <2>2. ASSUME NEW p \in LogicalPage
        PROVE  /\ IsInjective(u.wb[p])
               /\ \A r \in ToSet(u.wb[p]) : r \in L /\ ReqPage[r] = p
    BY <1>0, <1>1 DEF Apart
  <2>3. ASSUME NEW k \in DOMAIN u.mshr
        PROVE  IsInjective(u.mshr[k].pending) /\ ToSet(u.mshr[k].pending) \subseteq L
    BY <2>1, <1>0 DEF Apart
  <2>4. ASSUME NEW p \in LogicalPage, NEW k \in DOMAIN u.mshr, NEW r \in ToSet(u.wb[p])
        PROVE  r \notin ToSet(u.mshr[k].pending)
    BY <2>1, <1>0, <1>1 DEF Apart
  <2>5. ASSUME NEW j \in DOMAIN u.mshr, NEW k \in DOMAIN u.mshr, j # k,
               NEW r \in ToSet(u.mshr[j].pending)
        PROVE  r \notin ToSet(u.mshr[k].pending)
    BY <2>1, <2>5, <1>0 DEF Apart
  <2> QED  BY <2>2, <2>3, <2>4, <2>5 DEF Apart
<1>8. Queued(u)
  BY <1>1, <1>10 DEF Queued
<1>9. u.outw >= Cardinality(WriteKeys(u))
  <2>1. WriteKeys(u) = WriteKeys(t)
    BY <1>1, <1>10 DEF WriteKeys
  <2> QED  BY <2>1, <1>0, <1>1
<1> QED  BY <1>6, <1>7, <1>8, <1>9 DEF TablesInv, u

\* An entry is retired, and a write of the channel with it.
LEMMA RetireKeeps ==
  ASSUME NEW t, NEW L, TablesInv(t, L), NEW k \in DOMAIN t.mshr
  PROVE  LET n == IF t.mshr[k].write /\ t.outw > 0 THEN t.outw - 1 ELSE t.outw
         IN TablesInv([t EXCEPT !.mshr = [j \in DOMAIN @ \ {k} |-> @[j]], !.outw = n],
                      L \ ToSet(t.mshr[k].pending))
<1> DEFINE n == IF t.mshr[k].write /\ t.outw > 0 THEN t.outw - 1 ELSE t.outw
           m == [j \in (DOMAIN t.mshr) \ {k} |-> t.mshr[j]]
           v == [t EXCEPT !.mshr = m]
           u == [t EXCEPT !.mshr = m, !.outw = n]
           old == ToSet(t.mshr[k].pending)
           W == WriteKeys(t)
<1>0. /\ TablesTyped(t) /\ Apart(t, L) /\ Queued(t) /\ t.outw >= Cardinality(W)
      /\ TableRecord(t) /\ t.outw \in Nat /\ IsFiniteSet(DOMAIN t.mshr)
  BY DEF TablesInv, TablesTyped
<1>1. [t EXCEPT !.mshr = [j \in DOMAIN @ \ {k} |-> @[j]], !.outw = n] = u
  OBVIOUS
<1>2. /\ DOMAIN m = (DOMAIN t.mshr) \ {k} /\ m = [j \in DOMAIN m |-> m[j]]
      /\ \A j \in DOMAIN m : m[j] = t.mshr[j] /\ j \in DOMAIN t.mshr /\ j # k
  OBVIOUS
<1>3. IsFiniteSet(W) /\ Cardinality(W) \in Nat
  <2>1. W \subseteq DOMAIN t.mshr
    BY DEF WriteKeys
  <2> QED  BY <1>0, <2>1, FS_Subset, FS_CardinalityType
<1>4. n \in Nat /\ n >= Cardinality(W \ {k})
  <2>1. CASE k \in W
    <3>1. t.mshr[k].write
      BY <2>1 DEF WriteKeys
    <3> HIDE DEF W
    <3>2. Cardinality(W \ {k}) = Cardinality(W) - 1 /\ Cardinality(W \ {k}) \in Nat
      BY <1>3, <2>1, FS_RemoveElement, FS_CardinalityType
    <3>3. t.outw > 0
      BY <1>0, <1>3, <3>2
    <3>4. n = t.outw - 1
      BY <3>1, <3>3
    <3> HIDE DEF n
    <3> QED  BY <1>0, <1>3, <3>2, <3>3, <3>4
  <2>2. CASE k \notin W
    <3>1. ~t.mshr[k].write
      BY <2>2 DEF WriteKeys
    <3>2. n = t.outw /\ W \ {k} = W
      BY <2>2, <3>1
    <3> HIDE DEF n, W
    <3> QED  BY <1>0, <3>2
  <2> QED  BY <2>1, <2>2
<1> HIDE DEF n, m
<1>5. u.wb = t.wb /\ u.mshr = m /\ u.queue = t.queue /\ u.outw = n /\ u.nand = t.nand
  BY <1>0 DEF TableRecord
<1>6. TableRecord(v) /\ u = [v EXCEPT !.outw = n]
  BY <1>0, TablesStay
<1> HIDE DEF u, v
<1>7. TableRecord(u)
  BY <1>6, TablesStay
<1>8. TablesTyped(u)
  <2>1. IsFiniteSet(DOMAIN u.mshr) /\ DOMAIN u.mshr \subseteq Nat
    BY <1>0, <1>2, <1>5, FS_RemoveElement, FS_Subset DEF TablesTyped
  <2>2. \A j \in DOMAIN u.mshr : u.mshr[j] \in Entry /\ u.mshr[j].pending # <<>>
    BY <1>0, <1>2, <1>5 DEF TablesTyped
  <2> QED  BY <1>0, <1>2, <1>4, <1>5, <1>7, <2>1, <2>2 DEF TablesTyped
<1>9. Queued(u)
  BY <1>0, <1>2, <1>5 DEF Queued
<1>10. u.outw >= Cardinality(WriteKeys(u))
  <2>1. WriteKeys(u) = W \ {k}
    BY <1>2, <1>5 DEF WriteKeys
  <2> QED  BY <2>1, <1>4, <1>5
<1>11. Apart(u, L \ old)
  <2>1. ASSUME NEW p \in LogicalPage
        PROVE  /\ IsInjective(u.wb[p])
               /\ \A r \in ToSet(u.wb[p]) : r \in L \ old /\ ReqPage[r] = p
    BY <1>0, <1>5 DEF Apart
  <2>2. ASSUME NEW j \in DOMAIN u.mshr
        PROVE  IsInjective(u.mshr[j].pending) /\ ToSet(u.mshr[j].pending) \subseteq L \ old
    <3>1. u.mshr[j] = t.mshr[j] /\ j \in DOMAIN t.mshr /\ j # k
      BY <1>2, <1>5
    <3>2. \A r \in ToSet(t.mshr[j].pending) : r \in L /\ r \notin old
      BY <3>1, <1>0 DEF Apart
    <3>3. IsInjective(t.mshr[j].pending)
      BY <3>1, <1>0 DEF Apart
    <3> QED  BY <3>1, <3>2, <3>3
  <2>3. ASSUME NEW p \in LogicalPage, NEW j \in DOMAIN u.mshr, NEW r \in ToSet(u.wb[p])
        PROVE  r \notin ToSet(u.mshr[j].pending)
    BY <1>0, <1>2, <1>5 DEF Apart
  <2>4. ASSUME NEW i \in DOMAIN u.mshr, NEW j \in DOMAIN u.mshr, i # j,
               NEW r \in ToSet(u.mshr[i].pending)
        PROVE  r \notin ToSet(u.mshr[j].pending)
    BY <2>4, <1>0, <1>2, <1>5 DEF Apart
  <2> HIDE DEF old
  <2> QED  BY <2>1, <2>2, <2>3, <2>4 DEF Apart
<1> QED  BY <1>1, <1>8, <1>9, <1>10, <1>11 DEF TablesInv, n

\* What else is in a queue stays when a position of it is left out.
LEMMA OthersQueued ==
  ASSUME NEW s \in Seq(Nat), NEW n \in DOMAIN s, NEW x \in ToSet(s), x # s[n]
  PROVE  x \in ToSet(RemoveAt(s, n))
<1> DEFINE a == SubSeq(s, 1, n - 1)
           b == SubSeq(s, n + 1, Len(s))
<1>0. Len(s) \in Nat /\ DOMAIN s = 1 .. Len(s) /\ n \in 1 .. Len(s)
      /\ n - 1 \in 0 .. Len(s) /\ n \in 0 .. Len(s)
  OBVIOUS
<1>1. a \in Seq(Nat) /\ DOMAIN a = 1 .. n - 1 /\ \A i \in 1 .. n - 1 : a[i] = s[i]
  BY <1>0, FrontOfSeq
<1>2. /\ b \in Seq(Nat) /\ DOMAIN b = 1 .. Len(s) - n
      /\ \A i \in 1 .. Len(s) - n : b[i] = s[n + i]
  BY <1>0, RestOfSeq
<1>3. RemoveAt(s, n) = a \o b
  BY DEF RemoveAt
<1>4. PICK i \in DOMAIN s : s[i] = x
  BY DEF ToSet
<1>5. x \in ToSet(a) \cup ToSet(b)
  <2>1. CASE i < n
    <3>1. i \in 1 .. n - 1
      BY <2>1, <1>0
    <3>2. a[i] = x /\ i \in DOMAIN a
      BY <3>1, <1>1, <1>4
    <3> HIDE DEF a
    <3> QED  BY <3>2 DEF ToSet
  <2>2. CASE i > n
    <3> DEFINE j == i - n
    <3>1. j \in 1 .. Len(s) - n /\ n + j = i
      BY <2>2, <1>0
    <3> HIDE DEF j
    <3>2. b[j] = x /\ j \in DOMAIN b
      BY <3>1, <1>2, <1>4
    <3> HIDE DEF b
    <3> QED  BY <3>2 DEF ToSet
  <2> QED  BY <2>1, <2>2, <1>0, <1>4
<1> HIDE DEF a, b
<1>6. ToSet(a \o b) = ToSet(a) \cup ToSet(b)
  BY <1>1, <1>2, ConcatElements
<1> QED  BY <1>3, <1>5, <1>6

\* What follows from the invariant for a step that works on the tables.
LEMMA InsideFacts ==
  ASSUME NoCoalesceIInv
  PROVE  /\ TablesInv(ctl, Inside) /\ TablesTyped(ctl) /\ TableRecord(ctl)
         /\ ctl.queue \in Seq(Nat) /\ ctl.nand \subseteq Subarray
         /\ ctl.wb \in [LogicalPage -> Seq(Req)]
         /\ IsFiniteSet(pushed) /\ Cardinality(pushed) \in 0 .. Cardinality(Req)
         /\ \A r \in Req : r \notin pushed =>
              r \notin Inside /\ Cardinality(pushed) + 1 \in 0 .. Cardinality(Req)
<1>1. IsFiniteSet(Req) /\ pushed \subseteq Req
  BY NoCoalesceAssumption DEF NoCoalesceIInv
<1>2. /\ IsFiniteSet(pushed) /\ Cardinality(pushed) \in Nat /\ Cardinality(Req) \in Nat
      /\ Cardinality(pushed) <= Cardinality(Req)
  BY <1>1, FS_Subset, FS_CardinalityType
<1>3. ASSUME NEW r \in Req, r \notin pushed
      PROVE  r \notin Inside /\ Cardinality(pushed) + 1 \in 0 .. Cardinality(Req)
  <2>1. Cardinality(pushed \cup {r}) = Cardinality(pushed) + 1
    BY <1>2, <1>3, FS_AddElement
  <2>2. pushed \cup {r} \subseteq Req
    BY <1>1
  <2>3. Cardinality(pushed \cup {r}) <= Cardinality(Req)
    BY <1>1, <2>2, FS_Subset
  <2>4. Cardinality(pushed) + 1 \in 0 .. Cardinality(Req)
    BY <1>2, <2>1, <2>3
  <2> QED  BY <1>3, <2>4 DEF Inside
<1>4. TablesInv(ctl, Inside) /\ TablesTyped(ctl)
  BY DEF NoCoalesceIInv, TablesInv
<1>5. /\ TableRecord(ctl) /\ ctl.queue \in Seq(Nat) /\ ctl.nand \subseteq Subarray
      /\ ctl.wb \in [LogicalPage -> Seq(Req)]
  BY <1>4 DEF TablesTyped
<1>6. Cardinality(pushed) \in 0 .. Cardinality(Req)
  BY <1>2
<1> QED  BY <1>2, <1>3, <1>4, <1>5, <1>6

\* A flush of the tables, when allowed, keeps them.
LEMMA FlushEntryKeeps ==
  ASSUME NEW t, NEW L, TablesInv(t, L), NEW p \in LogicalPage,
         NEW n \in 0 .. Cardinality(Req)
  PROVE  TablesInv(FlushEntry(t, p, FALSE, n), L) /\ TablesInv(FlushEntry(t, p, TRUE, n), L)
<1>1. t.wb[p] # <<>> => TablesInv(Flushed(t, p, n), L)
  BY FlushedKeeps
<1>2. \/ FlushEntry(t, p, FALSE, n) = t
      \/ FlushEntry(t, p, FALSE, n) = Flushed(t, p, n) /\ t.wb[p] # <<>>
  BY DEF FlushEntry, FlushAllowed, Flushed, WriteEntry
<1>3. \/ FlushEntry(t, p, TRUE, n) = t
      \/ FlushEntry(t, p, TRUE, n) = Flushed(t, p, n) /\ t.wb[p] # <<>>
  BY DEF FlushEntry, FlushAllowed, Flushed, WriteEntry
<1> QED  BY <1>1, <1>2, <1>3

LEMMA BufferWriteKeeps ==
  ASSUME NoCoalesceIInv, NEW r \in Req, BufferWrite(r)
  PROVE  NoCoalesceIInv'
<1> DEFINE p == ReqPage[r]
           t == [ctl EXCEPT !.wb[p] = Append(@, r)]
           n == PushCount
<1>1. /\ r \notin pushed /\ pushed' = pushed \cup {r} /\ returnq' = returnq /\ done' = done
      /\ ctl' = t \/ ctl' = FlushEntry(t, p, FALSE, n)
      /\ todo' \subseteq LogicalPage
  BY DEF BufferWrite, MayPush, BufferedPages
<1>2. r \notin Inside /\ n \in 0 .. Cardinality(Req) /\ TablesInv(ctl, Inside)
  BY <1>1, InsideFacts DEF PushCount
<1>3. TablesInv(t, Inside \cup {r}) /\ p \in LogicalPage
  BY <1>2, BufferKeeps
<1> HIDE DEF t, n, p
<1>4. TablesInv(FlushEntry(t, p, FALSE, n), Inside \cup {r})
  BY <1>2, <1>3, FlushEntryKeeps
<1>5. Inside' = Inside \cup {r}
  BY <1>1 DEF NoCoalesceIInv, Inside
<1>6. TablesInv(ctl', Inside')
  BY <1>1, <1>3, <1>4, <1>5
<1> QED  BY <1>1, <1>6 DEF NoCoalesceIInv

LEMMA EnterReadKeeps ==
  ASSUME NoCoalesceIInv, NEW r \in Req, EnterRead(r)
  PROVE  NoCoalesceIInv'
<1> DEFINE p == ReqPage[r]
           n == PushCount
           t == FlushEntry(ctl, p, TRUE, n)
           join == IF p \in BufferedPages(t) THEN Joinable(t, p) ELSE {}
           j == Min(join)
           k == Key(p, n)
           e == [page |-> p, write |-> FALSE, pending |-> <<r>>, op |-> "waiting"]
           L == Inside \cup {r}
<1>1. /\ r \notin pushed /\ pushed' = pushed \cup {r} /\ returnq' = returnq /\ done' = done
      /\ todo' = todo
      /\ \/ join # {} /\ ctl' = [t EXCEPT !.mshr[j].pending = Append(@, r)]
         \/ ctl' = Insert(t, k, e)
  BY DEF EnterRead, MayPush
<1>2. r \notin Inside /\ n \in 0 .. Cardinality(Req) /\ TablesInv(ctl, Inside)
  BY <1>1, InsideFacts DEF PushCount
<1>3. p \in LogicalPage
  BY NoCoalesceAssumption
<1>4. k \in Nat
  BY <1>2, <1>3, NoCoalesceAssumption DEF Key
<1>5. join \subseteq DOMAIN t.mshr
  BY DEF Joinable
<1>6. e \in Entry /\ e.pending = <<r>> /\ ~e.write /\ e.pending # <<>>
  BY <1>3 DEF Entry
<1>7. IsInjective(<<r>>) /\ ToSet(<<r>>) = {r}
  BY DEF IsInjective, ToSet
<1> HIDE DEF k, e, join, n, p
<1>8. TablesInv(t, Inside)
  BY <1>2, <1>3, FlushEntryKeeps
<1> HIDE DEF t
<1>9. ASSUME join # {}, ctl' = [t EXCEPT !.mshr[j].pending = Append(@, r)]
      PROVE  TablesInv(ctl', Inside \cup {r})
  <2>1. join \subseteq Nat
    BY <1>5, <1>8 DEF TablesInv, TablesTyped
  <2>2. j \in DOMAIN t.mshr
    BY <1>5, <1>9, <2>1, LeastNat
  <2> HIDE DEF j
  <2> DEFINE q == t.mshr[j].pending
             s == Append(q, r)
  <2>3. q \in Seq(Req) /\ IsInjective(q) /\ ToSet(q) \subseteq Inside
    BY <1>8, <2>2 DEF TablesInv, TablesTyped, Apart, Entry
  <2> HIDE DEF q
  <2>4. s \in Seq(Req) /\ s # <<>> /\ IsInjective(s) /\ ToSet(s) = ToSet(q) \cup {r}
    BY <1>2, <2>3, AppendElements
  <2> HIDE DEF s
  <2>5. ToSet(s) \cap (Inside \ ToSet(q)) = {} /\ (Inside \ ToSet(q)) \cup ToSet(s) = L
    BY <1>2, <2>3, <2>4
  <2>6. TablesInv([t EXCEPT !.mshr[j].pending = s], (Inside \ ToSet(q)) \cup ToSet(s))
    BY <1>8, <2>2, <2>4, <2>5, PendingKeeps DEF q
  <2>7. ctl' = [t EXCEPT !.mshr[j].pending = s]
    BY <1>9 DEF s, q
  <2> QED  BY <2>5, <2>6, <2>7
<1>10. ASSUME ctl' = Insert(t, k, e)
       PROVE  TablesInv(ctl', Inside \cup {r})
  <2>1. /\ TablesTyped(t) /\ Apart(t, Inside) /\ Queued(t)
        /\ t.outw >= Cardinality(WriteKeys(t)) /\ t.outw \in Nat
    BY <1>8 DEF TablesInv, TablesTyped
  <2>2. Cardinality(WriteKeys(t)) \in Nat
    <3>1. WriteKeys(t) \subseteq DOMAIN t.mshr /\ IsFiniteSet(DOMAIN t.mshr)
      BY <2>1 DEF WriteKeys, TablesTyped
    <3> QED  BY <3>1, FS_Subset, FS_CardinalityType
  <2>3. t.outw >= Cardinality(WriteKeys(t)) + (IF e.write THEN 1 ELSE 0)
    BY <1>6, <2>1, <2>2
  <2>4. ToSet(e.pending) = {r} /\ ToSet(e.pending) \cap Inside = {} /\ IsInjective(e.pending)
    BY <1>2, <1>6, <1>7
  <2>5. TablesInv(Insert(t, k, e), Inside \cup ToSet(e.pending))
    BY <1>4, <1>6, <2>1, <2>3, <2>4, InsertKeeps
  <2> QED  BY <2>4, <2>5, <1>10
<1>11. TablesInv(ctl', L)
  <2>1. TablesInv(ctl', Inside \cup {r})
    BY <1>1, <1>9, <1>10
  <2> QED  BY <2>1
<1>12. Inside' = L
  BY <1>1 DEF NoCoalesceIInv, Inside
<1>13. TablesInv(ctl', Inside')
  BY <1>11, <1>12
<1> QED  BY <1>1, <1>13 DEF NoCoalesceIInv

LEMMA FlushNextKeeps ==
  ASSUME NoCoalesceIInv, FlushNext
  PROVE  NoCoalesceIInv'
<1> DEFINE p == Min(todo)
<1>1. p \in LogicalPage
  <2>1. todo # {} /\ todo \subseteq Nat /\ todo \subseteq LogicalPage
    BY NoCoalesceAssumption DEF FlushNext, NoCoalesceIInv
  <2> QED  BY <2>1, LeastNat
<1>2. /\ ctl' = FlushEntry(ctl, p, FALSE, Cardinality(pushed)) /\ todo' \subseteq todo
      /\ pushed' = pushed /\ returnq' = returnq /\ done' = done
  BY DEF FlushNext
<1> HIDE DEF p
<1>3. TablesInv(ctl', Inside)
  BY <1>1, <1>2, InsideFacts, FlushEntryKeeps
<1>4. Inside' = Inside
  BY <1>2 DEF Inside
<1>5. TablesInv(ctl', Inside')
  BY <1>3, <1>4
<1> QED  BY <1>2, <1>5 DEF NoCoalesceIInv

LEMMA FlushPageKeeps ==
  ASSUME NoCoalesceIInv, NEW p \in LogicalPage, FlushPage(p)
  PROVE  NoCoalesceIInv'
<1>1. /\ ctl' = FlushEntry(ctl, p, FALSE, Cardinality(pushed)) /\ todo' = todo
      /\ pushed' = pushed /\ returnq' = returnq /\ done' = done
  BY DEF FlushPage
<1>2. TablesInv(ctl', Inside)
  BY <1>1, InsideFacts, FlushEntryKeeps
<1>3. Inside' = Inside
  BY <1>1 DEF Inside
<1>4. TablesInv(ctl', Inside')
  BY <1>2, <1>3
<1> QED  BY <1>1, <1>4 DEF NoCoalesceIInv

LEMMA IssueKeeps ==
  ASSUME NoCoalesceIInv, NEW i \in DOMAIN ctl.queue, Issue(i)
  PROVE  NoCoalesceIInv'
<1> DEFINE k == ctl.queue[i]
           e == [ctl.mshr[k] EXCEPT !.op = "active"]
           m == [ctl.mshr EXCEPT ![k] = e]
           q == RemoveAt(ctl.queue, i)
           d == ctl.nand \cup {PageSubarray[ctl.mshr[k].page]}
<1>1. /\ k \in DOMAIN ctl.mshr
      /\ ctl' = [ctl EXCEPT !.mshr = m, !.queue = q, !.nand = d]
      /\ pushed' = pushed /\ todo' = todo /\ returnq' = returnq /\ done' = done
  BY DEF Issue, Schedulable, Issued
<1>0. /\ TablesInv(ctl, Inside) /\ ctl.queue \in Seq(Nat) /\ ctl.nand \subseteq Subarray
      /\ ctl.mshr = [j \in DOMAIN ctl.mshr |-> ctl.mshr[j]]
      /\ \A j \in DOMAIN ctl.mshr : ctl.mshr[j] \in Entry
      /\ \A j \in DOMAIN ctl.mshr : ctl.mshr[j].op = "waiting" => j \in ToSet(ctl.queue)
  BY InsideFacts DEF TablesInv, TablesTyped, Queued
<1>2. /\ e \in Entry /\ e.pending = ctl.mshr[k].pending /\ e.write = ctl.mshr[k].write
      /\ e.op # "waiting"
  <2>1. ctl.mshr[k] \in Entry
    BY <1>0, <1>1
  <2> HIDE DEF k
  <2> QED  BY <2>1 DEF Entry
<1>3. d \subseteq Subarray
  <2>1. ctl.mshr[k].page \in LogicalPage
    BY <1>0, <1>1 DEF Entry
  <2> QED  BY <2>1, <1>0 DEF Subarray
<1>4. q \in Seq(Nat) /\ \A j \in ToSet(ctl.queue) : j # k => j \in ToSet(q)
  <2>1. q \in Seq(Nat)
    BY <1>0, RemoveAtElements
  <2> QED  BY <2>1, <1>0, OthersQueued
<1>5. /\ DOMAIN m = DOMAIN ctl.mshr /\ m = [j \in DOMAIN m |-> m[j]]
      /\ \A j \in DOMAIN ctl.mshr : m[j] = IF j = k THEN e ELSE ctl.mshr[j]
  <2> HIDE DEF e, k
  <2> QED  BY <1>0
<1> HIDE DEF k, e, m, q, d
<1>6. Progress(ctl.mshr, m, q)
  <2>1. ASSUME NEW j \in DOMAIN m
        PROVE  /\ m[j] \in Entry /\ m[j].pending = ctl.mshr[j].pending
               /\ m[j].write = ctl.mshr[j].write
               /\ m[j].op = "waiting" => j \in ToSet(q)
    <3>1. CASE j = k
      BY <3>1, <1>2, <1>5
    <3>2. CASE j # k
      BY <3>2, <1>0, <1>4, <1>5
    <3> QED  BY <3>1, <3>2
  <2> QED  BY <2>1, <1>5 DEF Progress
<1>7. TablesInv(ctl', Inside)
  BY <1>0, <1>1, <1>3, <1>4, <1>6, ProgressKeeps
<1>8. Inside' = Inside
  BY <1>1 DEF Inside
<1>9. TablesInv(ctl', Inside')
  BY <1>7, <1>8
<1> QED  BY <1>1, <1>9 DEF NoCoalesceIInv

LEMMA MediaDoneKeeps ==
  ASSUME NoCoalesceIInv, NEW s \in Subarray, MediaDone(s)
  PROVE  NoCoalesceIInv'
<1> DEFINE ended(k) == ctl.mshr[k].op = "active" /\ PageSubarray[ctl.mshr[k].page] = s
           m == [k \in DOMAIN ctl.mshr |->
                   IF ended(k) THEN [ctl.mshr[k] EXCEPT !.op = "deliver"] ELSE ctl.mshr[k]]
           d == ctl.nand \ {s}
           q == ctl.queue
<1>1. /\ ctl' = [ctl EXCEPT !.nand = d, !.mshr = m]
      /\ pushed' = pushed /\ todo' = todo /\ returnq' = returnq /\ done' = done
  BY DEF MediaDone
<1>0. /\ TablesInv(ctl, Inside) /\ q \in Seq(Nat) /\ d \subseteq Subarray /\ TableRecord(ctl)
      /\ \A j \in DOMAIN ctl.mshr : ctl.mshr[j] \in Entry
      /\ \A j \in DOMAIN ctl.mshr : ctl.mshr[j].op = "waiting" => j \in ToSet(q)
  BY InsideFacts DEF TablesInv, TablesTyped, Queued
<1>2. Progress(ctl.mshr, m, q)
  <2>1. DOMAIN m = DOMAIN ctl.mshr /\ m = [k \in DOMAIN m |-> m[k]]
    OBVIOUS
  <2>2. ASSUME NEW k \in DOMAIN m
        PROVE  /\ m[k] \in Entry /\ m[k].pending = ctl.mshr[k].pending
               /\ m[k].write = ctl.mshr[k].write
               /\ m[k].op = "waiting" => k \in ToSet(q)
    <3> DEFINE e == ctl.mshr[k]
    <3>1. e \in Entry /\ (e.op = "waiting" => k \in ToSet(q))
      BY <1>0, <2>1
    <3>2. m[k] = [e EXCEPT !.op = "deliver"] \/ m[k] = e
      BY <2>1
    <3> HIDE DEF e, m, q
    <3>3. CASE m[k] = [e EXCEPT !.op = "deliver"]
      BY <3>1, <3>3 DEF Entry, e
    <3>4. CASE m[k] = e
      BY <3>1, <3>4 DEF e
    <3> QED  BY <3>2, <3>3, <3>4
  <2> HIDE DEF m, q
  <2> QED  BY <2>1, <2>2 DEF Progress
<1> HIDE DEF m, d
<1>3. TablesInv([ctl EXCEPT !.mshr = m, !.queue = q, !.nand = d], Inside)
  <2> HIDE DEF q
  <2> QED  BY <1>0, <1>2, ProgressKeeps
<1>4. [ctl EXCEPT !.mshr = m, !.queue = q, !.nand = d] = [ctl EXCEPT !.nand = d, !.mshr = m]
  <2> DEFINE v1 == [ctl EXCEPT !.mshr = m]
             v2 == [v1 EXCEPT !.queue = q]
             v  == [ctl EXCEPT !.mshr = m, !.queue = q, !.nand = d]
             u1 == [ctl EXCEPT !.nand = d]
             u  == [ctl EXCEPT !.nand = d, !.mshr = m]
  <2>1. v.wb = ctl.wb /\ v.mshr = m /\ v.queue = ctl.queue /\ v.outw = ctl.outw /\ v.nand = d
    BY <1>0 DEF TableRecord
  <2>2. u.wb = ctl.wb /\ u.mshr = m /\ u.queue = ctl.queue /\ u.outw = ctl.outw /\ u.nand = d
    BY <1>0 DEF TableRecord
  <2>3. v = [v2 EXCEPT !.nand = d] /\ u = [u1 EXCEPT !.mshr = m]
    OBVIOUS
  <2>4. TableRecord(v1) /\ TableRecord(u1)
    BY <1>0, TablesStay
  <2> HIDE DEF v1, u1, v, u
  <2>5. TableRecord(v2)
    BY <2>4, TablesStay
  <2> HIDE DEF v2
  <2>6. TableRecord(v) /\ TableRecord(u)
    BY <2>3, <2>4, <2>5, TablesStay
  <2>7. v = u
    BY <2>1, <2>2, <2>6, SameTables
  <2> QED  BY <2>7 DEF v, u
<1>5. TablesInv(ctl', Inside)
  BY <1>1, <1>3, <1>4
<1>6. Inside' = Inside
  BY <1>1 DEF Inside
<1>7. TablesInv(ctl', Inside')
  BY <1>5, <1>6
<1> QED  BY <1>1, <1>7 DEF NoCoalesceIInv

LEMMA DeliverKeeps ==
  ASSUME NoCoalesceIInv, NEW k \in DOMAIN ctl.mshr, Deliver(k)
  PROVE  NoCoalesceIInv'
<1> DEFINE q == ctl.mshr[k].pending
           h == Head(q)
           s == Tail(q)
           n == IF ctl.mshr[k].write /\ ctl.outw > 0 THEN ctl.outw - 1 ELSE ctl.outw
           gone == [ctl EXCEPT !.mshr = [j \in DOMAIN @ \ {k} |-> @[j]], !.outw = n]
           less == [ctl EXCEPT !.mshr[k].pending = s]
<1>1. /\ Len(returnq) < ReturnCap /\ returnq' = Append(returnq, h)
      /\ pushed' = pushed /\ todo' = todo /\ done' = done
      /\ ctl' = IF s = <<>> THEN gone ELSE less
  BY DEF Deliver, Undelivered, Released
<1>2. /\ q \in Seq(Req) /\ q # <<>> /\ IsInjective(q) /\ ToSet(q) \subseteq Inside
      /\ TablesInv(ctl, Inside)
  BY InsideFacts DEF TablesInv, TablesTyped, Apart, Entry
<1>3. TablesInv(gone, Inside \ ToSet(q))
  <2> HIDE DEF gone, q
  <2> QED  BY <1>2, RetireKeeps DEF gone, q
<1> HIDE DEF gone
<1>4. /\ s \in Seq(Req) /\ h \in ToSet(q) /\ ToSet(s) = ToSet(q) \ {h} /\ IsInjective(s)
  <2> HIDE DEF q
  <2> QED  BY <1>2, TailElements
<1>5. s # <<>> => TablesInv(less, (Inside \ ToSet(q)) \cup ToSet(s))
  <2>1. ToSet(s) \cap (Inside \ ToSet(q)) = {}
    BY <1>4
  <2> HIDE DEF s
  <2> QED  BY <1>2, <1>4, <2>1, PendingKeeps
<1> HIDE DEF less
<1>6. s = <<>> => ToSet(s) = {}
  <2> HIDE DEF s
  <2> QED  BY <1>4, ElementsOfSeq
<1> HIDE DEF s, h, q
<1>7. TablesInv(ctl', Inside \ {h})
  <2>1. CASE s = <<>>
    <3>1. Inside \ ToSet(q) = Inside \ {h}
      BY <2>1, <1>2, <1>4, <1>6
    <3> QED  BY <2>1, <3>1, <1>1, <1>3
  <2>2. CASE s # <<>>
    <3>1. (Inside \ ToSet(q)) \cup ToSet(s) = Inside \ {h}
      BY <1>2, <1>4
    <3> QED  BY <2>2, <3>1, <1>1, <1>5
  <2> QED  BY <2>1, <2>2
<1>8. h \in Inside /\ h \in Req /\ h \in pushed /\ h \notin ToSet(returnq) /\ h \notin done
  BY <1>2, <1>4 DEF Inside, NoCoalesceIInv
<1>9. /\ returnq' \in Seq(Req) /\ Len(returnq') = Len(returnq) + 1
      /\ ToSet(returnq') = ToSet(returnq) \cup {h} /\ IsInjective(returnq')
  <2>1. returnq \in Seq(Req) /\ IsInjective(returnq)
    BY DEF NoCoalesceIInv
  <2> QED  BY <2>1, <1>1, <1>8, AppendElements
<1>10. Len(returnq') <= ReturnCap
  <2>1. Len(returnq) \in Nat /\ ReturnCap \in Nat
    BY NoCoalesceAssumption DEF NoCoalesceIInv
  <2> QED  BY <2>1, <1>1, <1>9
<1>11. Inside' = Inside \ {h}
  BY <1>1, <1>9 DEF Inside
<1>12. TablesInv(ctl', Inside')
  BY <1>7, <1>11
<1> QED  BY <1>1, <1>8, <1>9, <1>10, <1>12 DEF NoCoalesceIInv

LEMMA PopReturnKeeps ==
  ASSUME NoCoalesceIInv, PopReturn
  PROVE  NoCoalesceIInv'
<1> DEFINE h == Head(returnq)
<1>1. /\ returnq # <<>> /\ returnq' = Tail(returnq) /\ done' = done \cup {h}
      /\ pushed' = pushed /\ ctl' = ctl /\ todo' = todo
  BY DEF PopReturn
<1>2. returnq \in Seq(Req) /\ IsInjective(returnq) /\ Len(returnq) <= ReturnCap
      /\ Len(returnq) \in Nat /\ ReturnCap \in Nat
  BY NoCoalesceAssumption DEF NoCoalesceIInv
<1>3. /\ returnq' \in Seq(Req) /\ Len(returnq') = Len(returnq) - 1 /\ h \in ToSet(returnq)
      /\ ToSet(returnq') = ToSet(returnq) \ {h} /\ IsInjective(returnq')
  BY <1>1, <1>2, TailElements
<1>4. Len(returnq') <= ReturnCap
  BY <1>2, <1>3
<1> HIDE DEF h
<1>5. Inside' = Inside
  BY <1>1, <1>3 DEF Inside
<1>6. TablesInv(ctl', Inside')
  BY <1>1, <1>5 DEF NoCoalesceIInv
<1> QED  BY <1>1, <1>3, <1>4, <1>6 DEF NoCoalesceIInv

LEMMA NoCoalesceInitially == Init => NoCoalesceIInv
<1> SUFFICES ASSUME Init PROVE NoCoalesceIInv
  OBVIOUS
<1>1. /\ pushed = {} /\ todo = {} /\ returnq = <<>> /\ done = {}
      /\ ctl = [wb |-> [p \in LogicalPage |-> <<>>], mshr |-> <<>>, queue |-> <<>>,
                outw |-> 0, nand |-> {}]
  BY DEF Init
<1>2. /\ ctl.wb = [p \in LogicalPage |-> <<>>] /\ ctl.mshr = <<>> /\ ctl.queue = <<>>
      /\ ctl.outw = 0 /\ ctl.nand = {}
  BY <1>1
<1>3. IsInjective(<<>>) /\ ToSet(<<>>) = {} /\ Len(<<>>) = 0 /\ <<>> \in Seq(Req)
      /\ <<>> \in Seq(Nat) /\ DOMAIN <<>> = {}
  BY DEF IsInjective, ToSet
<1>4. DOMAIN ctl.mshr = {} /\ ctl.mshr = [k \in DOMAIN ctl.mshr |-> ctl.mshr[k]]
  BY <1>2
<1>5. TableRecord(ctl)
  BY <1>1 DEF TableRecord
<1>6. TablesTyped(ctl)
  <2>1. IsFiniteSet({})
    BY FS_EmptySet
  <2> QED  BY <1>2, <1>3, <1>4, <1>5, <2>1 DEF TablesTyped
<1>7. Apart(ctl, Inside) /\ Queued(ctl)
  BY <1>2, <1>3, <1>4 DEF Apart, Queued
<1>8. ctl.outw >= Cardinality(WriteKeys(ctl))
  <2>1. WriteKeys(ctl) = {}
    BY <1>4 DEF WriteKeys
  <2>2. Cardinality({}) = 0
    BY FS_EmptySet
  <2> QED  BY <2>1, <2>2, <1>2
<1>9. ReturnCap \in Nat
  BY NoCoalesceAssumption
<1> QED  BY <1>1, <1>3, <1>6, <1>7, <1>8, <1>9 DEF NoCoalesceIInv, TablesInv

LEMMA NoCoalesceStep == NoCoalesceIInv /\ [Next]_vars => NoCoalesceIInv'
<1> SUFFICES ASSUME NoCoalesceIInv, [Next]_vars PROVE NoCoalesceIInv'
  OBVIOUS
<1>1. CASE FlushNext
  BY <1>1, FlushNextKeeps
<1>2. CASE DeviceCycle
  BY <1>2, FlushPageKeeps, IssueKeeps, MediaDoneKeeps, DeliverKeeps DEF DeviceCycle
<1>3. CASE PushRequest
  BY <1>3, BufferWriteKeeps, EnterReadKeeps DEF PushRequest
<1>4. CASE PopReturn
  BY <1>4, PopReturnKeeps
<1>5. CASE UNCHANGED vars
  BY <1>5 DEF vars, NoCoalesceIInv, Inside
<1> QED  BY <1>1, <1>2, <1>3, <1>4, <1>5 DEF Next, Work

\* For any pages, requests, limits and whatever numbers the keys are, also when
\* an entry replaces another: no request is at two places or answered twice, no
\* entry that waits is missing from the queue, every write entry is counted.
THEOREM UncoalescedEntries == Spec => []EntriesSound
<1> QED  BY NoCoalesceInitially, NoCoalesceStep, NoCoalesceSafe, PTL DEF Spec

-----------------------------------------------------------------------------
(***************************************************************************)
(* The page buffers under the FTL, for any number of blocks, pages and     *)
(* buffers and any latencies: SubarrayInv is inductive.                    *)
(***************************************************************************)

USE SubarrayAssumption

\* The hand stays among the slots.
LEMMA NextSlot == ASSUME NEW n \in Slot PROVE (n + 1) % NumBuffers \in Slot
BY DEF Slot

\* Taking the slot at the hand keeps the types of the buffers.
LEMMA LoadTyped ==
  ASSUME SubarrayTypeOK, NEW p \in Page, Load(p)
  PROVE  buffers' \in [Slot -> Page \cup {Nothing}] /\ bufferNext' \in Slot
BY NextSlot DEF Load, SubarrayTypeOK

\* Init establishes the invariant.
LEMMA InitInv == SubarrayInit => SubarrayInv
BY DEF SubarrayInit, SubarrayInv, SubarrayTypeOK, RegistersCurrent, OneSlotPerPage,
       LastPageBuffered, BuffersReadable, Slot

\* A read that misses loads its page in one slot only; a hit changes nothing.
LEMMA ReadKeeps ==
  ASSUME SubarrayInv, NEW p \in Page, p \in written \/ p[1] \in Direct, StartRead(p)
  PROVE  SubarrayInv'
<1> USE DEF SubarrayInv
<1>1. SubarrayTypeOK'
  BY LoadTyped DEF SubarrayTypeOK, StartRead, Begin
<1>2. CASE Hit(p)
  BY <1>1, <1>2 DEF StartRead, RegistersCurrent, OneSlotPerPage,
     LastPageBuffered, BuffersReadable, Hit, Holding
<1>3. CASE ~Hit(p) /\ BufferEnabled
  <2>1. /\ buffers' = [buffers EXCEPT ![bufferNext] = p] /\ current' = current \cup {bufferNext}
        /\ last' = p /\ written' = written
        /\ \A i \in Slot : buffers[i] # p
    BY <1>3 DEF StartRead, Hit, Holding, Load
  <2>2. bufferNext \in Slot /\ buffers \in [Slot -> Page \cup {Nothing}] /\ p # Nothing
    BY DEF SubarrayTypeOK
  <2> QED
    BY <1>1, <2>1, <2>2 DEF RegistersCurrent, OneSlotPerPage,
       LastPageBuffered, BuffersReadable, Holding
<1>4. CASE ~BufferEnabled
  BY <1>1, <1>4 DEF StartRead, RegistersCurrent, OneSlotPerPage,
     LastPageBuffered, BuffersReadable, Hit, Holding, Load, SubarrayTypeOK
<1> QED BY <1>2, <1>3, <1>4

\* A page that is programmed is in no slot, as those can all be read.
LEMMA ProgramKeeps ==
  ASSUME SubarrayInv, NEW p \in Page, p \notin written, p[1] \notin Direct,
         StartProgram(p)
  PROVE  SubarrayInv'
<1> USE DEF SubarrayInv
<1>1. Holding(p) = {} /\ p # Nothing
  BY DEF Holding, BuffersReadable
<1>2. SubarrayTypeOK'
  BY LoadTyped DEF SubarrayTypeOK, StartProgram, Begin
<1>3. /\ last' = p /\ written' = written \cup {p}
      /\ current' = current \cup {bufferNext}
  BY <1>1 DEF StartProgram
<1>4. CASE BufferEnabled
  <2>1. buffers' = [buffers EXCEPT ![bufferNext] = p]
    BY <1>4 DEF StartProgram, Load
  <2>2. bufferNext \in Slot /\ buffers \in [Slot -> Page \cup {Nothing}]
    BY DEF SubarrayTypeOK
  <2> QED
    BY <1>1, <1>2, <1>3, <2>1, <2>2 DEF RegistersCurrent, OneSlotPerPage,
       LastPageBuffered, BuffersReadable, Holding
<1>5. CASE ~BufferEnabled
  BY <1>2, <1>3, <1>5 DEF StartProgram, RegistersCurrent, OneSlotPerPage,
     LastPageBuffered, BuffersReadable, Load
<1> QED BY <1>4, <1>5

\* An erase drops the pages of its block from the slots and no other.
LEMMA EraseKeeps ==
  ASSUME SubarrayInv, NEW b \in Block \ Direct, StartErase(b)
  PROVE  SubarrayInv'
<1> USE DEF SubarrayInv
<1>1. /\ buffers' = [i \in Slot |-> IF i \in Dropped(b) THEN Nothing ELSE buffers[i]]
      /\ current' = current \ {i \in Slot : buffers[i] \in {b} \X Offset}
      /\ last' = IF last \in {b} \X Offset THEN Nothing ELSE last
      /\ written' = written \ ({b} \X Offset)
  BY DEF StartErase
<1>2. buffers \in [Slot -> Page \cup {Nothing}]
  BY DEF SubarrayTypeOK
<1>3. ASSUME NEW q \in Page PROVE q \in {b} \X Offset <=> q[1] = b
  BY DEF Page
<1>4. \A i \in Slot : i \in Dropped(b) <=> buffers[i] \in {b} \X Offset
  BY <1>2, <1>3 DEF Dropped, Page
<1>5. SubarrayTypeOK'
  BY <1>1, <1>2 DEF SubarrayTypeOK, StartErase, Begin
<1>6. \A i \in Slot : /\ i \in Dropped(b) => buffers'[i] = Nothing
                      /\ i \notin Dropped(b) => buffers'[i] = buffers[i]
  BY <1>1
<1>7. RegistersCurrent'
  BY <1>1, <1>4, <1>6 DEF RegistersCurrent
<1>8. OneSlotPerPage'
  BY <1>6 DEF OneSlotPerPage
<1>9. LastPageBuffered'
  BY <1>1, <1>4, <1>6 DEF LastPageBuffered, Holding
<1>10. BuffersReadable'
  <2> SUFFICES ASSUME NEW i \in Slot, buffers'[i] # Nothing
               PROVE  buffers'[i] \in written' \/ buffers'[i][1] \in Direct
    BY DEF BuffersReadable
  <2>1. buffers'[i] = buffers[i] /\ buffers[i] \notin {b} \X Offset
    BY <1>4, <1>6
  <2> QED BY <1>1, <2>1 DEF BuffersReadable
<1> QED BY <1>5, <1>7, <1>8, <1>9, <1>10

\* Every step of the sub-array under the FTL keeps the invariant.
LEMMA SubarrayStep == SubarrayInv /\ [FtlNext]_subarrayVars => SubarrayInv'
<1> SUFFICES ASSUME SubarrayInv, [FtlNext]_subarrayVars PROVE SubarrayInv'
  OBVIOUS
<1>1. CASE Cycle
  BY <1>1 DEF Cycle, SubarrayInv, SubarrayTypeOK, RegistersCurrent, OneSlotPerPage,
     LastPageBuffered, BuffersReadable, Holding
<1>2. CASE UNCHANGED subarrayVars
  BY <1>2 DEF subarrayVars, SubarrayInv, SubarrayTypeOK, RegistersCurrent, OneSlotPerPage,
     LastPageBuffered, BuffersReadable, Holding
<1> QED BY <1>1, <1>2, ReadKeeps, ProgramKeeps, EraseKeeps DEF FtlNext

\* The inductive invariant holds in every reachable state.
THEOREM SubarrayInvariant == FtlSpec => []SubarrayInv
BY InitInv, SubarrayStep, PTL DEF FtlSpec

\* A page buffer never answers with data from before the last program of the
\* page or the last erase of its block.
THEOREM SubarrayRegistersCurrent == FtlSpec => []RegistersCurrent
BY SubarrayInvariant, PTL DEF SubarrayInv

\* No page takes two of the buffers.
THEOREM SubarrayOneSlotPerPage == FtlSpec => []OneSlotPerPage
BY SubarrayInvariant, PTL DEF SubarrayInv

\* The page accessed last is a hit until its block is erased.
THEOREM SubarrayLastPageBuffered == FtlSpec => []LastPageBuffered
BY SubarrayInvariant, PTL DEF SubarrayInv
===============================================================================
