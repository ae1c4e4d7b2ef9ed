----------------------------- MODULE HBFMapping -----------------------------
(***************************************************************************)
(* Where a GPU address lives in a system of HBF stacks.                    *)
(*                                                                         *)
(* The way is computed in pieces by four classes that share no code:       *)
(* hbf_system_t picks the stack and rewrites the address, hbf_controller_t *)
(* turns the rewritten address into a page and a channel, its channels     *)
(* turn the channel-local page into a sub-array, and hbf_ftl_t computes    *)
(* channel and sub-array once more on its own.  This module follows single *)
(* requests along that way for every configuration in Config: the          *)
(* simulator boots (and exits when the capacity check fails), then routes  *)
(* the requests it is given.                                               *)
(*                                                                         *)
(* A configuration is a record of the options after memory_config::init:   *)
(*   size, pageSize, pagesPerBlock   hbf_size (bytes), page and block      *)
(*   stacks, stackMap                number of cubes; 1 = contiguous       *)
(*   routeAll, base                  hbf_route_all, hbf_base_addr          *)
(*   channels, subarrays, nonOcp     per stack, before clamping            *)
(*   placement, channelMap, table    hbf_placement_mode, the legacy        *)
(*                                   switch, the explicit table            *)
(***************************************************************************)
EXTENDS Integers, Sequences

CONSTANTS
  Config,      \* the configurations
  GpuAddress,  \* the GPU addresses requests carry
  MaxOcp,      \* channels of the OCP profile, 16
  DirectBit,   \* the reserved block bit, 2^31
  MaxAddress,  \* ULLONG_MAX
  MaxRequests  \* bound of the model: requests that are followed

ASSUME MappingAssumption ==
  /\ GpuAddress \subseteq Nat /\ MaxRequests \in Nat
  /\ MaxOcp \in Nat \ {0} /\ DirectBit \in Nat /\ MaxAddress \in Nat
  /\ \A c \in Config :
       /\ c.size \in Nat /\ c.pageSize \in Nat \ {0} /\ c.base \in Nat
       /\ c.pagesPerBlock \in Nat \ {0} /\ c.stacks \in Nat \ {0}
       /\ c.stackMap \in {0, 1} /\ c.routeAll \in BOOLEAN
       /\ c.channels \in Nat /\ c.subarrays \in Nat \ {0}
       /\ c.nonOcp \in BOOLEAN
       /\ c.placement \in {0, 1, 2} /\ c.channelMap \in {0, 1}
       /\ \A p \in DOMAIN c.table : c.table[p] \in Nat

VARIABLES
  cfg,     \* the configuration of this run
  status,  \* "boot", "run", "exit"
  routed   \* the requests routed so far, with everything computed for them

mappingVars == <<cfg, status, routed>>

Lesser(x, y) == IF x < y THEN x ELSE y

(***************************************************************************)
(* hbf_system_t                                                            *)
(***************************************************************************)
\* Only divisibility by the page is checked.
EqualWholeBlocks_Bug(c) == c.size # 0 /\ c.size % c.pageSize = 0

\* capacity_has_equal_whole_blocks
EqualWholeBlocks(c) ==
  /\ c.size # 0 /\ c.size % c.pageSize = 0
  /\ (c.size \div c.pageSize) % c.stacks = 0
  /\ ((c.size \div c.pageSize) \div c.stacks) % c.pagesPerBlock = 0

IsHbfAddr(c, a) == c.routeAll \/ (c.base <= a /\ a < c.base + c.size)

\* logical_address_for_mapping
Logical(c, a) == IF c.routeAll \/ a < c.base THEN a ELSE a - c.base

Contiguous(c, g) ==
  LET perStack == (c.size \div c.pageSize) \div c.stacks
      stack    == Lesser(g \div perStack, c.stacks - 1)
  IN [stack |-> stack, page |-> g - stack * perStack]

Interleaved(c, g) == [stack |-> g % c.stacks, page |-> g \div c.stacks]

InSpan(c, g) == c.size \div c.pageSize > g
                  /\ (c.size \div c.pageSize) \div c.stacks > 0

\* map_relative_address of global page g
StackOf(c, g) == IF c.stackMap = 1 /\ InSpan(c, g)
                   THEN Contiguous(c, g) ELSE Interleaved(c, g)

Rewrites(c) == c.stacks > 1 \/ c.routeAll

LocalOffset(c, a) ==
  StackOf(c, Logical(c, a) \div c.pageSize).page * c.pageSize
    + (Logical(c, a) % c.pageSize)

\* The address a request carries inside the device (hbf_system_t::push).
DeviceAddress(c, a) == IF Rewrites(c) THEN c.base + LocalOffset(c, a) ELSE a

(***************************************************************************)
(* hbf_controller_t and hbf_channel_t. The size of a stack is its share.   *)
(***************************************************************************)
StackSize(c) == c.size \div c.stacks

\* Explicit channel counts above the profile need the experimental switch.
NumChannels(c) ==
  LET some == IF c.channels = 0 THEN 1 ELSE c.channels
      ocp  == IF c.nonOcp THEN some ELSE Lesser(some, MaxOcp)
  IN Lesser(ocp, c.subarrays)

PagesPerChannel(c) ==
  (StackSize(c) \div c.pageSize + NumChannels(c) - 1) \div NumChannels(c)

ContiguousChannels(c) ==
  c.placement = 1 \/ (c.placement = 0 /\ c.channelMap = 1)

\* addr_to_page
Relative(c, d) == IF d >= c.base THEN d - c.base ELSE d
PageOf(c, d)   == Relative(c, d) \div c.pageSize

HasChannel(c, p) ==
  c.placement = 2 => p \in DOMAIN c.table /\ c.table[p] < NumChannels(c)

\* channel_of_page, hbf_page_to_channel
ChannelOf(c, p) ==
  CASE c.placement = 2       -> c.table[p]
    [] ContiguousChannels(c) -> Lesser(p \div PagesPerChannel(c),
                                       NumChannels(c) - 1)
    [] OTHER                 -> p % NumChannels(c)

\* The slice of sub-arrays each channel owns; the last one takes the rest.
First(c, ch) == ch * (c.subarrays \div NumChannels(c))
Count(c, ch) == IF ch = NumChannels(c) - 1 THEN c.subarrays - First(c, ch)
                ELSE c.subarrays \div NumChannels(c)
Owns(c, ch, s) == First(c, ch) <= s /\ s < First(c, ch) + Count(c, ch)

\* subarray_of_page, subarray_of_local
SubarrayOf(c, p) ==
  LET ch    == ChannelOf(c, p)
      local == CASE c.placement = 2       -> p
                 [] ContiguousChannels(c) -> p - ch * PagesPerChannel(c)
                 [] OTHER                 -> p \div NumChannels(c)
  IN First(c, ch) + (local % Count(c, ch))

\* hbf_direct_page_identity
HasDirect(c, p) == p \div c.pagesPerBlock < DirectBit
DirectAddress(c, p) == [sa  |-> SubarrayOf(c, p),
                        blk |-> DirectBit + p \div c.pagesPerBlock,
                        off |-> p % c.pagesPerBlock]

(***************************************************************************)
(* hbf_ftl_t: the same placement, computed independently.                  *)
(***************************************************************************)
\* Blocks the FTL can create: below m_max_blocks and the reserved bit.
FtlBlocks(c) == LET whole == StackSize(c) \div (c.pagesPerBlock * c.pageSize)
                IN 0 .. Lesser(IF whole = 0 THEN 1 ELSE whole, DirectBit) - 1

\* The placement mode does not override the legacy switch.
FtlContiguous_Bug(c) == c.channelMap = 1

FtlContiguous(c) ==
  c.placement = 1 \/ (c.placement = 0 /\ c.channelMap = 1)

\* hbf_ftl_page_location
FtlLocation(c, p) ==
  LET share == PagesPerChannel(c)
      per   == IF share = 0 THEN 1 ELSE share
      ch    == Lesser(p \div per, NumChannels(c) - 1)
  IN CASE c.placement = 2  -> [ch |-> c.table[p], local |-> p]
       [] FtlContiguous(c) -> [ch |-> ch, local |-> p - ch * per]
       [] OTHER            -> [ch |-> p % NumChannels(c),
                               local |-> p \div NumChannels(c)]

\* hbf_ftl_preferred_subarray
FtlSubarray(c, p) ==
  LET loc == FtlLocation(c, p)
  IN First(c, loc.ch) + (loc.local % Count(c, loc.ch))

\* hbf_ftl_pseudo_address: where a never-written page is read.
Pseudo(c, p) == [sa  |-> FtlSubarray(c, p),
                 blk |-> DirectBit + p \div c.pagesPerBlock,
                 off |-> p % c.pagesPerBlock]

(***************************************************************************)
(* The state machine.                                                      *)
(***************************************************************************)
\* Everything computed for a request to GPU address a.
Route(c, a) ==
  LET p == PageOf(c, DeviceAddress(c, a))
  IN [ gpu     |-> a,
       stack   |-> StackOf(c, Logical(c, a) \div c.pageSize).stack,
       page    |-> p,
       off     |-> Relative(c, DeviceAddress(c, a)) % c.pageSize,
       channel |-> ChannelOf(c, p),
       direct  |-> DirectAddress(c, p),
       pseudo  |-> Pseudo(c, p) ]

\* Why the simulator exits instead of routing a: the rewritten address
\* overflows, the table lacks the page, the block namespace is exhausted.
Routable(c, a) ==
  LET p == PageOf(c, DeviceAddress(c, a))
  IN /\ Rewrites(c) => LocalOffset(c, a) <= MaxAddress - c.base
     /\ HasChannel(c, p)
     /\ HasDirect(c, p)

MappingInit == cfg \in Config /\ status = "boot" /\ routed = <<>>

\* hbf_system_t::hbf_system_t: a table cannot name the stack of a page.
Bootable(c) == EqualWholeBlocks(c) /\ ~(c.stacks > 1 /\ c.placement = 2)

Boot == /\ status = "boot"
        /\ status' = IF Bootable(cfg) THEN "run" ELSE "exit"
        /\ UNCHANGED <<cfg, routed>>

Push(a) == /\ status = "run" /\ Len(routed) < MaxRequests
           /\ IsHbfAddr(cfg, a) /\ Routable(cfg, a)
           /\ routed' = Append(routed, Route(cfg, a))
           /\ UNCHANGED <<cfg, status>>

Fail(a) == /\ status = "run" /\ Len(routed) < MaxRequests
           /\ IsHbfAddr(cfg, a) /\ ~Routable(cfg, a)
           /\ status' = "exit"
           /\ UNCHANGED <<cfg, routed>>

MappingNext == Boot \/ \E a \in GpuAddress : Push(a) \/ Fail(a)

MappingSpec == MappingInit /\ [][MappingNext]_mappingVars

(***************************************************************************)
(* Properties.                                                             *)
(***************************************************************************)
\* What a request may be routed to.
Routes(c) == {Route(c, a) : a \in {b \in GpuAddress : IsHbfAddr(c, b) /\ Routable(c, b)}}

\* Every request is routed as Route computes, and only after a boot that the
\* capacity check allowed.
MappingTypeOK == /\ cfg \in Config /\ status \in {"boot", "run", "exit"}
                 /\ routed \in Seq(Routes(cfg))
                 /\ status = "run" \/ routed # <<>> => Bootable(cfg)

\* Two requests reach the same page of the same stack exactly when their GPU
\* addresses lie in the same logical page, and the same byte of it only when
\* the addresses are equal; also outside the configured span, where
\* map_relative_address falls back to interleaving because that "preserves
\* uniqueness" (hbf_system.h:94-96).
NoAliasing ==
  \A i, j \in 1 .. Len(routed) :
    LET x == routed[i]  y == routed[j]
        g == Logical(cfg, x.gpu) \div cfg.pageSize
        h == Logical(cfg, y.gpu) \div cfg.pageSize
        samePage == x.stack = y.stack /\ x.page = y.page
    IN /\ samePage <=> g = h
       /\ samePage /\ x.off = y.off => x.gpu = y.gpu

\* The sub-array the FTL prefers for a page is the one direct addressing
\* would use, it belongs to the channel the controller computes for the
\* page, and to no other channel: otherwise the controller terminates at its
\* affinity check (hbf_controller.cc:426, 536).
ChannelAffinity ==
  \A i \in 1 .. Len(routed) :
    LET x == routed[i]
    IN /\ x.pseudo.sa = x.direct.sa
       /\ x.pseudo.sa < cfg.subarrays
       /\ \A ch \in 0 .. NumChannels(cfg) - 1 :
            Owns(cfg, ch, x.pseudo.sa) <=> ch = x.channel

\* The address of a page that was never written differs from the address of
\* every other page of the stack, and no block the FTL can create has it.
PseudoDistinct ==
  \A i, j \in 1 .. Len(routed) :
    LET x == routed[i]  y == routed[j]
    IN /\ x.stack = y.stack /\ x.pseudo = y.pseudo => x.page = y.page
       /\ x.pseudo.blk \notin FtlBlocks(cfg)

\* In range mode no stack is sent more pages than the blocks its own FTL can
\* create hold: the span is split without a remainder, whichever map is used.
WithinStack ==
  ~cfg.routeAll =>
    \A i \in 1 .. Len(routed) :
      routed[i].page \div cfg.pagesPerBlock \in FtlBlocks(cfg)
\* Boot, stack map and FTL agree on what an address is: no two requests meet
\* in a page or a byte they do not share, none meets a made-up address, and
\* all fit the blocks of their stack.
AddressesSound == MappingTypeOK /\ NoAliasing /\ PseudoDistinct /\ WithinStack
=============================================================================
