------------------------------- MODULE MCParts --------------------------------
(***************************************************************************)
(* The parts of the device and of the trace tools that share no state with *)
(* the rest or with each other, for TLC: a behaviour is one of the part    *)
(* that is chosen at its start, the others stay as they begin. Nothing is  *)
(* lost by it, for their steps are independent.                            *)
(***************************************************************************)
EXTENDS HBFMapping, HBFPlacement, HBFCoverage, HBFSubarray, TraceFormat, SpinlockFilter

VARIABLE part  \* the part that moves

-----------------------------------------------------------------------------
(* HBFMapping: pages of two bytes, a span of up to eight pages that starts *)
(* at address 0 or 3, stacks that do and do not divide the span, every map *)
(* and placement mode, channel counts that need each clamp (at most two    *)
(* channels without the switch).                                           *)
Spans == [size : {12, 16}, pageSize : {2}, pagesPerBlock : {1, 2},
          stacks : 1 .. 3, stackMap : {0, 1}, routeAll : BOOLEAN,
          base : {0, 3}, channels : {0, 3}, subarrays : {2, 5},
          nonOcp : BOOLEAN, placement : {0, 1}, channelMap : {0, 1},
          table : {[p \in {} |-> 0]}]

\* One stack with an explicit table that misses a page and holds a channel
\* that may not exist.
Explicit == [size : {8}, pageSize : {2}, pagesPerBlock : {2}, stacks : 1 .. 2,
             stackMap : {0}, routeAll : BOOLEAN, base : {0, 3},
             channels : {1, 3}, subarrays : {5}, nonOcp : BOOLEAN,
             placement : {2}, channelMap : {0, 1},
             table : {[p \in 0 .. 3 |-> p % 2], [p \in {0, 2, 5} |-> p % 3]}]

Sweep        == Spans \cup Explicit
GpuAddresses == {0, 1, 3, 4, 6, 9, 11, 13, 17, 21}

-----------------------------------------------------------------------------
(* HBFPlacement: all files of up to three lines of the kinds below.        *)
Good(p, c) == [long |-> FALSE, blank |-> FALSE, page |-> p, sep |-> TRUE,
               chan |-> c, rest |-> FALSE]

\* Two pages on two channels, an unknown channel, and one line of each defect.
KindsOfLine ==
  {Good(p, c) : p \in {0, 1}, c \in 0 .. 2}
    \cup {[Good(0, 0) EXCEPT !.long = TRUE],  [Good(0, 0) EXCEPT !.blank = TRUE],
          [Good(0, 0) EXCEPT !.sep = FALSE],  [Good(1, 1) EXCEPT !.rest = TRUE],
          Good(Negative, 0), Good(Garbage, 0), Good(0, Negative), Good(1, Garbage)}

ShortFiles == UNION {[1 .. n -> KindsOfLine] : n \in 0 .. 3}
OnePage    == {<<7, 0>>}

-----------------------------------------------------------------------------
(* HBFCoverage: the pages 8..15 and 16..23, windows of four bytes, 12..15  *)
(* at the border; writes with a mask, and ranges without one.              *)
W(a, n, m) == [addr |-> a, size |-> n, mask |-> m]

Sectors ==
  {W(8, 2, {0, 1}), W(10, 2, {2, 3}), W(8, 4, {1, 2}), W(12, 4, {}), W(13, 2, {}),
   W(14, 2, {2, 3}), W(16, 4, {0, 1, 2, 3}), W(21, 3, {}), W(20, 1, {0})}

-----------------------------------------------------------------------------
(* HBFSubarray: as in hbf_tR > hbf_buffer_hit_latency, the erase being the *)
(* longest.                                                                *)
Latencies == [op \in {"read", "hit", "program", "erase"} |->
                CASE op = "hit" -> 0 [] op = "read" -> 1
                  [] op = "program" -> 2 [] op = "erase" -> 3]

-----------------------------------------------------------------------------
(* TraceFormat: four lanes, addresses of four bits with wrap-around and    *)
(* strides of three bits (-4 .. 3): differences that fit the stride and    *)
(* that do not, up and down.                                               *)
Corners == {0, 2, 4, 6, 8, 15}
Numbers == {1, 12}

(* SpinlockFilter: a kernel with a loop of two instructions, then one with *)
(* another spinlock and one without.                                       *)
Kernels == <<{1, 2}, {2}, {}>>

-----------------------------------------------------------------------------
\* The inputs of the parts that rest are of no interest.
AnyConfig      == CHOOSE c \in Config : TRUE
AnyInstruction == CHOOSE i \in Executed : TRUE

Init ==
  /\ part \in {"mapping", "placement", "coverage", "subarray", "format", "spinlock"}
  /\ IF part = "mapping" THEN cfg \in Config ELSE cfg = AnyConfig
  /\ IF part = "placement" THEN file \in Files ELSE file = <<>>
  /\ IF part = "format" THEN inst \in Executed ELSE inst = AnyInstruction
  /\ MappingInit /\ PlacementInit /\ CoverageInit /\ SubarrayInit /\ FormatInit /\ SpinInit

vars == <<part, mappingVars, placementVars, coverageVars, subarrayVars, formatVars, spinVars>>

Next ==
  \/ /\ part = "mapping" /\ MappingNext
     /\ UNCHANGED <<part, placementVars, coverageVars, subarrayVars, formatVars, spinVars>>
  \/ /\ part = "placement" /\ PlacementNext
     /\ UNCHANGED <<part, mappingVars, coverageVars, subarrayVars, formatVars, spinVars>>
  \/ /\ part = "coverage" /\ CoverageNext
     /\ UNCHANGED <<part, mappingVars, placementVars, subarrayVars, formatVars, spinVars>>
  \/ /\ part = "subarray" /\ FtlNext
     /\ UNCHANGED <<part, mappingVars, placementVars, coverageVars, formatVars, spinVars>>
  \/ /\ part = "format" /\ FormatNext
     /\ UNCHANGED <<part, mappingVars, placementVars, coverageVars, subarrayVars, spinVars>>
  \/ /\ part = "spinlock" /\ SpinNext
     /\ UNCHANGED <<part, mappingVars, placementVars, coverageVars, subarrayVars, formatVars>>

Spec == Init /\ [][Next]_vars
=============================================================================
