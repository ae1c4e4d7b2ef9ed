------------------------------ MODULE MCSystem -------------------------------
(***************************************************************************)
(* Instances of HBFSystem for TLC. A request is a pair of its              *)
(* sub-partition and its GPU page; page g lives in stack g % NumStacks.    *)
(***************************************************************************)
EXTENDS HBFSystemProps

CONSTANT Writebacks

MCSourceOf    == [r \in Req |-> r[1]]
MCGpuPage     == [r \in Req |-> r[2]]
MCIsWriteback == [r \in Req |-> r \in Writebacks]

\* Two sub-partitions, with requests of both to both stacks and a writeback.
TwoByTwo == {<<0, 2>>, <<0, 3>>, <<0, 6>>, <<1, 4>>, <<1, 7>>}
Back     == {<<0, 3>>}

None == {}

\* One request each of three sub-partitions.
Three     == {<<0, 0>>, <<1, 1>>, <<2, 2>>}
\* Two sub-partitions compete for stack 0; the third has stack 1.
PhaseLock == {<<0, 0>>, <<0, 2>>, <<1, 4>>, <<2, 1>>}

\* Sub-partition 0 does not drain.
Greedy  == {<<0, 0>>, <<0, 1>>, <<1, 2>>}
OnlyOne == {1}
=============================================================================
