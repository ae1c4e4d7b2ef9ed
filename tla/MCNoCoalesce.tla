---------------------------- MODULE MCNoCoalesce -----------------------------
(***************************************************************************)
(* Instances of HBFNoCoalesce for TLC: a request is a tuple of a name, its *)
(* page, its kind and the halves it writes.                                *)
(***************************************************************************)
EXTENDS HBFNoCoalesce, Bitwise

MCReqPage == [r \in Req |-> r[2]]
MCIsWrite == [r \in Req |-> r[3] = "write"]
MCHalf    == [r \in Req |-> r[4]]

MCBitOr(a, b) == a | b

OneSubarray == [p \in LogicalPage |-> 0]

\* Writes of both pages, partial and whole, and a read of each.
Mixed == {<<"a", 1, "write", {1}>>, <<"b", 1, "write", {1, 2}>>,
          <<"c", 2, "write", {2}>>, <<"d", 1, "read", {}>>, <<"e", 2, "read", {}>>}
=============================================================================
