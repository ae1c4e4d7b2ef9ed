---------------------------- MODULE MCController ----------------------------
(***************************************************************************)
(* Instances of the controller for TLC. Requests are named by their kind:  *)
(* a read (r), a half-page write (h, the other half k) or a full-page      *)
(* write (w) of page 0 or 1.                                               *)
(***************************************************************************)
EXTENDS HBFProperties

R0 == "r0"  R0b == "r0b"  R1 == "r1"
H0 == "h0"  K0 == "k0"  W0 == "w0"  H1 == "h1"  W1 == "w1"  W1b == "w1b"

Reads == {R0, R0b, R1}
OnPage1 == {R1, H1, W1, W1b}

MCPageOf  == [r \in Req |-> IF r \in OnPage1 THEN 1 ELSE 0]
MCIsWrite == [r \in Req |-> r \notin Reads]
MCCovers  == [r \in Req |-> IF r \in Reads THEN {}
                            ELSE IF r \in {H0, H1} THEN {"lo"}
                            ELSE IF r = K0 THEN {"hi"} ELSE {"lo", "hi"}]
Sectors   == {"lo", "hi"}

OneSubarray  == {0}
TwoSubarrays == {0, 1}
OneChannel   == {"c0"}
TwoChannels  == {"c0", "c1"}
SharedSubarray   == [p \in Page |-> 0]
SpreadSubarrays  == [p \in Page |-> p]
SharedChannel    == [p \in Page |-> "c0"]
SpreadChannels   == [p \in Page |-> IF p = 0 THEN "c0" ELSE "c1"]

Coalescing == {R0, R0b, H0, K0, R1, W1}
MixedRW    == {R0, H0, K0, R1, H1}
Recycling  == {R0, W0, W1, W1b}
Starving   == {R0, W1, W1b}
=============================================================================
