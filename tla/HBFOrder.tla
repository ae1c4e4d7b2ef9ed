------------------------------- MODULE HBFOrder -----------------------------
(***************************************************************************)
(* The order in which the requests of one page are answered. The history   *)
(* variable ahead[r] holds the writes of r's page that were pushed before  *)
(* r and had not been answered then; the controller is not constrained.    *)
(***************************************************************************)
EXTENDS HBFProperties

VARIABLE ahead

Unanswered(p) == {r \in outstanding : PageOf[r] = p /\ ~Contains(returnq, r)}

Pushed == outstanding' \ outstanding

OrderInit == Init /\ ahead = [r \in Req |-> {}]

OrderNext ==
  /\ Next
  /\ ahead' = [r \in Req |->
       IF r \in Pushed
         THEN {w \in Unanswered(PageOf[r]) : IsWrite[w]}
         ELSE IF r \in outstanding' THEN (ahead[r] \cap outstanding') \ Pushed
         ELSE {}]

orderVars == <<vars, ahead>>

OrderSpec == OrderInit /\ [][OrderNext]_orderVars

\* The writes pushed before r that r overtook.
Overtaken(r) == {w \in ahead[r] : ~Contains(returnq, w)}

(***************************************************************************)
(* Writes of one page are answered in the order they were pushed, across   *)
(* buffer coalescing, deferred flushes and later buffer entries: the       *)
(* per-page serialization of flush_write_buffer_entry.                     *)
(***************************************************************************)
PageWritesInOrder ==
  \A r \in ToSet(returnq) : IsWrite[r] => Overtaken(r) = {}

(***************************************************************************)
(* hbf_controller.cc:367-369 on a read of a page whose buffered writes     *)
(* could not be flushed: attaching it to the operation in flight           *)
(* "preserves read-after-write ordering even when the channel              *)
(* outstanding-write limit deferred the flush". No read is answered before *)
(* a write of its page that was pushed earlier.                            *)
(***************************************************************************)
ReadAfterWriteOrder ==
  \A r \in ToSet(returnq) : ~IsWrite[r] => Overtaken(r) = {}
=============================================================================
