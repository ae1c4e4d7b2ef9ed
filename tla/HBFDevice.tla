----------------------------- MODULE HBFDevice ------------------------------
(***************************************************************************)
(* What a cube's controller promises to its cube: a request is accepted,   *)
(* completed once into a bounded return FIFO, and taken from its head.     *)
(* HBFController implements it; HBFSystem is built on it.                  *)
(***************************************************************************)
EXTENDS Naturals, Sequences

CONSTANTS Req,       \* the requests (mem_fetch objects)
          ReturnCap  \* capacity of the return queue

VARIABLES held,   \* requests accepted and not yet taken
          ready   \* completed requests, in return order

Completed == {ready[i] : i \in DOMAIN ready}

DeviceInit == held = {} /\ ready = <<>>

\* push(): the caller never hands over a request it has not got back.
Accept(r) == r \notin held /\ held' = held \cup {r} /\ UNCHANGED ready

\* A tick of cycle() delivers: any request, a room is needed.
Complete(r) == /\ r \in held \ Completed /\ Len(ready) < ReturnCap
               /\ ready' = Append(ready, r) /\ UNCHANGED held

\* return_queue_top() and return_queue_pop(), once or several times in a row.
Take == \E n \in DOMAIN ready :
          /\ held' = held \ {ready[i] : i \in 1 .. n}
          /\ ready' = SubSeq(ready, n + 1, Len(ready))

DeviceNext == (\E r \in Req : Accept(r) \/ Complete(r)) \/ Take

DeviceSpec == DeviceInit /\ [][DeviceNext]_<<held, ready>>
=============================================================================
