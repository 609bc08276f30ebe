------------------------------ MODULE AtaQueue ------------------------------
(***************************************************************************)
(* What one ATA channel promises the disk driver, as the comments of      *)
(* ata_start in src/sys/dev/ata-all.c state it: requests are served one   *)
(* at a time, in the order they were queued on scp->ata_queue; an idle    *)
(* channel starts a request as soon as it is queued, and when a request   *)
(* finishes the oldest waiting one starts at once.  `current` is the      *)
(* request in service (empty: the channel is idle), `waiting` the queue   *)
(* behind it, `served` the number of requests finished.  AtaChannel       *)
(* implements this specification.                                          *)
(***************************************************************************)
EXTENDS Naturals, Sequences

CONSTANT Reqs          \* the requests the disk driver may queue

VARIABLES waiting, current, served

qvars == <<waiting, current, served>>

Init == waiting = <<>> /\ current = <<>> /\ served = 0

\* a request is queued; an idle channel starts it in the same step
Submit(r) ==
  /\ IF current = <<>>
       THEN current' = <<r>> /\ UNCHANGED waiting
       ELSE waiting' = Append(waiting, r) /\ UNCHANGED current
  /\ UNCHANGED served

\* the request in service finishes and the head of the queue, if any,
\* takes its place
Finish ==
  /\ current # <<>>
  /\ served' = served + 1
  /\ IF waiting = <<>>
       THEN current' = <<>> /\ UNCHANGED waiting
       ELSE current' = <<Head(waiting)>> /\ waiting' = Tail(waiting)

Next == (\E r \in Reqs : Submit(r)) \/ Finish

\* a request in service is eventually finished
Spec == Init /\ [][Next]_qvars /\ WF_qvars(Finish)
====
