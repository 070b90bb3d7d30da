-------------------------------- MODULE Verbs --------------------------------
(***************************************************************************)
(* The part of libibverbs that the programs depend on: a completion queue  *)
(* (CQ), its notification request, and the completion channel it reports   *)
(* to.  The library is not in the repository; these operators say what     *)
(* rdma_common.c, rdma_client.c and rdma_server.c use of it.               *)
(*                                                                         *)
(*   wcs      work completions in the queue, oldest first                  *)
(*   armed    a notification has been requested and not yet used up        *)
(*   events   notifications in the completion channel, not read yet        *)
(*   unacked  notifications read and not acknowledged                      *)
(***************************************************************************)
EXTENDS Integers, Sequences

CqType(Wc) == [wcs : Seq(Wc), armed : BOOLEAN, events : Nat, unacked : Nat]

\* ibv_create_cq: a new queue is empty and notifies nobody.
NewCq == [wcs |-> <<>>, armed |-> FALSE, events |-> 0, unacked |-> 0]

\* The device adds work completions.  A request for notification is good for
\* one event, however many completions follow before the next request.
Arrive(cq, new) ==
  IF new = <<>> THEN cq
  ELSE [cq EXCEPT !.wcs = @ \o new,
                  !.armed = FALSE,
                  !.events = IF cq.armed THEN @ + 1 ELSE @]

\* ibv_req_notify_cq(cq, 0): asks about completions added from now on, not
\* about those that are in the queue already.
ibv_req_notify_cq(cq) == [cq EXCEPT !.armed = TRUE]

\* ibv_get_cq_event: blocks until there is an event, and takes it.
CanGetCqEvent(cq) == cq.events > 0
ibv_get_cq_event(cq) == [cq EXCEPT !.events = @ - 1, !.unacked = @ + 1]

\* ibv_poll_cq that returns n completions: the n oldest leave the queue.
Polled(cq, n) == SubSeq(cq.wcs, 1, n)
ibv_poll_cq(cq, n) == [cq EXCEPT !.wcs = SubSeq(@, n + 1, Len(@))]

\* ibv_ack_cq_events(cq, n).
ibv_ack_cq_events(cq, n) == [cq EXCEPT !.unacked = @ - n]

\* ibv_destroy_cq waits for every event that was read to be acknowledged.
CanDestroyCq(cq) == cq.unacked = 0
=============================================================================
