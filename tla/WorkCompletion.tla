--------------------------- MODULE WorkCompletion ---------------------------
(***************************************************************************)
(* process_work_completion_event of rdma_common.c, run by one caller on    *)
(* one completion queue while the device adds completions to that queue.   *)
(*                                                                         *)
(* The caller posts work requests, asks the function to wait for all of    *)
(* them, and goes on only if the function returns the number it asked for; *)
(* otherwise it cleans up and ends, which destroys the queue.  The client  *)
(* does this with batches of 2, 1 and 1 (its metadata exchange, write and  *)
(* read), the server with 1 and 1.  The receives are posted long before    *)
(* the wait, and may be completed by then.                                 *)
(***************************************************************************)
EXTENDS Verbs

CONSTANTS
  MaxBatch,    \* most work requests posted for one call
  PollErrors,  \* values k such that ibv_poll_cq may fail with -k
  Faults       \* other failures that can happen: see FaultNames

FaultNames == {"get", "arm", "status"}

ASSUME MaxBatchAssumption == MaxBatch \in Nat \ {0}
ASSUME PollErrorsAssumption == PollErrors \subseteq Nat \ {0}
ASSUME FaultsAssumption == Faults \subseteq FaultNames

VARIABLES
  cq,        \* the completion queue and its channel
  inflight,  \* posted work requests the device has not completed
  pc,        \* where the caller is
  expected,  \* expected_wc
  wc,        \* the wc[] array: completions retrieved by this call
  ret        \* what the call returned

vars == <<cq, inflight, pc, expected, wc, ret>>

Status == {"success", "error"}
Locations == {"idle", "get", "arm", "poll", "check", "returned",
              "cleanup", "destroyed"}

TypeOK ==
  /\ cq \in CqType(Status)
  /\ inflight \in Nat
  /\ pc \in Locations
  /\ expected \in 0 .. MaxBatch
  /\ wc \in Seq(Status)
  /\ ret \in Int

\* create_completion_queue has requested the first notification.
Init ==
  /\ cq = ibv_req_notify_cq(NewCq)
  /\ inflight = 0
  /\ pc = "idle"
  /\ expected = 0
  /\ wc = <<>>
  /\ ret = 0

Return(r) ==
  /\ pc' = "returned"
  /\ ret' = r

-----------------------------------------------------------------------------
(* The device. *)

\* The device completes a request.  With a failed one the connection is over
\* and every other request fails too; that is an instance of this action.
Complete(status) ==
  /\ inflight > 0
  /\ status = "error" => "status" \in Faults
  /\ inflight' = inflight - 1
  /\ cq' = Arrive(cq, <<status>>)
  /\ UNCHANGED <<pc, expected, wc, ret>>

-----------------------------------------------------------------------------
(* The caller and the function. *)

\* Requests that were posted and that no call has waited for yet.
Posted == inflight + Len(cq.wcs)

Post ==
  /\ pc = "idle"
  /\ Posted < MaxBatch
  /\ inflight' = inflight + 1
  /\ UNCHANGED <<cq, pc, expected, wc, ret>>

\* The caller asks for the completions of all that it has posted.
Call ==
  /\ pc = "idle"
  /\ Posted > 0
  /\ expected' = Posted
  /\ wc' = <<>>
  /\ pc' = "get"
  /\ UNCHANGED <<cq, inflight, ret>>

GetEvent ==
  /\ pc = "get"
  /\ CanGetCqEvent(cq)
  /\ cq' = ibv_get_cq_event(cq)
  /\ pc' = "arm"
  /\ UNCHANGED <<inflight, expected, wc, ret>>

GetEventFails ==
  /\ pc = "get"
  /\ "get" \in Faults
  /\ Return(-1)
  /\ UNCHANGED <<cq, inflight, expected, wc>>

\* A bug the properties must catch: the notification is not renewed.
MutantNoRenewal ==
  /\ pc = "arm"
  /\ pc' = "poll"
  /\ UNCHANGED <<cq, inflight, expected, wc, ret>>

ReqNotify ==
  /\ pc = "arm"
  /\ cq' = ibv_req_notify_cq(cq)
  /\ pc' = "poll"
  /\ UNCHANGED <<inflight, expected, wc, ret>>

ReqNotifyFails ==
  /\ pc = "arm"
  /\ "arm" \in Faults
  /\ Return(-1)
  /\ UNCHANGED <<cq, inflight, expected, wc>>

\* Bugs the properties must catch: the loop ends one completion early; it
\* waits for another event before every further turn.
MutantPollOneLess(n) ==
  /\ pc = "poll"
  /\ n \in 1 .. Len(cq.wcs)
  /\ n <= expected - Len(wc)
  /\ wc' = wc \o Polled(cq, n)
  /\ cq' = ibv_poll_cq(cq, n)
  /\ pc' = IF Len(wc) + n < expected - 1 THEN "poll" ELSE "check"
  /\ UNCHANGED <<inflight, expected, ret>>

MutantPollPerEvent(n) ==
  /\ pc = "poll"
  /\ n \in 1 .. Len(cq.wcs)
  /\ n <= expected - Len(wc)
  /\ wc' = wc \o Polled(cq, n)
  /\ cq' = ibv_poll_cq(cq, n)
  /\ pc' = IF Len(wc) + n < expected THEN "get" ELSE "check"
  /\ UNCHANGED <<inflight, expected, ret>>

\* One turn of the loop that returns n > 0 completions, never more than are
\* still wanted.  A turn that returns none changes nothing.
Poll(n) ==
  /\ pc = "poll"
  /\ n \in 1 .. Len(cq.wcs)
  /\ n <= expected - Len(wc)
  /\ wc' = wc \o Polled(cq, n)
  /\ cq' = ibv_poll_cq(cq, n)
  /\ pc' = IF Len(wc) + n < expected THEN "poll" ELSE "check"
  /\ UNCHANGED <<inflight, expected, ret>>

\* ibv_poll_cq returns -k and the function returns -(-k).
PollFails ==
  /\ pc = "poll"
  /\ \E k \in PollErrors : Return(k)
  /\ UNCHANGED <<cq, inflight, expected, wc>>

AllSucceeded == \A i \in 1 .. Len(wc) : wc[i] = "success"

\* Bugs the properties must catch: one acknowledgement per completion; none;
\* no look at the statuses.
MutantAckEach ==
  /\ pc = "check"
  /\ AllSucceeded
  /\ cq' = ibv_ack_cq_events(cq, Len(wc))
  /\ Return(Len(wc))
  /\ UNCHANGED <<inflight, expected, wc>>

MutantNoAck ==
  /\ pc = "check"
  /\ AllSucceeded
  /\ Return(Len(wc))
  /\ UNCHANGED <<cq, inflight, expected, wc>>

MutantIgnoresStatus ==
  /\ pc = "check"
  /\ cq' = ibv_ack_cq_events(cq, 1)
  /\ Return(Len(wc))
  /\ UNCHANGED <<inflight, expected, wc>>

\* Every status is good: acknowledge the one event and return the count.
Ack ==
  /\ pc = "check"
  /\ AllSucceeded
  /\ cq' = ibv_ack_cq_events(cq, 1)
  /\ Return(Len(wc))
  /\ UNCHANGED <<inflight, expected, wc>>

\* The first bad status ends the function, before the acknowledgement.
BadStatus ==
  /\ pc = "check"
  /\ ~AllSucceeded
  /\ Return(-1)
  /\ UNCHANGED <<cq, inflight, expected, wc>>

\* A bug the properties must catch: the caller tests ret < 0 only.
MutantGoOnIfPositive ==
  /\ pc = "returned"
  /\ ret >= 0
  /\ pc' = "idle"
  /\ UNCHANGED <<cq, inflight, expected, wc, ret>>

\* The caller's test of the result: ret != expected_wc ends the program.
GoOn ==
  /\ pc = "returned"
  /\ ret = expected
  /\ pc' = "idle"
  /\ UNCHANGED <<cq, inflight, expected, wc, ret>>

\* cleanup destroys the queue pair, and with it what is still in flight.
GiveUp ==
  /\ pc = "returned"
  /\ ret # expected
  /\ pc' = "cleanup"
  /\ inflight' = 0
  /\ UNCHANGED <<cq, expected, wc, ret>>

DestroyCq ==
  /\ pc = "cleanup"
  /\ CanDestroyCq(cq)
  /\ pc' = "destroyed"
  /\ UNCHANGED <<cq, inflight, expected, wc, ret>>

Finished == pc = "destroyed" /\ UNCHANGED vars

-----------------------------------------------------------------------------
Device == \E status \in Status : Complete(status)

Caller ==
  \/ GetEvent \/ ReqNotify \/ (\E n \in 1 .. MaxBatch : Poll(n))
  \/ Ack \/ BadStatus \/ GoOn \/ GiveUp \/ DestroyCq

Next ==
  \/ Device
  \/ Caller
  \/ Post
  \/ Call
  \/ GetEventFails
  \/ ReqNotifyFails
  \/ PollFails
  \/ Finished

\* A posted request is completed, and a thread that can run does.  No
\* fairness forces a new request, a call or a failure.
Fairness == WF_vars(Device) /\ WF_vars(Caller)

Spec == Init /\ [][Next]_vars /\ Fairness
-----------------------------------------------------------------------------
(* Safety. *)

\* A thread about to block in ibv_get_cq_event never sleeps through a
\* completion that is in the queue already (rdma_common.c:47-65: the
\* notification is renewed before the queue is emptied, not after).
NoLostWakeup == (pc \in {"idle", "get"} /\ cq.wcs # <<>>) => cq.events > 0

\* A call that succeeds leaves nothing for the next call to take for its own:
\* no completion, no request in flight and no event to acknowledge, whatever
\* number of completions shared one event (rdma_common.c:100-103).
CleanHandover ==
  /\ (pc = "returned" /\ ret = expected) => Posted = 0 /\ cq.unacked = 0
  /\ pc = "idle" => cq.unacked = 0

\* The caller goes on only with every completion it asked for, all of them
\* successes (rdma_common.h:152, and the tests ret != expected_wc).
ResultIsCount ==
  (pc = "returned" /\ ret = expected) => Len(wc) = expected /\ AllSucceeded

\* The inductive invariant behind the three above.  A request for
\* notification is either pending or has become one unread event, never
\* both and never more; a pending one means the queue is empty; and what the
\* call waits for is in flight, in the queue or in wc[].
OneWakeup ==
  LET pending == IF cq.armed = TRUE THEN 1 ELSE 0
  IN  /\ pc = "arm" => cq.events + pending = 0
      /\ pc \in {"idle", "get", "poll", "check"} => cq.events + pending = 1
      /\ (pc = "returned" /\ ret = expected) => cq.events + pending = 1

ArmedWhenEmpty ==
  (pc \in {"idle", "get"} /\ cq.armed = TRUE) => cq.wcs = <<>>

Accounted ==
  /\ pc \in {"get", "arm"} => wc = <<>> /\ expected > 0
  /\ pc \in {"get", "arm", "poll", "check"} =>
       Len(cq.wcs) + inflight + Len(wc) = expected
  /\ pc = "get" => cq.unacked = 0
  /\ pc \in {"arm", "poll", "check"} => cq.unacked = 1
  /\ pc = "poll" => Len(wc) < expected
  /\ pc = "check" => Len(wc) = expected
  /\ (pc = "returned" /\ ret = expected) =>
       /\ cq.wcs = <<>> /\ inflight = 0 /\ cq.unacked = 0
       /\ Len(wc) = expected /\ AllSucceeded
  /\ pc = "idle" => Posted <= MaxBatch /\ cq.unacked = 0

WakeupInv == OneWakeup /\ ArmedWhenEmpty /\ Accounted

-----------------------------------------------------------------------------
(* Liveness. *)

\* Every call returns: the thread is woken and the loop ends, although one
\* event can stand for several completions and one call reads one event.
CallReturns == pc = "get" ~> pc = "returned"

-----------------------------------------------------------------------------
(* The function implements the promise of CompletionBatch. *)

Phase ==
  CASE pc \in {"get", "arm", "poll", "check"} -> "waiting"
    [] pc = "idle" -> "free"
    [] pc = "returned" -> IF ret = expected THEN "free" ELSE "failed"
    [] OTHER -> "failed"

HasError(wcs) == \E i \in 1 .. Len(wcs) : wcs[i] = "error"

Broken ==
  \/ Phase # "failed" /\ HasError(cq.wcs)
  \/ Phase = "waiting" /\ HasError(wc)

BatchSize ==
  CASE Phase = "free" -> Posted
    [] Phase = "waiting" -> expected
    [] OTHER -> 0

Outstanding == IF Phase = "failed" THEN 0 ELSE inflight

Batch == INSTANCE CompletionBatch WITH
           phase <- Phase,
           size <- BatchSize,
           outstanding <- Outstanding,
           broken <- Broken

ImplementsBatch == Batch!Spec
=============================================================================
