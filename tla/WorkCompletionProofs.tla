------------------------ MODULE WorkCompletionProofs ------------------------
(***************************************************************************)
(* Proofs about process_work_completion_event for any batch size, any set  *)
(* of faults, and any set of poll errors that no expected_wc can equal.    *)
(***************************************************************************)
EXTENDS WorkCompletion, TLAPS

\* The length of two sequences put together: wc[] grows by what a poll returns.
LEMMA ConcatLen ==
  ASSUME NEW S, NEW s \in Seq(S), NEW t \in Seq(S)
  PROVE  s \o t \in Seq(S) /\ Len(s \o t) = Len(s) + Len(t)
OBVIOUS

\* A completion queue stays one when its event counters change.
LEMMA CountersType ==
  ASSUME NEW q \in CqType(Status), NEW e \in Nat, NEW u \in Nat
  PROVE  [q EXCEPT !.events = e, !.unacked = u] \in CqType(Status)
BY DEF CqType

\* One completion added by the device: it is last in the queue, and uses up
\* the request for notification if there is one.
LEMMA ArriveOne ==
  ASSUME NEW q \in CqType(Status), NEW s \in Status
  PROVE  /\ Arrive(q, <<s>>) \in CqType(Status)
         /\ Len(Arrive(q, <<s>>).wcs) = Len(q.wcs) + 1
         /\ Arrive(q, <<s>>).armed = FALSE
         /\ q.armed = TRUE  => Arrive(q, <<s>>).events = q.events + 1
         /\ q.armed = FALSE => Arrive(q, <<s>>).events = q.events
         /\ Arrive(q, <<s>>).unacked = q.unacked
<1>1. <<s>> \in Seq(Status) /\ <<s>> # <<>> /\ Len(<<s>>) = 1
  OBVIOUS
<1>2. q.wcs \o <<s>> \in Seq(Status) /\ Len(q.wcs \o <<s>>) = Len(q.wcs) + 1
  BY <1>1 DEF CqType
<1>3. Arrive(q, <<s>>) = [q EXCEPT !.wcs = q.wcs \o <<s>>, !.armed = FALSE,
                            !.events = IF q.armed THEN q.events + 1 ELSE q.events]
  BY <1>1 DEF Arrive
<1>4. q.armed \in BOOLEAN /\ q.events \in Nat /\ q.unacked \in Nat
  BY DEF CqType
<1>5. (IF q.armed THEN q.events + 1 ELSE q.events) \in Nat
  BY <1>4
<1>6. Arrive(q, <<s>>) \in CqType(Status)
  BY <1>2, <1>3, <1>5 DEF CqType
<1>7. /\ Arrive(q, <<s>>).wcs = q.wcs \o <<s>>
      /\ Arrive(q, <<s>>).armed = FALSE
      /\ Arrive(q, <<s>>).events = IF q.armed THEN q.events + 1 ELSE q.events
      /\ Arrive(q, <<s>>).unacked = q.unacked
  BY <1>3 DEF CqType
<1>. QED
  BY <1>2, <1>4, <1>6, <1>7

\* A poll that returns n of the completions splits the queue in two.
LEMMA PollSplits ==
  ASSUME NEW q \in CqType(Status), NEW n \in 1 .. Len(q.wcs)
  PROVE  /\ ibv_poll_cq(q, n) \in CqType(Status)
         /\ Polled(q, n) \in Seq(Status)
         /\ Len(Polled(q, n)) = n
         /\ Len(ibv_poll_cq(q, n).wcs) = Len(q.wcs) - n
         /\ ibv_poll_cq(q, n).armed = q.armed
         /\ ibv_poll_cq(q, n).events = q.events
         /\ ibv_poll_cq(q, n).unacked = q.unacked
<1>1. q.wcs \in Seq(Status) /\ Len(q.wcs) \in Nat
  BY DEF CqType
<1>2. /\ SubSeq(q.wcs, 1, n) \in Seq(Status)
      /\ Len(SubSeq(q.wcs, 1, n)) = n
  BY <1>1
<1>3. /\ SubSeq(q.wcs, n + 1, Len(q.wcs)) \in Seq(Status)
      /\ Len(SubSeq(q.wcs, n + 1, Len(q.wcs))) = Len(q.wcs) - n
  BY <1>1
<1>. QED
  BY <1>1, <1>2, <1>3 DEF ibv_poll_cq, Polled, CqType

-----------------------------------------------------------------------------
(* The inductive invariant: TypeOK and WakeupInv together. *)

IndInv == TypeOK /\ WakeupInv

\* The queue as create_completion_queue leaves it.
LEMMA InitIndInv == Init => IndInv
<1>. SUFFICES ASSUME Init PROVE IndInv
  OBVIOUS
<1>1. /\ NewCq \in CqType(Status)
      /\ NewCq.wcs = <<>> /\ NewCq.events = 0 /\ NewCq.unacked = 0
  BY DEF NewCq, CqType
<1>2. /\ cq \in CqType(Status)
      /\ cq.wcs = <<>> /\ cq.events = 0 /\ cq.armed = TRUE /\ cq.unacked = 0
  BY <1>1 DEF Init, ibv_req_notify_cq, CqType
<1>3. TypeOK
  BY <1>2, MaxBatchAssumption DEF Init, TypeOK, Locations
<1>4. Posted = 0
  BY <1>2 DEF Init, Posted
<1>5. WakeupInv
  BY <1>2, <1>4, MaxBatchAssumption
     DEF Init, WakeupInv, OneWakeup, ArmedWhenEmpty, Accounted
<1>. QED
  BY <1>3, <1>5 DEF IndInv

\* The device completes a request: an armed queue trades its request for
\* notification for one event, and the completion stays accounted for.
LEMMA CompleteIndInv ==
  ASSUME IndInv, NEW status \in Status, Complete(status)
  PROVE  IndInv'
<1>1. cq \in CqType(Status) /\ inflight \in Nat /\ Len(cq.wcs) \in Nat
  BY DEF IndInv, TypeOK, CqType
<1>2. cq.armed \in BOOLEAN /\ cq.events \in Nat
  BY <1>1 DEF CqType
<1>3. /\ cq' \in CqType(Status)
      /\ Len(cq'.wcs) = Len(cq.wcs) + 1
      /\ cq'.armed = FALSE
      /\ cq.armed = TRUE  => cq'.events = cq.events + 1
      /\ cq.armed = FALSE => cq'.events = cq.events
      /\ cq'.unacked = cq.unacked
  BY <1>1, ArriveOne DEF Complete
<1>4. TypeOK'
  BY <1>1, <1>3 DEF IndInv, TypeOK, Complete
<1>5. OneWakeup'
  BY <1>2, <1>3 DEF IndInv, WakeupInv, OneWakeup, Complete
<1>6. ArmedWhenEmpty'
  BY <1>3 DEF ArmedWhenEmpty
<1>7. Posted' = Posted
  BY <1>1, <1>3 DEF Posted, Complete
<1>8. Accounted'
  BY <1>1, <1>3, <1>7 DEF IndInv, TypeOK, WakeupInv, Accounted, Complete
<1>. QED
  BY <1>4, <1>5, <1>6, <1>8 DEF IndInv, WakeupInv

\* The batch of the next call when one more request is in flight.
LEMMA PostedGrows ==
  ASSUME inflight \in Nat, Len(cq.wcs) \in Nat,
         inflight' = inflight + 1, cq' = cq
  PROVE  Posted' = Posted + 1
<1>. DEFINE queued == Len(cq.wcs)
<1>1. Posted = inflight + queued /\ Posted' = (inflight + 1) + queued
  BY DEF Posted
<1>2. inflight \in Nat /\ queued \in Nat
  OBVIOUS
<1>. HIDE DEF queued
<1>3. (inflight + 1) + queued = (inflight + queued) + 1
  BY <1>2
<1>. QED
  BY <1>1, <1>3

\* A new request makes the batch of the next call larger by one.
LEMMA PostIndInv ==
  ASSUME IndInv, Post
  PROVE  IndInv'
<1>1. inflight \in Nat /\ Len(cq.wcs) \in Nat
  BY DEF IndInv, TypeOK, CqType
<1>2. /\ pc = "idle" /\ pc' = "idle" /\ inflight' = inflight + 1
      /\ UNCHANGED <<cq, expected, wc, ret>> /\ Posted < MaxBatch
  BY DEF Post
<1>3. Posted' = Posted + 1 /\ Posted \in Nat
  <2>1. Posted' = Posted + 1
    BY <1>1, <1>2, PostedGrows
  <2>2. Posted \in Nat
    BY <1>1 DEF Posted
  <2>. QED
    BY <2>1, <2>2
<1>4. TypeOK'
  BY <1>1, <1>2 DEF IndInv, TypeOK
<1>5. OneWakeup' /\ ArmedWhenEmpty'
  BY <1>2 DEF IndInv, WakeupInv, OneWakeup, ArmedWhenEmpty
<1>6. Accounted'
  BY <1>2, <1>3, MaxBatchAssumption DEF IndInv, WakeupInv, Accounted
<1>. QED
  BY <1>4, <1>5, <1>6 DEF IndInv, WakeupInv

\* A call asks for what was posted: in flight, or in the queue already.
LEMMA CallIndInv ==
  ASSUME IndInv, Call
  PROVE  IndInv'
<1>1. inflight \in Nat /\ Len(cq.wcs) \in Nat
  BY DEF IndInv, TypeOK, CqType
<1>2. /\ pc = "idle" /\ pc' = "get" /\ expected' = Posted /\ wc' = <<>>
      /\ Posted > 0 /\ UNCHANGED <<cq, inflight, ret>>
  BY DEF Call
<1>3. Posted \in 1 .. MaxBatch /\ cq.unacked = 0
  BY <1>1, <1>2, MaxBatchAssumption
     DEF IndInv, WakeupInv, Accounted, Posted
<1>4. TypeOK'
  BY <1>2, <1>3, MaxBatchAssumption DEF IndInv, TypeOK, Locations
<1>5. OneWakeup' /\ ArmedWhenEmpty'
  BY <1>2 DEF IndInv, WakeupInv, OneWakeup, ArmedWhenEmpty
<1>6. Len(cq'.wcs) + inflight' + Len(wc') = expected'
  BY <1>1, <1>2 DEF Posted
<1>7. Accounted'
  BY <1>2, <1>3, <1>6 DEF Accounted
<1>. QED
  BY <1>4, <1>5, <1>7 DEF IndInv, WakeupInv

\* Taking the event leaves no notification, pending or unread.
LEMMA GetEventIndInv ==
  ASSUME IndInv, GetEvent
  PROVE  IndInv'
<1>1. /\ cq \in CqType(Status) /\ cq.armed \in BOOLEAN
      /\ cq.events \in Nat /\ cq.unacked \in Nat
  BY DEF IndInv, TypeOK, CqType
<1>2. cq.events > 0 /\ cq.armed = FALSE /\ cq.events = 1
  BY <1>1 DEF IndInv, WakeupInv, OneWakeup, GetEvent, CanGetCqEvent
<1>3. cq' = [cq EXCEPT !.events = 0, !.unacked = cq.unacked + 1]
  BY <1>2 DEF GetEvent, ibv_get_cq_event
<1>4. /\ cq' \in CqType(Status)
      /\ cq'.wcs = cq.wcs /\ cq'.armed = FALSE /\ cq'.events = 0
      /\ cq'.unacked = cq.unacked + 1
  <2>1. cq' \in CqType(Status)
    <3>1. 0 \in Nat /\ cq.unacked + 1 \in Nat
      BY <1>1
    <3>. QED
      BY <1>1, <1>3, <3>1, CountersType
  <2>2. /\ cq'.wcs = cq.wcs /\ cq'.events = 0
        /\ cq'.unacked = cq.unacked + 1 /\ cq'.armed = cq.armed
    BY <1>1, <1>3 DEF CqType
  <2>. QED
    BY <1>2, <2>1, <2>2
<1>5. TypeOK'
  BY <1>4 DEF IndInv, TypeOK, GetEvent, Locations
<1>6. OneWakeup' /\ ArmedWhenEmpty'
  BY <1>4 DEF OneWakeup, ArmedWhenEmpty, GetEvent
<1>7. Accounted'
  BY <1>1, <1>4 DEF IndInv, TypeOK, WakeupInv, Accounted, GetEvent
<1>. QED
  BY <1>5, <1>6, <1>7 DEF IndInv, WakeupInv

\* Renewing the notification restores exactly one.
LEMMA ReqNotifyIndInv ==
  ASSUME IndInv, ReqNotify
  PROVE  IndInv'
<1>1. /\ cq \in CqType(Status) /\ cq.armed \in BOOLEAN
      /\ cq.events \in Nat /\ cq.unacked \in Nat
  BY DEF IndInv, TypeOK, CqType
<1>2. cq.events = 0
  BY <1>1 DEF IndInv, WakeupInv, OneWakeup, ReqNotify
<1>3. /\ cq' \in CqType(Status)
      /\ cq'.wcs = cq.wcs /\ cq'.armed = TRUE /\ cq'.events = 0
      /\ cq'.unacked = cq.unacked
  BY <1>1, <1>2 DEF ReqNotify, ibv_req_notify_cq, CqType
<1>4. TypeOK'
  BY <1>3 DEF IndInv, TypeOK, ReqNotify, Locations
<1>5. OneWakeup' /\ ArmedWhenEmpty'
  BY <1>3 DEF OneWakeup, ArmedWhenEmpty, ReqNotify
<1>6. expected > 0
  BY DEF IndInv, WakeupInv, Accounted, ReqNotify
<1>7. Accounted'
  BY <1>1, <1>3, <1>6 DEF IndInv, TypeOK, WakeupInv, Accounted, ReqNotify
<1>. QED
  BY <1>4, <1>5, <1>7 DEF IndInv, WakeupInv

\* A poll moves completions from the queue to wc[] and loses none.
LEMMA PollIndInv ==
  ASSUME IndInv, NEW n \in 1 .. MaxBatch, Poll(n)
  PROVE  IndInv'
<1>1. /\ cq \in CqType(Status) /\ cq.armed \in BOOLEAN
      /\ cq.events \in Nat /\ cq.unacked \in Nat
      /\ wc \in Seq(Status) /\ inflight \in Nat /\ expected \in Nat
  BY DEF IndInv, TypeOK, CqType
<1>2. n \in 1 .. Len(cq.wcs) /\ pc = "poll"
  BY DEF Poll
<1>3. /\ Polled(cq, n) \in Seq(Status) /\ Len(Polled(cq, n)) = n
      /\ cq' \in CqType(Status) /\ Len(cq'.wcs) = Len(cq.wcs) - n
      /\ cq'.armed = cq.armed /\ cq'.events = cq.events
      /\ cq'.unacked = cq.unacked
  BY <1>1, <1>2, PollSplits DEF Poll
<1>4. wc' \in Seq(Status) /\ Len(wc') = Len(wc) + n
  <2>1. wc' = wc \o Polled(cq, n)
    BY DEF Poll
  <2>2. wc \in Seq(Status) /\ Polled(cq, n) \in Seq(Status)
    BY <1>1, <1>3
  <2>3. /\ wc \o Polled(cq, n) \in Seq(Status)
        /\ Len(wc \o Polled(cq, n)) = Len(wc) + Len(Polled(cq, n))
    BY <2>2, ConcatLen
  <2>. QED
    BY <1>3, <2>1, <2>3
<1>5. TypeOK'
  BY <1>3, <1>4 DEF IndInv, TypeOK, Poll, Locations
<1>6. OneWakeup'
  BY <1>1, <1>2, <1>3 DEF IndInv, WakeupInv, OneWakeup, Poll
<1>7. ArmedWhenEmpty'
  BY DEF ArmedWhenEmpty, Poll
<1>8. Len(cq.wcs) \in Nat /\ Len(wc) \in Nat
  BY <1>1 DEF CqType
<1>9. Accounted'
  <2>1. /\ Len(cq.wcs) + inflight + Len(wc) = expected
        /\ cq.unacked = 1
    BY <1>2 DEF IndInv, WakeupInv, Accounted
  <2>5. /\ inflight' = inflight /\ expected' = expected
       /\ n \in Nat /\ n <= expected - Len(wc)
    BY <1>2 DEF Poll
  <2>2. Len(cq'.wcs) + inflight' + Len(wc') = expected'
    <3>. DEFINE queued == Len(cq.wcs)
                taken  == Len(wc)
    <3>1. queued \in Nat /\ taken \in Nat /\ n \in Nat /\ inflight \in Nat
      BY <1>1, <1>8, <2>5
    <3>2. Len(cq'.wcs) = queued - n /\ Len(wc') = taken + n
      BY <1>3, <1>4
    <3>3. queued + inflight + taken = expected
      BY <2>1
    <3>. HIDE DEF queued, taken
    <3>4. (queued - n) + inflight + (taken + n) = queued + inflight + taken
      BY <3>1
    <3>. QED
      BY <2>5, <3>2, <3>3, <3>4
  <2>3. CASE Len(wc) + n < expected
    BY <1>3, <1>4, <2>1, <2>2, <2>3 DEF Accounted, Poll
  <2>4. CASE ~(Len(wc) + n < expected)
    <3>1. Len(wc') = expected'
      BY <1>1, <1>4, <1>8, <2>4, <2>5
    <3>. QED
      BY <1>3, <2>1, <2>2, <2>4, <3>1 DEF Accounted, Poll
  <2>. QED
    BY <2>3, <2>4
<1>. QED
  BY <1>5, <1>6, <1>7, <1>9 DEF IndInv, WakeupInv

\* A successful call ends with nothing queued, in flight or unacknowledged.
LEMMA AckIndInv ==
  ASSUME IndInv, Ack
  PROVE  IndInv'
<1>1. /\ cq \in CqType(Status) /\ cq.armed \in BOOLEAN
      /\ cq.events \in Nat /\ cq.unacked \in Nat
      /\ cq.wcs \in Seq(Status) /\ Len(cq.wcs) \in Nat
      /\ wc \in Seq(Status) /\ Len(wc) \in Nat /\ inflight \in Nat
  BY DEF IndInv, TypeOK, CqType
<1>2. /\ pc = "check" /\ cq.unacked = 1 /\ Len(wc) = expected
      /\ Len(cq.wcs) + inflight + Len(wc) = expected
  BY DEF IndInv, WakeupInv, Accounted, Ack
<1>3. Len(cq.wcs) = 0 /\ inflight = 0
  BY <1>1, <1>2
<1>4. cq.wcs = <<>>
  BY <1>1, <1>3
<1>5. /\ cq' \in CqType(Status)
      /\ cq'.wcs = cq.wcs /\ cq'.armed = cq.armed /\ cq'.events = cq.events
      /\ cq'.unacked = 0
  BY <1>1, <1>2 DEF Ack, ibv_ack_cq_events, CqType
<1>6. TypeOK'
  BY <1>1, <1>5 DEF IndInv, TypeOK, Ack, Return, Locations
<1>7. OneWakeup'
  BY <1>1, <1>2, <1>5 DEF IndInv, WakeupInv, OneWakeup, Ack, Return
<1>8. ArmedWhenEmpty'
  BY DEF ArmedWhenEmpty, Ack, Return
<1>9. AllSucceeded'
  BY DEF Ack, AllSucceeded
<1>10. Accounted'
  BY <1>2, <1>3, <1>4, <1>5, <1>9 DEF Accounted, Ack, Return
<1>. QED
  BY <1>6, <1>7, <1>8, <1>10 DEF IndInv, WakeupInv

\* The steps that end a call without success.
LEMMA EndOfCallIndInv ==
  ASSUME IndInv,
         GetEventFails \/ ReqNotifyFails \/ BadStatus
  PROVE  IndInv'
<1>1. /\ ret' = -1 /\ pc' = "returned"
      /\ UNCHANGED <<cq, inflight, expected, wc>>
  BY DEF GetEventFails, ReqNotifyFails, BadStatus, Return
<1>2. expected \in Nat
  BY DEF IndInv, TypeOK
<1>3. ret' # expected'
  BY <1>1, <1>2
<1>4. TypeOK'
  BY <1>1 DEF IndInv, TypeOK, Locations
<1>5. OneWakeup' /\ ArmedWhenEmpty' /\ Accounted'
  BY <1>1, <1>3 DEF OneWakeup, ArmedWhenEmpty, Accounted
<1>. QED
  BY <1>4, <1>5 DEF IndInv, WakeupInv

\* Every step of the caller keeps the invariant.
LEMMA CallerIndInv ==
  ASSUME IndInv, GoOn \/ GiveUp \/ DestroyCq \/ Finished
  PROVE  IndInv'
<1>1. CASE GoOn
  <2>1. TypeOK'
    BY <1>1 DEF IndInv, TypeOK, GoOn, Locations
  <2>2. /\ cq.wcs = <<>> /\ inflight = 0 /\ cq.unacked = 0
        /\ pc = "returned" /\ ret = expected
        /\ pc' = "idle" /\ UNCHANGED <<cq, inflight, expected, wc, ret>>
    BY <1>1 DEF IndInv, WakeupInv, Accounted, GoOn
  <2>3. OneWakeup' /\ ArmedWhenEmpty'
    BY <2>2 DEF IndInv, WakeupInv, OneWakeup, ArmedWhenEmpty
  <2>4. Posted' = 0
    BY <2>2 DEF Posted
  <2>5. Accounted'
    BY <2>2, <2>4, MaxBatchAssumption DEF Accounted
  <2>. QED
    BY <2>1, <2>3, <2>5 DEF IndInv, WakeupInv
<1>2. CASE GiveUp
  <2>1. TypeOK'
    BY <1>2 DEF IndInv, TypeOK, GiveUp, Locations
  <2>2. OneWakeup' /\ ArmedWhenEmpty' /\ Accounted'
    BY <1>2 DEF OneWakeup, ArmedWhenEmpty, Accounted, GiveUp
  <2>. QED
    BY <2>1, <2>2 DEF IndInv, WakeupInv
<1>3. CASE DestroyCq
  <2>1. TypeOK'
    BY <1>3 DEF IndInv, TypeOK, DestroyCq, Locations
  <2>2. OneWakeup' /\ ArmedWhenEmpty' /\ Accounted'
    BY <1>3 DEF OneWakeup, ArmedWhenEmpty, Accounted, DestroyCq
  <2>. QED
    BY <2>1, <2>2 DEF IndInv, WakeupInv
<1>4. CASE Finished
  BY <1>4 DEF IndInv, TypeOK, WakeupInv, OneWakeup, ArmedWhenEmpty,
              Accounted, Posted, AllSucceeded, Finished, vars
<1>. QED
  BY <1>1, <1>2, <1>3, <1>4

-----------------------------------------------------------------------------
(* What a failing ibv_poll_cq may report without being mistaken for a      *)
(* count of completions.  The theorems about results assume it; without    *)
(* it they are false (see ResultIsCount in the README).                    *)

HarmlessPollErrors == PollErrors \cap (1 .. MaxBatch) = {}

\* A poll error that is no possible expected_wc is not taken for success.
LEMMA PollFailsIndInv ==
  ASSUME HarmlessPollErrors, IndInv, PollFails
  PROVE  IndInv'
<1>1. PICK k \in PollErrors : Return(k)
  BY DEF PollFails
<1>2. /\ ret' = k /\ pc' = "returned"
      /\ UNCHANGED <<cq, inflight, expected, wc>>
  BY <1>1 DEF PollFails, Return
<1>3. k \in Nat \ {0} /\ k \notin 1 .. MaxBatch
  BY PollErrorsAssumption DEF HarmlessPollErrors
<1>4. expected \in 0 .. MaxBatch
  BY DEF IndInv, TypeOK
<1>5. ret' # expected'
  BY <1>2, <1>3, <1>4, MaxBatchAssumption
<1>6. TypeOK'
  BY <1>2, <1>3 DEF IndInv, TypeOK, Locations
<1>7. OneWakeup' /\ ArmedWhenEmpty' /\ Accounted'
  BY <1>2, <1>5 DEF OneWakeup, ArmedWhenEmpty, Accounted
<1>. QED
  BY <1>6, <1>7 DEF IndInv, WakeupInv

\* IndInv is inductive: one case for each action of Next.
LEMMA NextIndInv ==
  ASSUME HarmlessPollErrors, IndInv, [Next]_vars
  PROVE  IndInv'
<1>1. CASE Device
  BY <1>1, CompleteIndInv DEF Device
<1>2. CASE Caller
  <2>1. CASE \E n \in 1 .. MaxBatch : Poll(n)
    BY <2>1, PollIndInv
  <2>. QED
    BY <1>2, <2>1, GetEventIndInv, ReqNotifyIndInv, AckIndInv,
       EndOfCallIndInv, CallerIndInv DEF Caller
<1>3. CASE Post \/ Call
  BY <1>3, PostIndInv, CallIndInv
<1>4. CASE GetEventFails \/ ReqNotifyFails
  BY <1>4, EndOfCallIndInv
<1>5. CASE PollFails
  BY <1>5, PollFailsIndInv
<1>6. CASE Finished
  BY <1>6, CallerIndInv
<1>7. CASE UNCHANGED vars
  BY <1>7 DEF IndInv, TypeOK, WakeupInv, OneWakeup, ArmedWhenEmpty,
              Accounted, Posted, AllSucceeded, vars
<1>. QED
  BY <1>1, <1>2, <1>3, <1>4, <1>5, <1>6, <1>7 DEF Next

\* The queue, the notification request and the call stay in step for every
\* batch size: process_work_completion_event keeps exactly one wake-up.
THEOREM WakeupCorrect ==
  ASSUME HarmlessPollErrors
  PROVE  Spec => [](TypeOK /\ WakeupInv)
<1>1. Init => IndInv
  BY InitIndInv
<1>2. IndInv /\ [Next]_vars => IndInv'
  BY NextIndInv
<1>. QED
  BY <1>1, <1>2, PTL DEF Spec, IndInv

\* Every variable keeps its type; in particular the counters of the queue stay
\* natural numbers, so no event is taken or acknowledged that is not there.
THEOREM TypeCorrect ==
  ASSUME HarmlessPollErrors
  PROVE  Spec => []TypeOK
<1>. QED
  BY WakeupCorrect, PTL

\* No call blocks in ibv_get_cq_event with a completion in the queue.
THEOREM NoLostWakeupCorrect ==
  ASSUME HarmlessPollErrors
  PROVE  Spec => []NoLostWakeup
<1>1. IndInv => NoLostWakeup
  BY DEF IndInv, TypeOK, CqType, WakeupInv, OneWakeup, ArmedWhenEmpty,
         NoLostWakeup
<1>. QED
  BY <1>1, WakeupCorrect, PTL DEF IndInv

\* A call leaves nothing for the next one to take for its own.
THEOREM CleanHandoverCorrect ==
  ASSUME HarmlessPollErrors
  PROVE  Spec => []CleanHandover
<1>1. IndInv => CleanHandover
  BY DEF IndInv, WakeupInv, Accounted, CleanHandover, Posted
<1>. QED
  BY <1>1, WakeupCorrect, PTL DEF IndInv

\* The result equals expected_wc only when that many successful completions
\* were retrieved.
THEOREM ResultIsCountCorrect ==
  ASSUME HarmlessPollErrors
  PROVE  Spec => []ResultIsCount
<1>1. IndInv => ResultIsCount
  BY DEF IndInv, WakeupInv, Accounted, ResultIsCount
<1>. QED
  BY <1>1, WakeupCorrect, PTL DEF IndInv

-----------------------------------------------------------------------------
(* Refinement of CompletionBatch. *)

\* Moving completions from the queue to wc[] neither adds nor hides errors.
LEMMA PollKeepsErrors ==
  ASSUME NEW w \in Seq(Status), NEW q \in CqType(Status),
         NEW n \in 1 .. Len(q.wcs)
  PROVE  (HasError(w \o Polled(q, n)) \/ HasError(ibv_poll_cq(q, n).wcs))
           <=> (HasError(w) \/ HasError(q.wcs))
<1>. DEFINE s == q.wcs
            taken == SubSeq(s, 1, n)
            left == SubSeq(s, n + 1, Len(s))
<1>1. s \in Seq(Status) /\ Len(s) \in Nat /\ n \in 1 .. Len(s)
  BY DEF CqType
<1>2. Polled(q, n) = taken /\ ibv_poll_cq(q, n).wcs = left
  BY DEF Polled, ibv_poll_cq, CqType
<1>. HIDE DEF s
<1>3. /\ Len(taken) = n /\ Len(left) = Len(s) - n
      /\ \A i \in 1 .. n : taken[i] = s[i]
      /\ \A i \in 1 .. Len(s) - n : left[i] = s[n + i]
  BY <1>1
<1>4. HasError(s) <=> (HasError(taken) \/ HasError(left))
  <2>1. ASSUME HasError(s) PROVE HasError(taken) \/ HasError(left)
    <3>1. PICK i \in 1 .. Len(s) : s[i] = "error"
      BY <2>1 DEF HasError
    <3>2. CASE i <= n
      BY <1>1, <1>3, <3>1, <3>2 DEF HasError
    <3>3. CASE i > n
      <4>1. i - n \in 1 .. Len(s) - n /\ n + (i - n) = i
        BY <1>1, <3>1, <3>3
      <4>2. left[i - n] = "error"
        BY <1>3, <3>1, <4>1
      <4>. QED
        BY <1>3, <4>1, <4>2 DEF HasError
    <3>. QED
      BY <1>1, <3>1, <3>2, <3>3
  <2>2. ASSUME HasError(taken) PROVE HasError(s)
    BY <1>1, <1>3, <2>2 DEF HasError
  <2>3. ASSUME HasError(left) PROVE HasError(s)
    <3>1. PICK i \in 1 .. Len(s) - n : left[i] = "error"
      BY <1>3, <2>3 DEF HasError
    <3>2. n + i \in 1 .. Len(s) /\ s[n + i] = "error"
      BY <1>1, <1>3, <3>1
    <3>. QED
      BY <3>2 DEF HasError
  <2>. QED
    BY <2>1, <2>2, <2>3
<1>5. HasError(w \o taken) <=> (HasError(w) \/ HasError(taken))
  <2>. DEFINE t == taken
  <2>1. t \in Seq(Status) /\ Len(t) \in Nat /\ Len(w) \in Nat
    BY <1>1, <1>3
  <2>. HIDE DEF t
  <2>2. /\ Len(w \o t) = Len(w) + Len(t)
        /\ \A i \in 1 .. Len(w) : (w \o t)[i] = w[i]
        /\ \A i \in 1 .. Len(t) : (w \o t)[Len(w) + i] = t[i]
    BY <2>1
  <2>3. ASSUME HasError(w \o t) PROVE HasError(w) \/ HasError(t)
    <3>1. PICK i \in 1 .. Len(w) + Len(t) : (w \o t)[i] = "error"
      BY <2>2, <2>3 DEF HasError
    <3>2. CASE i <= Len(w)
      BY <2>1, <2>2, <3>1, <3>2 DEF HasError
    <3>3. CASE i > Len(w)
      <4>1. i - Len(w) \in 1 .. Len(t) /\ Len(w) + (i - Len(w)) = i
        BY <2>1, <3>1, <3>3
      <4>2. t[i - Len(w)] = "error"
        BY <2>2, <3>1, <4>1
      <4>. QED
        BY <4>1, <4>2 DEF HasError
    <3>. QED
      BY <2>1, <3>1, <3>2, <3>3
  <2>4. ASSUME HasError(w) PROVE HasError(w \o t)
    BY <2>1, <2>2, <2>4 DEF HasError
  <2>5. ASSUME HasError(t) PROVE HasError(w \o t)
    <3>1. PICK i \in 1 .. Len(t) : t[i] = "error"
      BY <2>5 DEF HasError
    <3>2. Len(w) + i \in 1 .. Len(w \o t) /\ (w \o t)[Len(w) + i] = "error"
      BY <2>1, <2>2, <3>1
    <3>. QED
      BY <3>2 DEF HasError
  <2>6. HasError(w \o t) <=> (HasError(w) \/ HasError(t))
    BY <2>3, <2>4, <2>5
  <2>. QED
    BY <2>6 DEF t
<1>. QED
  BY <1>2, <1>4, <1>5 DEF s

\* A completion added at the end of the queue.
LEMMA ArriveErrors ==
  ASSUME NEW q \in CqType(Status), NEW s \in Status
  PROVE  HasError(Arrive(q, <<s>>).wcs) <=> (HasError(q.wcs) \/ s = "error")
<1>. DEFINE w == q.wcs
<1>1. w \in Seq(Status) /\ Len(w) \in Nat
  BY DEF CqType
<1>2. Arrive(q, <<s>>).wcs = Append(w, s)
  <2>1. w \o <<s>> = Append(w, s) /\ <<s>> # <<>>
    BY <1>1
  <2>. QED
    BY <2>1 DEF Arrive, CqType
<1>. HIDE DEF w
<1>3. /\ Len(Append(w, s)) = Len(w) + 1
      /\ Append(w, s)[Len(w) + 1] = s
      /\ \A i \in 1 .. Len(w) : Append(w, s)[i] = w[i]
  BY <1>1
<1>4. HasError(Append(w, s)) <=> (HasError(w) \/ s = "error")
  BY <1>1, <1>3 DEF HasError
<1>. QED
  BY <1>2, <1>4 DEF w

Waiting == {"get", "arm", "poll", "check"}

\* Phase, location by location.
LEMMA PhaseValue ==
  /\ pc \in Waiting => Phase = "waiting"
  /\ pc = "idle" => Phase = "free"
  /\ pc = "returned" => Phase = IF ret = expected THEN "free" ELSE "failed"
  /\ pc \in {"cleanup", "destroyed"} => Phase = "failed"
BY DEF Phase, Waiting

\* The same after a step.
LEMMA PhaseValuePrime ==
  /\ pc' \in Waiting => Phase' = "waiting"
  /\ pc' = "idle" => Phase' = "free"
  /\ pc' = "returned" => Phase' = IF ret' = expected' THEN "free" ELSE "failed"
  /\ pc' \in {"cleanup", "destroyed"} => Phase' = "failed"
BY DEF Phase, Waiting

\* A completion of the device is one of the abstract batch.
LEMMA CompleteRefines ==
  ASSUME IndInv, NEW status \in Status, Complete(status)
  PROVE  Batch!Complete \/ UNCHANGED Batch!vars
<1>1. UNCHANGED <<pc, expected, wc, ret>> /\ cq' = Arrive(cq, <<status>>)
      /\ inflight \in Nat /\ inflight > 0 /\ inflight' = inflight - 1
      /\ cq \in CqType(Status) /\ Len(cq.wcs) \in Nat
  BY DEF Complete, IndInv, TypeOK, CqType
<1>2. Phase' = Phase
  BY <1>1 DEF Phase
<1>3. Phase \in {"free", "waiting", "failed"}
  BY DEF Phase
<1>4. Posted' = Posted
  <2>1. Len(cq'.wcs) = Len(cq.wcs) + 1
    BY <1>1, ArriveOne
  <2>. QED
    BY <1>1, <2>1 DEF Posted
<1>5. BatchSize' = BatchSize
  BY <1>1, <1>2, <1>4 DEF BatchSize
<1>6. CASE Phase # "failed"
  <2>1. HasError(cq'.wcs) <=> (HasError(cq.wcs) \/ status = "error")
    BY <1>1, ArriveErrors
  <2>2. HasError(wc') <=> HasError(wc)
    BY <1>1
  <2>3. Broken' \in {Broken, TRUE}
    BY <1>2, <2>1, <2>2 DEF Broken
  <2>4. Outstanding = inflight /\ Outstanding' = inflight - 1
    BY <1>1, <1>2, <1>6 DEF Outstanding
  <2>. QED
    BY <1>1, <1>2, <1>3, <1>5, <1>6, <2>3, <2>4 DEF Batch!Complete
<1>7. CASE Phase = "failed"
  BY <1>2, <1>5, <1>7 DEF Outstanding, Broken, Batch!vars
<1>. QED
  BY <1>6, <1>7

\* Posting is a request of the abstract batch.
LEMMA PostRefines ==
  ASSUME IndInv, Post
  PROVE  Batch!Request
<1>1. /\ pc = "idle" /\ pc' = "idle" /\ inflight' = inflight + 1
      /\ inflight \in Nat /\ Len(cq.wcs) \in Nat
      /\ UNCHANGED <<cq, wc>> /\ Posted < MaxBatch
  BY DEF Post, IndInv, TypeOK, CqType
<1>2. Phase = "free" /\ Phase' = "free"
  BY <1>1, PhaseValue, PhaseValuePrime
<1>3. Posted' = Posted + 1
  BY <1>1, PostedGrows
<1>4. BatchSize = Posted /\ BatchSize' = Posted'
  BY <1>2 DEF BatchSize
<1>5. Outstanding' = Outstanding + 1
  BY <1>1, <1>2 DEF Outstanding
<1>6. Broken' = Broken
  BY <1>1, <1>2 DEF Broken, HasError
<1>. QED
  BY <1>1, <1>2, <1>3, <1>4, <1>5, <1>6 DEF Batch!Request

\* A call is the start of the abstract wait.
LEMMA CallRefines ==
  ASSUME Call
  PROVE  Batch!Await
<1>1. /\ pc = "idle" /\ pc' = "get" /\ wc' = <<>> /\ Posted > 0
      /\ expected' = Posted /\ UNCHANGED <<cq, inflight>>
  BY DEF Call
<1>2. Phase = "free" /\ Phase' = "waiting"
  BY <1>1, PhaseValue, PhaseValuePrime DEF Waiting
<1>3. Broken' = Broken
  <2>1. ~HasError(wc') /\ (HasError(cq'.wcs) <=> HasError(cq.wcs))
    BY <1>1 DEF HasError
  <2>. QED
    BY <1>2, <2>1 DEF Broken
<1>4. BatchSize = Posted /\ BatchSize' = Posted
  BY <1>1, <1>2 DEF BatchSize
<1>5. Outstanding' = Outstanding
  BY <1>1, <1>2 DEF Outstanding
<1>. QED
  BY <1>1, <1>2, <1>3, <1>4, <1>5 DEF Batch!Await

\* The steps inside a call are invisible to the abstraction.
LEMMA InsideRefines ==
  ASSUME IndInv,
         GetEvent \/ ReqNotify \/ (\E n \in 1 .. MaxBatch : Poll(n))
  PROVE  UNCHANGED Batch!vars
<1>1. CASE GetEvent \/ ReqNotify
  <2>1. /\ pc \in Waiting /\ pc' \in Waiting
        /\ UNCHANGED <<inflight, expected, wc>> /\ cq'.wcs = cq.wcs
    BY <1>1 DEF GetEvent, ReqNotify, Waiting, ibv_get_cq_event,
                ibv_req_notify_cq, IndInv, TypeOK, CqType
  <2>2. Phase = "waiting" /\ Phase' = "waiting"
    BY <2>1, PhaseValue, PhaseValuePrime
  <2>. QED
    BY <2>1, <2>2 DEF BatchSize, Outstanding, Broken, HasError, Batch!vars
<1>2. CASE \E n \in 1 .. MaxBatch : Poll(n)
  <2>1. PICK n \in 1 .. MaxBatch : Poll(n)
    BY <1>2
  <2>2. /\ pc \in Waiting /\ pc' \in Waiting
        /\ UNCHANGED <<inflight, expected>>
        /\ n \in 1 .. Len(cq.wcs)
        /\ wc' = wc \o Polled(cq, n) /\ cq' = ibv_poll_cq(cq, n)
        /\ wc \in Seq(Status) /\ cq \in CqType(Status)
    BY <2>1 DEF Poll, Waiting, IndInv, TypeOK
  <2>3. Phase = "waiting" /\ Phase' = "waiting"
    BY <2>2, PhaseValue, PhaseValuePrime
  <2>4. (HasError(wc') \/ HasError(cq'.wcs))
           <=> (HasError(wc) \/ HasError(cq.wcs))
    BY <2>2, PollKeepsErrors
  <2>5. Broken' = Broken
    BY <2>3, <2>4 DEF Broken
  <2>6. Outstanding' = Outstanding /\ BatchSize' = BatchSize
    BY <2>2, <2>3 DEF Outstanding, BatchSize
  <2>. QED
    BY <2>3, <2>5, <2>6 DEF Batch!vars
<1>. QED
  BY <1>1, <1>2

\* The acknowledgement is the delivery of the abstract batch.
LEMMA AckRefines ==
  ASSUME IndInv, Ack
  PROVE  Batch!Deliver
<1>1. IndInv'
  BY AckIndInv
<1>2. /\ pc = "check" /\ pc' = "returned" /\ ret' = Len(wc)
      /\ UNCHANGED <<inflight, expected, wc>> /\ AllSucceeded
      /\ Len(wc) = expected
  BY DEF Ack, Return, IndInv, WakeupInv, Accounted
<1>3. cq'.wcs = <<>> /\ inflight' = 0
  BY <1>1, <1>2 DEF IndInv, WakeupInv, Accounted
<1>4. cq.wcs = <<>>
  BY <1>3 DEF Ack, ibv_ack_cq_events, IndInv, TypeOK, CqType
<1>5. Phase = "waiting" /\ Phase' = "free"
  BY <1>2, PhaseValue, PhaseValuePrime DEF Waiting
<1>6. Outstanding = 0 /\ Outstanding' = 0 /\ BatchSize' = 0
  BY <1>2, <1>3, <1>5 DEF Outstanding, BatchSize, Posted
<1>7. ~HasError(wc) /\ ~HasError(cq.wcs) /\ ~HasError(cq'.wcs)
  BY <1>2, <1>3, <1>4 DEF HasError, AllSucceeded
<1>8. Broken = FALSE /\ Broken' = FALSE
  BY <1>5, <1>7 DEF Broken
<1>. QED
  BY <1>5, <1>6, <1>8 DEF Batch!Deliver

\* A call that fails is a failure of the abstract batch; the steps of the
\* caller after it are invisible.
LEMMA EndOfCallRefines ==
  ASSUME HarmlessPollErrors, IndInv,
         GetEventFails \/ ReqNotifyFails \/ BadStatus \/ PollFails
  PROVE  Batch!Fail
<1>1. /\ pc \in Waiting /\ pc' = "returned" /\ expected' = expected
      /\ ret' = -1 \/ ret' \in PollErrors
  BY DEF GetEventFails, ReqNotifyFails, BadStatus, PollFails, Return, Waiting
<1>2. pc = "check" \/ pc \in {"get", "arm", "poll"}
  BY <1>1 DEF Waiting
<1>3. expected \in 0 .. MaxBatch /\ expected # 0
  <2>1. Len(wc) \in Nat
    BY DEF IndInv, TypeOK
  <2>2. expected \in 0 .. MaxBatch
    BY DEF IndInv, TypeOK
  <2>3. CASE pc \in {"get", "arm"}
    BY <2>2, <2>3 DEF IndInv, WakeupInv, Accounted
  <2>4. CASE pc = "poll"
    BY <2>1, <2>2, <2>4, MaxBatchAssumption DEF IndInv, WakeupInv, Accounted
  <2>5. CASE pc = "check"
    <3>1. ~AllSucceeded
      BY <2>5 DEF GetEventFails, ReqNotifyFails, BadStatus, PollFails
    <3>2. Len(wc) = expected
      BY <2>5 DEF IndInv, WakeupInv, Accounted
    <3>. QED
      BY <2>1, <2>2, <3>1, <3>2 DEF AllSucceeded
  <2>. QED
    BY <1>2, <2>2, <2>3, <2>4, <2>5
<1>4. ret' # expected'
  BY <1>1, <1>3, MaxBatchAssumption, PollErrorsAssumption
     DEF HarmlessPollErrors
<1>5. Phase = "waiting" /\ Phase' = "failed"
  BY <1>1, <1>4, PhaseValue, PhaseValuePrime
<1>. QED
  BY <1>5 DEF BatchSize, Outstanding, Broken, Batch!Fail

\* Every step of the caller is a step of the abstract batch or invisible.
LEMMA CallerRefines ==
  ASSUME GoOn \/ GiveUp \/ DestroyCq \/ Finished
  PROVE  UNCHANGED Batch!vars
<1>1. CASE GoOn
  BY <1>1, PhaseValue, PhaseValuePrime
     DEF GoOn, BatchSize, Posted, Outstanding, Broken, HasError, Batch!vars
<1>2. CASE GiveUp
  BY <1>2, PhaseValue, PhaseValuePrime
     DEF GiveUp, BatchSize, Posted, Outstanding, Broken, HasError, Batch!vars
<1>3. CASE DestroyCq
  BY <1>3, PhaseValue, PhaseValuePrime
     DEF DestroyCq, BatchSize, Posted, Outstanding, Broken, HasError, Batch!vars
<1>4. CASE Finished
  BY <1>4, PhaseValue, PhaseValuePrime
     DEF Finished, vars, BatchSize, Posted, Outstanding, Broken, HasError,
         Batch!vars
<1>. QED
  BY <1>1, <1>2, <1>3, <1>4

\* process_work_completion_event keeps the promise of CompletionBatch (its
\* safety part), for every batch size.
THEOREM WorkCompletionRefinesBatch ==
  ASSUME HarmlessPollErrors
  PROVE  Spec => Batch!Safety
<1>1. Init => Batch!Init
  <2>. SUFFICES ASSUME Init PROVE Batch!Init
    OBVIOUS
  <2>2. inflight = 0 /\ Phase = "free"
    BY DEF Init, Phase
  <2>3. cq.wcs = <<>>
    <3>1. NewCq.wcs = <<>> /\ NewCq \in CqType(Status)
      BY DEF NewCq, CqType
    <3>. QED
      BY <3>1 DEF Init, ibv_req_notify_cq, CqType
  <2>. QED
    BY <2>2, <2>3 DEF BatchSize, Posted, Outstanding, Broken, HasError, Batch!Init
<1>2. ASSUME IndInv, [Next]_vars
      PROVE  [Batch!Next]_(Batch!vars)
  <2>1. CASE Device
    BY <1>2, <2>1, CompleteRefines DEF Device, Batch!Next
  <2>2. CASE Caller
    BY <1>2, <2>2, InsideRefines, AckRefines, EndOfCallRefines,
       CallerRefines DEF Caller, Batch!Next
  <2>3. CASE Post \/ Call
    BY <1>2, <2>3, PostRefines, CallRefines DEF Batch!Next
  <2>4. CASE GetEventFails \/ ReqNotifyFails \/ PollFails
    BY <1>2, <2>4, EndOfCallRefines DEF Batch!Next
  <2>5. CASE Finished
    BY <2>5, CallerRefines
  <2>6. CASE UNCHANGED vars
    BY <2>6 DEF vars, Phase, BatchSize, Posted, Outstanding, Broken, HasError,
                Batch!vars
  <2>. QED
    BY <1>2, <2>1, <2>2, <2>3, <2>4, <2>5, <2>6 DEF Next
<1>. QED
  BY <1>1, <1>2, WakeupCorrect, PTL DEF Spec, IndInv, Batch!Safety
=============================================================================
