----------------------------- MODULE RdmaCommon -----------------------------
(***************************************************************************)
(* The state of one RDMA server and its clients, and what their programs   *)
(* share: rdma_common.c, and the way main and cleanup are laid out in both *)
(* rdma_client.c and rdma_server.c.  A process p is a client or Server;    *)
(* the globals of its program are the p-th entries of the variables below. *)
(***************************************************************************)
EXTENDS Verbs, FiniteSets, SequencesExt

CONSTANTS
  Clients,       \* the client processes
  Server,        \* the server process
  Nobody,        \* no client
  MsgLen,        \* MsgLen[c]: strlen of the message given to client c
  KeysCoincide,  \* whether the device gives a region one value for both keys
  PollErrors,    \* values k such that ibv_poll_cq may fail with -k
  Faults         \* what can go wrong: see FaultNames

FaultNames ==
  {"early",      \* a client is started before the server listens
   "call",       \* a library call that only starts something fails
   "get_event",  \* rdma_get_cm_event or ibv_get_cq_event fails
   "notify",     \* ibv_req_notify_cq fails
   "errno",      \* a verb that returns its error and leaves errno 0 fails
   "resolve",    \* an address or a route is not resolved
   "timeout",    \* the connection manager gives up on the other side
   "wc",         \* the device completes a work request with an error
   "kill"}       \* a process is killed

ASSUME ClientsAssumption ==
  Clients # {} /\ Server \notin Clients /\ Nobody \notin Clients \cup {Server}
ASSUME MsgLenAssumption == MsgLen \in [Clients -> Nat]
ASSUME KeysAssumption == KeysCoincide \in BOOLEAN
ASSUME PollErrorsAssumption == PollErrors \subseteq Nat \ {0}
ASSUME FaultsAssumption == Faults \subseteq FaultNames

Procs == Clients \cup {Server}

VARIABLES
  pc,         \* the function p is in, or the event it waits for there
  wait,       \* where p is inside process_work_completion_event
  got,        \* the completions retrieved by that call, wc[]
  ret,        \* the last result: of that call, and at the end of main
  held,       \* the resources p has allocated and not released
  printed,    \* what p printed as the message
  cq,         \* completion_queue and its channel
  sq,         \* send work requests posted and not carried out
  sent,       \* send work requests carried out, completion not written yet
  rq,         \* number of receive work requests posted
  qp,         \* state of the queue pair
  meta,       \* the rdma_buffer_attr received from the other side
  buf,        \* server_buffer: its contents and its length
  dst,        \* dst_buffer of client c: its contents
  channel,    \* CM events queued on cm_event_channel
  cl,         \* the client's side of the connection of client c
  sv,         \* the server's side of the connection of client c
  listening,  \* the server's cm_server_id listens
  peer,       \* the client behind the server's cm_client_id
  ub          \* undefined behaviour that has occurred

procVars == <<pc, wait, got, ret, held>>
workVars == <<cq, sq, sent, rq, qp>>
dataVars == <<meta, buf, dst, printed>>
cmVars == <<cl, sv, listening, peer>>
vars == <<procVars, workVars, dataVars, cmVars, channel, ub>>

(* The message of client c is written c.  What else a buffer can contain:  *)
Zeros == "zeros"      \* as calloc leaves it
Garbage == "garbage"  \* memory reused after it was freed
Nothing == "nothing"  \* no buffer, or nothing printed
Contents == Clients \cup {Zeros, Garbage, Nothing}

\* A client, and so a message, is not taken for one of them.
ASSUME ContentsAssumption == Clients \cap {Zeros, Garbage, Nothing} = {}

\* rdma_buffer_attr; the address stands and falls with the key.
Metadata == [length : Nat, key : {"none", "lkey", "rkey"}]
NoMetadata == [length |-> 0, key |-> "none"]

\* A STRAY request is a WRITE or READ made from server_metadata that was never
\* received.
Opcodes == {"SEND", "WRITE", "READ", "STRAY", "RECV"}
WorkCompletions == [op : Opcodes, ok : BOOLEAN]
Wc(op, ok) == [op |-> op, ok |-> ok]

CmEvents == [type : {"ADDR_RESOLVED", "ROUTE_RESOLVED", "CONNECT_REQUEST",
                     "ESTABLISHED", "DISCONNECTED", "FAILURE"},
             ok : BOOLEAN, id : Clients]
Ok(type, c) == [type |-> type, ok |-> TRUE, id |-> c]
Bad(type, c) == [type |-> type, ok |-> FALSE, id |-> c]

-----------------------------------------------------------------------------
(* Steps of both programs. *)

Goto(p, location) == pc' = [pc EXCEPT ![p] = location]

\* A bug the properties must catch: 0 is returned after every error.
MutantFailReturnsZero(p, r) ==
  /\ Goto(p, IF p = Server THEN "release" ELSE "cleanup")
  /\ ret' = [ret EXCEPT ![p] = 0]
  /\ wait' = [wait EXCEPT ![p] = "none"]

\* main: a step that returns r # 0 is followed by cleanup and `return r'.
Fail(p, r) ==
  /\ Goto(p, IF p = Server THEN "release" ELSE "cleanup")
  /\ ret' = [ret EXCEPT ![p] = r]
  /\ wait' = [wait EXCEPT ![p] = "none"]

Holding(p, resources) ==
  held' = [held EXCEPT ![p] = @ \cup resources]

\* A function that allocates the resources of a sequence one by one, and ends
\* with a last call that allocates none, fails after any number of them.
FailsPartway(p, resources) ==
  /\ "call" \in Faults
  /\ \E n \in 0 .. Len(resources) :
       Holding(p, ToSet(SubSeq(resources, 1, n)))
  /\ Fail(p, -1)
  /\ UNCHANGED got

\* ibv_post_send, ibv_post_recv and ibv_req_notify_cq return their error, and
\* the function that called them returns -errno: if errno is 0, as it may be,
\* main takes that for success and calls the next function.
FailsUnnoticed(p, resources, next) ==
  /\ "errno" \in Faults
  /\ Holding(p, resources)
  /\ Goto(p, next)
  /\ wait' = [wait EXCEPT ![p] = "none"]
  /\ UNCHANGED <<ret, got>>

-----------------------------------------------------------------------------
(* process_rdma_event *)

\* The event each wait expects, by location.
Awaited == [addr |-> "ADDR_RESOLVED", route |-> "ROUTE_RESOLVED",
            connect_request |-> "CONNECT_REQUEST",
            established |-> "ESTABLISHED",
            disconnect_from_client |-> "DISCONNECTED"]

TakeEvent(p) == channel' = [channel EXCEPT ![p] = Tail(@)]

\* A bug the properties must catch: the type of the event is not tested.
MutantAnyGoodEvent(p, type) == Head(channel[p]).ok

IsExpected(p, type) == Head(channel[p]).ok /\ Head(channel[p]).type = type

\* It returns 0 and the caller acknowledges the event.
process_rdma_event(p) ==
  /\ pc[p] \in DOMAIN Awaited
  /\ channel[p] # <<>>
  /\ IsExpected(p, Awaited[pc[p]])
  /\ TakeEvent(p)

\* The id that rdma_get_cm_event makes for a CONNECT_REQUEST is in the event
\* alone: it is lost with an event that is acknowledged and not looked at.
LostWith(event) ==
  IF event.type = "CONNECT_REQUEST" THEN {"leaked_cm_id"} ELSE {}

\* It returns an error: rdma_get_cm_event failed, or the event has a status or
\* a type that is not the expected one, and is acknowledged here.
RdmaEventFails(p) ==
  /\ pc[p] \in DOMAIN Awaited
  /\ \/ "get_event" \in Faults /\ UNCHANGED <<channel, held>>
     \/ /\ channel[p] # <<>>
        /\ ~IsExpected(p, Awaited[pc[p]])
        /\ Holding(p, LostWith(Head(channel[p])))
        /\ TakeEvent(p)
  /\ Fail(p, -1)
  /\ UNCHANGED <<got, workVars, dataVars, cmVars, ub>>

-----------------------------------------------------------------------------
(* process_work_completion_event: see WorkCompletion for the function by   *)
(* itself.                                                                 *)

\* A bug the properties must catch: the client expects one completion of its
\* metadata exchange, that of the receive or that of the send.
MutantExpectsOne(p) == 1

\* expected_wc, by the function that waits.
Expected(p) == IF pc[p] = "exchange_metadata_with_server" THEN 2 ELSE 1

\* The call is made: its wc[] is empty.
AwaitCompletions(p) ==
  /\ wait' = [wait EXCEPT ![p] = "get_event"]
  /\ got' = [got EXCEPT ![p] = <<>>]

Returned(p, r) ==
  /\ wait' = [wait EXCEPT ![p] = "returned"]
  /\ ret' = [ret EXCEPT ![p] = r]

GetCqEvent(p) ==
  /\ wait[p] = "get_event"
  /\ CanGetCqEvent(cq[p])
  /\ cq' = [cq EXCEPT ![p] = ibv_get_cq_event(@)]
  /\ wait' = [wait EXCEPT ![p] = "req_notify"]
  /\ UNCHANGED <<pc, got, ret, held, sq, sent, rq, qp, dataVars, cmVars,
                 channel, ub>>

\* A bug the properties must catch: the notification is not renewed.
MutantNoRenewal(p) ==
  /\ wait[p] = "req_notify"
  /\ wait' = [wait EXCEPT ![p] = "poll"]
  /\ UNCHANGED <<pc, got, ret, held, workVars, dataVars, cmVars, channel, ub>>

ReqNotifyCq(p) ==
  /\ wait[p] = "req_notify"
  /\ cq' = [cq EXCEPT ![p] = ibv_req_notify_cq(@)]
  /\ wait' = [wait EXCEPT ![p] = "poll"]
  /\ UNCHANGED <<pc, got, ret, held, sq, sent, rq, qp, dataVars, cmVars,
                 channel, ub>>

\* Bugs the properties must catch: no look at the statuses; one
\* acknowledgement per completion.
MutantIgnoresStatus(p) ==
  /\ wait[p] = "poll"
  /\ \E n \in 1 .. Expected(p) - Len(got[p]) :
       LET wcs == got[p] \o Polled(cq[p], n)
           rest == ibv_poll_cq(cq[p], n)
       IN  /\ n <= Len(cq[p].wcs)
           /\ got' = [got EXCEPT ![p] = wcs]
           /\ IF Len(wcs) < Expected(p)
              THEN UNCHANGED <<wait, ret>> /\ cq' = [cq EXCEPT ![p] = rest]
              ELSE /\ Returned(p, Len(wcs))
                   /\ cq' = [cq EXCEPT ![p] = ibv_ack_cq_events(rest, 1)]
  /\ UNCHANGED <<pc, held, sq, sent, rq, qp, dataVars, cmVars, channel, ub>>

MutantAckEach(p) ==
  /\ wait[p] = "poll"
  /\ LET n == Expected(p)
     IN  /\ n <= Len(cq[p].wcs)
         /\ got' = [got EXCEPT ![p] = Polled(cq[p], n)]
         /\ Returned(p, n)
         /\ cq' = [cq EXCEPT ![p] =
                     ibv_ack_cq_events(ibv_poll_cq(@, n), n)]
  /\ UNCHANGED <<pc, held, sq, sent, rq, qp, dataVars, cmVars, channel, ub>>

\* A turn of the polling loop that finds completions, and after the last one
\* the tests of their status and, if all are good, the acknowledgement.
PollCq(p) ==
  /\ wait[p] = "poll"
  /\ \E n \in 1 .. Expected(p) - Len(got[p]) :
       LET wcs == got[p] \o Polled(cq[p], n)
           allGood == \A i \in DOMAIN wcs : wcs[i].ok
           rest == ibv_poll_cq(cq[p], n)
       IN  /\ n <= Len(cq[p].wcs)
           /\ got' = [got EXCEPT ![p] = wcs]
           /\ IF Len(wcs) < Expected(p)
              THEN UNCHANGED <<wait, ret>>
              ELSE Returned(p, IF allGood THEN Len(wcs) ELSE -1)
           /\ cq' = [cq EXCEPT ![p] =
                       IF Len(wcs) = Expected(p) /\ allGood
                       THEN ibv_ack_cq_events(rest, 1) ELSE rest]
  /\ UNCHANGED <<pc, held, sq, sent, rq, qp, dataVars, cmVars, channel, ub>>

\* A library call inside it fails; ibv_poll_cq's error changes sign.
WorkCompletionError(p) ==
  /\ \/ wait[p] = "get_event" /\ "get_event" \in Faults /\ Returned(p, -1)
     \/ wait[p] = "req_notify" /\ "notify" \in Faults /\ Returned(p, -1)
     \/ wait[p] = "req_notify" /\ "errno" \in Faults /\ Returned(p, 0)
     \/ wait[p] = "poll" /\ \E k \in PollErrors : Returned(p, k)
  /\ UNCHANGED <<pc, got, held, workVars, dataVars, cmVars, channel, ub>>

\* The caller's test ret != expected_wc, which makes the caller return ret.
AwaitSucceeded(p) == wait[p] = "returned" /\ ret[p] = Expected(p)

\* What main sees of it: a caller that returns 0 is followed by the next step.
AwaitPasses(p) == AwaitSucceeded(p) \/ (wait[p] = "returned" /\ ret[p] = 0)

AwaitFailed(p) ==
  /\ wait[p] = "returned"
  /\ ~AwaitPasses(p)
  /\ Fail(p, ret[p])
  /\ UNCHANGED <<got, held, workVars, dataVars, cmVars, channel, ub>>

WorkCompletionEvent(p) ==
  \/ GetCqEvent(p) \/ ReqNotifyCq(p) \/ PollCq(p)
  \/ WorkCompletionError(p) \/ AwaitFailed(p)

-----------------------------------------------------------------------------
(* ibv_post_send: a queue pair in the error state completes the request at *)
(* once, with an error.                                                    *)

PostSend(p, op) ==
  IF qp[p] = "up"
  THEN sq' = [sq EXCEPT ![p] = Append(@, op)] /\ UNCHANGED cq
  ELSE /\ cq' = [cq EXCEPT ![p] = Arrive(@, <<Wc(op, FALSE)>>)]
       /\ UNCHANGED sq

Errors(ops, receives) ==
  [i \in 1 .. Len(ops) |-> Wc(ops[i], FALSE)]
    \o [i \in 1 .. receives |-> Wc("RECV", FALSE)]

\* The queue pairs of ps go to the error state: what was carried out
\* completes, and every request still posted to them does so with an error.
QpsToError(ps) ==
  LET Flushed(p) == [i \in DOMAIN sent[p] |-> Wc(sent[p][i], TRUE)]
                      \o Errors(sq[p], rq[p])
  IN  /\ qp' = [p \in Procs |-> IF p \in ps THEN "error" ELSE qp[p]]
      /\ cq' = [p \in Procs |->
                  IF p \in ps THEN Arrive(cq[p], Flushed(p)) ELSE cq[p]]
      /\ sq' = [p \in Procs |-> IF p \in ps THEN <<>> ELSE sq[p]]
      /\ sent' = [p \in Procs |-> IF p \in ps THEN <<>> ELSE sent[p]]
      /\ rq' = [p \in Procs |-> IF p \in ps THEN 0 ELSE rq[p]]

-----------------------------------------------------------------------------
(* cleanup_client and cleanup_server: each releases what is held, in the   *)
(* order of its code.                                                      *)

\* Bugs the properties must catch: the address information is kept; the
\* completion channel goes before the queue that reports to it.
MutantKeepsRai ==
  <<"src_buffer", "dst_buffer", "client_metadata_mr", "client_src_mr",
    "client_dst_mr", "server_metadata_mr", "queue_pair", "completion_queue",
    "completion_channel", "protection_domain", "cm_client_id",
    "cm_event_channel">>

MutantChannelFirst ==
  <<"src_buffer", "dst_buffer", "client_metadata_mr", "client_src_mr",
    "client_dst_mr", "server_metadata_mr", "queue_pair",
    "completion_channel", "completion_queue", "protection_domain", "rai",
    "cm_client_id", "cm_event_channel">>

ClientRelease ==
  <<"src_buffer", "dst_buffer", "client_metadata_mr", "client_src_mr",
    "client_dst_mr", "server_metadata_mr", "queue_pair", "completion_queue",
    "completion_channel", "protection_domain", "rai", "cm_client_id",
    "cm_event_channel">>

ServerRelease ==
  <<"server_buffer", "server_buffer_mr", "server_metadata_mr",
    "client_metadata_mr", "queue_pair", "completion_queue",
    "completion_channel", "protection_domain", "cm_client_id",
    "cm_server_id", "rai", "cm_event_channel">>

ReleaseOrder(p) == IF p = Server THEN ServerRelease ELSE ClientRelease

\* r is what the cleanup function of p releases next.
Releases(p, r) ==
  /\ pc[p] = "release"
  /\ \E i \in DOMAIN ReleaseOrder(p) :
       /\ r = ReleaseOrder(p)[i]
       /\ \A j \in 1 .. i - 1 : ReleaseOrder(p)[j] \notin held[p]
  /\ r \in held[p]
  /\ held' = [held EXCEPT ![p] = @ \ {r}]
  /\ UNCHANGED <<pc, wait, got, ret, dataVars, ub>>

\* What needs no more than to be given back.
FreePlain(p) ==
  /\ \E r \in ToSet(ReleaseOrder(p)) \
                {"queue_pair", "completion_queue", "cm_client_id",
                 "cm_server_id", "cm_event_channel"} : Releases(p, r)
  /\ UNCHANGED <<workVars, cmVars, channel>>

\* ibv_destroy_qp: the requests and the completions of the pair are dropped.
\* The server's client_queue_pair is called queue_pair here, and its
\* io_completion_channel completion_channel, as they are in the client.
DestroyQp(p) ==
  /\ Releases(p, "queue_pair")
  /\ qp' = [qp EXCEPT ![p] = "none"]
  /\ sq' = [sq EXCEPT ![p] = <<>>]
  /\ sent' = [sent EXCEPT ![p] = <<>>]
  /\ rq' = [rq EXCEPT ![p] = 0]
  /\ cq' = [cq EXCEPT ![p].wcs = <<>>]
  /\ UNCHANGED <<cmVars, channel>>

DestroyCq(p) ==
  /\ Releases(p, "completion_queue")
  /\ CanDestroyCq(cq[p])
  /\ cq' = [cq EXCEPT ![p] = NewCq]
  /\ UNCHANGED <<sq, sent, rq, qp, cmVars, channel>>

Exit(p) ==
  /\ pc[p] = "release"
  /\ ToSet(ReleaseOrder(p)) \cap held[p] = {}
  /\ Goto(p, "exited")
  /\ UNCHANGED <<wait, got, ret, held, workVars, dataVars, cmVars, channel,
                 ub>>
=============================================================================
