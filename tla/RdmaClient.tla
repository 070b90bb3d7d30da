----------------------------- MODULE RdmaClient -----------------------------
(***************************************************************************)
(* rdma_client.c: the functions main calls one after the other, and        *)
(* cleanup_client.  A function that waits is one action up to the wait and *)
(* one from its end; the wait itself is process_rdma_event or              *)
(* process_work_completion_event.                                          *)
(***************************************************************************)
EXTENDS RdmaCommon

\* A step that allocates one resource, or fails before it does.
AllocatesOrFails(c, resource, next) ==
  /\ \/ Holding(c, {resource}) /\ Goto(c, next) /\ UNCHANGED <<ret, wait>>
     \/ "call" \in Faults /\ Fail(c, -1) /\ UNCHANGED held
  /\ UNCHANGED got

\* setup_client up to the wait for ADDR_RESOLVED.
SetupClient(c) ==
  /\ pc[c] = "setup_client"
  /\ listening \/ "early" \in Faults
  /\ LET resources == <<"cm_event_channel", "cm_client_id", "rai">>
     IN  \/ /\ Holding(c, ToSet(resources))
            /\ cl' = [cl EXCEPT ![c] = "resolving_addr"]
            /\ Goto(c, "addr")
            /\ UNCHANGED <<ret, wait, got>>
         \/ FailsPartway(c, resources) /\ UNCHANGED cl
  /\ UNCHANGED <<workVars, dataVars, sv, listening, peer, channel, ub>>

\* rdma_resolve_route, up to the wait for ROUTE_RESOLVED.
AddrResolved(c) ==
  /\ pc[c] = "addr"
  /\ process_rdma_event(c)
  /\ \/ /\ cl' = [cl EXCEPT ![c] = "resolving_route"]
        /\ Goto(c, "route")
        /\ UNCHANGED <<ret, wait>>
     \/ "call" \in Faults /\ Fail(c, -1) /\ UNCHANGED cl
  /\ UNCHANGED <<got, held, workVars, dataVars, sv, listening, peer, ub>>

\* The end of setup_client.
RouteResolved(c) ==
  /\ pc[c] = "route"
  /\ process_rdma_event(c)
  /\ Goto(c, "setup_protection_domain")
  /\ UNCHANGED <<wait, got, ret, held, workVars, dataVars, cmVars, ub>>

setup_protection_domain(c) ==
  /\ pc[c] = "setup_protection_domain"
  /\ AllocatesOrFails(c, "protection_domain", "create_completion_channel")
  /\ UNCHANGED <<workVars, dataVars, cmVars, channel, ub>>

create_completion_channel(c) ==
  /\ pc[c] = "create_completion_channel"
  /\ AllocatesOrFails(c, "completion_channel", "create_completion_queue")
  /\ UNCHANGED <<workVars, dataVars, cmVars, channel, ub>>

\* A bug the properties must catch: no notification is requested.
MutantNoNotification(c) ==
  /\ pc[c] = "create_completion_queue"
  /\ AllocatesOrFails(c, "completion_queue", "setup_queue_pairs")
  /\ UNCHANGED <<workVars, dataVars, cmVars, channel, ub>>

\* The result of ibv_req_notify_cq is not looked at.
create_completion_queue(c) ==
  /\ pc[c] = "create_completion_queue"
  /\ AllocatesOrFails(c, "completion_queue", "setup_queue_pairs")
  /\ \E new \in {ibv_req_notify_cq(NewCq)} \cup
                  (IF "notify" \in Faults THEN {NewCq} ELSE {}) :
       cq' = [cq EXCEPT ![c] =
                IF "completion_queue" \in held'[c] THEN new ELSE @]
  /\ UNCHANGED <<sq, sent, rq, qp, dataVars, cmVars, channel, ub>>

setup_queue_pairs(c) ==
  /\ pc[c] = "setup_queue_pairs"
  /\ AllocatesOrFails(c, "queue_pair", "post_metadata_recv_buffer")
  /\ qp' = [qp EXCEPT ![c] =
              IF "queue_pair" \in held'[c] THEN "reset" ELSE @]
  /\ UNCHANGED <<cq, sq, sent, rq, dataVars, cmVars, channel, ub>>

\* Register the region for the server's metadata and post the receive.
ClientPostsRecv(c) ==
  /\ pc[c] = "post_metadata_recv_buffer"
  /\ \/ /\ Holding(c, {"server_metadata_mr"})
        /\ rq' = [rq EXCEPT ![c] = @ + 1]
        /\ Goto(c, "connect_to_server")
        /\ UNCHANGED <<ret, wait, got>>
     \/ FailsPartway(c, <<"server_metadata_mr">>) /\ UNCHANGED rq
     \/ /\ FailsUnnoticed(c, {"server_metadata_mr"}, "connect_to_server")
        /\ UNCHANGED rq
  /\ UNCHANGED <<cq, sq, sent, qp, dataVars, cmVars, channel, ub>>

\* rdma_connect, up to the wait for ESTABLISHED.
connect_to_server(c) ==
  /\ pc[c] = "connect_to_server"
  /\ \/ /\ cl' = [cl EXCEPT ![c] = "connecting"]
        /\ Goto(c, "established")
        /\ UNCHANGED <<ret, wait, got, held>>
     \/ FailsPartway(c, <<>>) /\ UNCHANGED cl
  /\ UNCHANGED <<workVars, dataVars, sv, listening, peer, channel, ub>>

\* Reading ESTABLISHED makes librdmacm bring the queue pair up and tell the
\* server that the client is ready.
ClientEstablished(c) ==
  /\ pc[c] = "established"
  /\ process_rdma_event(c)
  /\ cl' = [cl EXCEPT ![c] = "connected"]
  /\ qp' = [qp EXCEPT ![c] = "up"]
  /\ Goto(c, "exchange_metadata_with_server")
  /\ UNCHANGED <<wait, got, ret, held, cq, sq, sent, rq, dataVars, sv,
                 listening, peer, ub>>

\* Whether a region of that many bytes is registered is up to the device when
\* the message is empty.
RegistrationMayFail(c) == "call" \in Faults \/ MsgLen[c] = 0

\* Register the message and the metadata that describes it, send the metadata,
\* and wait for two completions: that of the send and that of the receive.
exchange_metadata_with_server(c) ==
  /\ pc[c] = "exchange_metadata_with_server"
  /\ wait[c] = "none"
  /\ \/ /\ Holding(c, {"client_src_mr", "client_metadata_mr"})
        /\ PostSend(c, "SEND")
        /\ AwaitCompletions(c)
        /\ UNCHANGED <<pc, ret>>
     \/ /\ FailsPartway(c, <<"client_src_mr", "client_metadata_mr">>)
        /\ UNCHANGED <<cq, sq>>
     \/ /\ RegistrationMayFail(c)
        /\ Fail(c, -1)
        /\ UNCHANGED <<got, held, cq, sq>>
     \/ /\ FailsUnnoticed(c, {"client_src_mr", "client_metadata_mr"},
                          "client_write_message")
        /\ UNCHANGED <<cq, sq>>
  /\ UNCHANGED <<sent, rq, qp, dataVars, cmVars, channel, ub>>

\* The function before has returned 0, from its wait or without waiting.
Enters(c, function, before) ==
  \/ pc[c] = before /\ AwaitPasses(c)
  \/ pc[c] = function /\ wait[c] = "none"

\* A WRITE or READ takes address and key from server_metadata when posted.
PostRdma(c, op) == PostSend(c, IF meta[c] = NoMetadata THEN "STRAY" ELSE op)

\* The metadata has been exchanged: write the message.
client_write_message(c) ==
  /\ Enters(c, "client_write_message", "exchange_metadata_with_server")
  /\ \/ /\ PostRdma(c, "WRITE")
        /\ AwaitCompletions(c)
        /\ Goto(c, "client_write_message")
        /\ UNCHANGED <<ret, held>>
     \/ FailsPartway(c, <<>>) /\ UNCHANGED <<cq, sq>>
     \/ FailsUnnoticed(c, {}, "client_read_message") /\ UNCHANGED <<cq, sq>>
  /\ UNCHANGED <<sent, rq, qp, dataVars, cmVars, channel, ub>>

\* The message has been written: read it back into a new buffer.
client_read_message(c) ==
  /\ Enters(c, "client_read_message", "client_write_message")
  /\ \/ /\ Holding(c, {"dst_buffer", "client_dst_mr"})
        /\ PostRdma(c, "READ")
        /\ AwaitCompletions(c)
        /\ Goto(c, "client_read_message")
        /\ dst' = [dst EXCEPT ![c] = Zeros]
        /\ UNCHANGED ret
     \/ /\ FailsPartway(c, <<"dst_buffer", "client_dst_mr">>)
        /\ UNCHANGED <<cq, sq, dst>>
     \/ /\ RegistrationMayFail(c)
        /\ Holding(c, {"dst_buffer"})
        /\ Fail(c, -1)
        /\ UNCHANGED <<got, cq, sq, dst>>
     \/ /\ "errno" \in Faults
        /\ Holding(c, {"dst_buffer", "client_dst_mr"})
        /\ Fail(c, 0)
        /\ UNCHANGED <<got, cq, sq, dst>>
  /\ UNCHANGED <<sent, rq, qp, meta, buf, printed, cmVars, channel, ub>>

\* The message has been read: print it and return ret, which is the number of
\* completions, so that main takes the branch for errors.  A wait that ended
\* with 0 makes main return 0, with nothing printed.
ReadComplete(c) ==
  /\ pc[c] = "client_read_message"
  /\ AwaitPasses(c)
  /\ printed' = [printed EXCEPT ![c] = IF AwaitSucceeded(c) THEN dst[c] ELSE @]
  /\ Fail(c, ret[c])
  /\ UNCHANGED <<got, held, workVars, meta, buf, dst, cmVars, channel, ub>>

\* Bugs the properties must catch: cleanup_client does not wait for the end of
\* the connection; it does not disconnect at all.
MutantNoWait(c) ==
  /\ pc[c] = "cleanup"
  /\ IF "queue_pair" \in held[c] THEN QpsToError({c}) ELSE UNCHANGED workVars
  /\ cl' = [cl EXCEPT ![c] = IF @ = "connected" THEN "disconnecting" ELSE @]
  /\ Goto(c, "release")
  /\ UNCHANGED <<wait, got, ret, held, dataVars, sv, listening, peer, channel,
                 ub>>

MutantNoDisconnect(c) ==
  /\ pc[c] = "cleanup"
  /\ Goto(c, "release")
  /\ UNCHANGED <<wait, got, ret, held, workVars, dataVars, cmVars, channel,
                 ub>>

\* cleanup_client, rdma_disconnect: moves the queue pair to the error state,
\* and tells the other side if the connection is up.  It says nothing and
\* fails if it is not; cleanup_client waits for the event in either case.
Disconnect(c) ==
  /\ pc[c] = "cleanup"
  /\ IF "cm_client_id" \in held[c]
     THEN /\ IF "queue_pair" \in held[c]
             THEN QpsToError({c})
             ELSE UNCHANGED workVars
          /\ cl' = [cl EXCEPT ![c] =
                      IF @ = "connected" THEN "disconnecting" ELSE @]
          /\ Goto(c, "disconnected")
     ELSE /\ Goto(c, "release")
          /\ UNCHANGED <<workVars, cl>>
  /\ UNCHANGED <<wait, got, ret, held, dataVars, sv, listening, peer, channel,
                 ub>>

\* What the death of a process does to its side of a connection: the kernel
\* closes it.
Closed(state) ==
  IF state \in {"connected", "disconnecting", "disconnected", "left"}
  THEN "left" ELSE "gone"

\* The process is gone and the kernel takes back what it held.
ClientDies(c) ==
  /\ Goto(c, "killed")
  /\ wait' = [wait EXCEPT ![c] = "none"]
  /\ held' = [held EXCEPT ![c] = {}]
  /\ cq' = [cq EXCEPT ![c] = NewCq]
  /\ sq' = [sq EXCEPT ![c] = <<>>]
  /\ sent' = [sent EXCEPT ![c] = <<>>]
  /\ rq' = [rq EXCEPT ![c] = 0]
  /\ qp' = [qp EXCEPT ![c] = "none"]
  /\ cl' = [cl EXCEPT ![c] = Closed(@)]
  /\ channel' = [channel EXCEPT ![c] = <<>>]
  /\ UNCHANGED <<got, ret, sv, listening, peer>>

\* cleanup_client after the wait for DISCONNECTED.  If process_rdma_event
\* reports an error it has acknowledged the event, which frees it, and
\* cleanup_client acknowledges it again: free notices and aborts, or does not.
Disconnected(c) ==
  /\ pc[c] = "disconnected"
  /\ channel[c] # <<>>
  /\ IF IsExpected(c, "DISCONNECTED")
     THEN UNCHANGED ub
     ELSE ub' = ub \cup {"event_freed_twice"}
  /\ \/ /\ TakeEvent(c)
        /\ cl' = [cl EXCEPT ![c] = IF @ = "replied" THEN "quiet" ELSE @]
        /\ Goto(c, "release")
        /\ UNCHANGED <<wait, got, ret, held, workVars, sv, listening, peer>>
     \/ /\ ~IsExpected(c, "DISCONNECTED")
        /\ ClientDies(c)
  /\ UNCHANGED dataVars

\* There is no event to acknowledge if rdma_get_cm_event failed.
NoDisconnected(c) ==
  /\ pc[c] = "disconnected"
  /\ "get_event" \in Faults
  /\ Goto(c, "release")
  /\ UNCHANGED <<wait, got, ret, held, workVars, dataVars, cmVars, channel,
                 ub>>

\* rdma_destroy_id.
ClientDestroysId(c) ==
  /\ Releases(c, "cm_client_id")
  /\ cl' = [cl EXCEPT ![c] = Closed(@)]
  /\ UNCHANGED <<workVars, sv, listening, peer, channel>>

ClientDestroysChannel(c) ==
  /\ Releases(c, "cm_event_channel")
  /\ channel' = [channel EXCEPT ![c] = <<>>]
  /\ UNCHANGED <<workVars, cmVars>>

cleanup_client(c) ==
  \/ Disconnect(c) \/ Disconnected(c) \/ NoDisconnected(c)
  \/ FreePlain(c) \/ DestroyQp(c) \/ DestroyCq(c)
  \/ ClientDestroysId(c) \/ ClientDestroysChannel(c) \/ Exit(c)

KillClient(c) ==
  /\ "kill" \in Faults
  /\ pc[c] \notin {"setup_client", "exited", "killed"}
  /\ ClientDies(c)
  /\ UNCHANGED <<dataVars, ub>>

ClientStep(c) ==
  \/ SetupClient(c) \/ AddrResolved(c) \/ RouteResolved(c)
  \/ setup_protection_domain(c) \/ create_completion_channel(c)
  \/ create_completion_queue(c) \/ setup_queue_pairs(c)
  \/ ClientPostsRecv(c) \/ connect_to_server(c) \/ ClientEstablished(c)
  \/ exchange_metadata_with_server(c) \/ client_write_message(c)
  \/ client_read_message(c) \/ ReadComplete(c)
  \/ RdmaEventFails(c) \/ WorkCompletionEvent(c) \/ cleanup_client(c)
=============================================================================
