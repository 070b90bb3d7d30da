----------------------------- MODULE RdmaServer -----------------------------
(***************************************************************************)
(* rdma_server.c: the functions main calls one after the other, and        *)
(* cleanup_server.  The server serves the first client that connects and   *)
(* ends.                                                                   *)
(***************************************************************************)
EXTENDS RdmaCommon

\* setup_server up to the wait for CONNECT_REQUEST.
SetupServer ==
  /\ pc[Server] = "setup_server"
  /\ LET resources == <<"cm_event_channel", "cm_server_id", "rai">>
     IN  \/ /\ Holding(Server, ToSet(resources))
            /\ listening' = TRUE
            /\ Goto(Server, "connect_request")
            /\ UNCHANGED <<ret, wait, got>>
         \/ FailsPartway(Server, resources) /\ UNCHANGED listening
  /\ UNCHANGED <<workVars, dataVars, cl, sv, peer, channel, ub>>

\* The end of setup_server: the id of the new connection is taken out of the
\* event before the event is acknowledged.
ConnectRequest ==
  /\ pc[Server] = "connect_request"
  /\ process_rdma_event(Server)
  /\ peer' = Head(channel[Server]).id
  /\ Holding(Server, {"cm_client_id"})
  /\ Goto(Server, "setup_communication_resources")
  /\ UNCHANGED <<wait, got, ret, workVars, dataVars, cl, sv, listening, ub>>

\* The last of the calls that can fail are ibv_req_notify_cq, which is checked
\* here, and rdma_create_qp.
setup_communication_resources ==
  /\ pc[Server] = "setup_communication_resources"
  /\ LET resources ==
           <<"protection_domain", "completion_channel", "completion_queue">>
     IN  \/ /\ Holding(Server, ToSet(resources) \cup {"queue_pair"})
            /\ cq' = [cq EXCEPT ![Server] = ibv_req_notify_cq(NewCq)]
            /\ qp' = [qp EXCEPT ![Server] = "reset"]
            /\ Goto(Server, "post_metadata_recv_buffer")
            /\ UNCHANGED <<ret, wait, got>>
         \/ FailsPartway(Server, resources) /\ UNCHANGED <<cq, qp>>
         \/ /\ FailsUnnoticed(Server, ToSet(resources),
                              "post_metadata_recv_buffer")
            /\ UNCHANGED <<cq, qp>>
  /\ UNCHANGED <<sq, sent, rq, dataVars, cmVars, channel, ub>>

\* A bug the properties must catch: no receive is posted.
MutantNoReceive ==
  /\ pc[Server] = "post_metadata_recv_buffer"
  /\ Holding(Server, {"client_metadata_mr"})
  /\ Goto(Server, "accept_client_connection")
  /\ UNCHANGED <<ret, wait, got, workVars, dataVars, cmVars, channel, ub>>

\* Register the region for the client's metadata and post the receive.
ServerPostsRecv ==
  /\ pc[Server] = "post_metadata_recv_buffer"
  /\ "queue_pair" \in held[Server]
  /\ \/ /\ Holding(Server, {"client_metadata_mr"})
        /\ rq' = [rq EXCEPT ![Server] = @ + 1]
        /\ Goto(Server, "accept_client_connection")
        /\ UNCHANGED <<ret, wait, got>>
     \/ FailsPartway(Server, <<"client_metadata_mr">>) /\ UNCHANGED rq
  /\ UNCHANGED <<cq, sq, sent, qp, dataVars, cmVars, channel, ub>>

\* The server ends at once and the kernel takes back what it held.
ServerDies ==
  /\ Goto(Server, "killed")
  /\ wait' = [wait EXCEPT ![Server] = "none"]
  /\ held' = [held EXCEPT ![Server] = {}]
  /\ cq' = [cq EXCEPT ![Server] = NewCq]
  /\ sq' = [sq EXCEPT ![Server] = <<>>]
  /\ sent' = [sent EXCEPT ![Server] = <<>>]
  /\ rq' = [rq EXCEPT ![Server] = 0]
  /\ qp' = [qp EXCEPT ![Server] = "none"]
  /\ listening' = FALSE
  /\ sv' = [c \in Clients |-> IF sv[c] = "none" THEN "none" ELSE "closed"]
  /\ channel' = [channel EXCEPT ![Server] = <<>>]
  /\ UNCHANGED <<got, ret, dataVars, cl, peer, ub>>

\* Without a queue pair the region may still fail to be registered; if it is,
\* ibv_post_recv follows a null pointer.
ServerPostsToNoQp ==
  /\ pc[Server] = "post_metadata_recv_buffer"
  /\ "queue_pair" \notin held[Server]
  /\ \/ ServerDies
     \/ /\ "call" \in Faults
        /\ Fail(Server, -1)
        /\ UNCHANGED <<got, held, workVars, dataVars, cmVars, channel, ub>>

\* A bug the properties must catch: every client that asks is accepted, on one
\* queue pair.
MutantAcceptsAll ==
  /\ pc[Server] = "accept_client_connection"
  /\ qp' = [qp EXCEPT ![Server] = "up"]
  /\ sv' = [c \in Clients |-> IF sv[c] = "requested" THEN "accepted" ELSE sv[c]]
  /\ Goto(Server, "established")
  /\ UNCHANGED <<ret, wait, got, held, cq, sq, sent, rq, dataVars, cl,
                 listening, peer, channel, ub>>

\* A bug the properties must catch: the server waits for the client although
\* rdma_accept has failed.
MutantAcceptUnchecked ==
  /\ pc[Server] = "accept_client_connection"
  /\ \/ /\ qp' = [qp EXCEPT ![Server] = "up"]
        /\ sv' = [sv EXCEPT ![peer] = "accepted"]
     \/ "call" \in Faults /\ UNCHANGED <<qp, sv>>
  /\ Goto(Server, "established")
  /\ UNCHANGED <<ret, wait, got, held, cq, sq, sent, rq, dataVars, cl,
                 listening, peer, channel, ub>>

\* rdma_accept, which brings the queue pair up, until the wait for
\* ESTABLISHED.
accept_client_connection ==
  /\ pc[Server] = "accept_client_connection"
  /\ \/ /\ qp' = [qp EXCEPT ![Server] = "up"]
        /\ sv' = [sv EXCEPT ![peer] = "accepted"]
        /\ Goto(Server, "established")
        /\ UNCHANGED <<ret, wait, got, held>>
     \/ FailsPartway(Server, <<>>) /\ UNCHANGED <<qp, sv>>
  /\ UNCHANGED <<cq, sq, sent, rq, dataVars, cl, listening, peer, channel,
                 ub>>

\* The connection is up; exchange_metadata_with_client starts by waiting for
\* the client's metadata.
ServerEstablished ==
  /\ pc[Server] = "established"
  /\ process_rdma_event(Server)
  /\ Goto(Server, "exchange_metadata_with_client")
  /\ AwaitCompletions(Server)
  /\ UNCHANGED <<ret, held, workVars, dataVars, cmVars, ub>>

\* A bug the properties must catch: the buffer is one byte short.
MutantShortBuffer(size) == buf' = [data |-> Zeros, len |-> size - 1]

\* create_rdma_buffer(pd, size, perms) succeeds.
create_rdma_buffer(size) == buf' = [data |-> Zeros, len |-> size]

\* create_rdma_buffer fails: without a buffer, or without a region, and then
\* nobody is left with a pointer to the buffer.  Whether a region of no bytes
\* can be registered is up to the device.
NoRdmaBuffer(size) ==
  /\ "call" \in Faults \/ size = 0
  /\ \E lost \in {{}, {"leaked_buffer"}} : Holding(Server, lost)
  /\ UNCHANGED buf

\* The client's metadata is here: allocate a buffer of the length it gives,
\* send the metadata of that buffer, and wait for the completion of the send.
SendServerMetadata ==
  /\ pc[Server] = "exchange_metadata_with_client"
  /\ AwaitSucceeded(Server)
  /\ \/ /\ create_rdma_buffer(meta[Server].length)
        /\ Holding(Server, {"server_buffer", "server_buffer_mr",
                            "server_metadata_mr"})
        /\ PostSend(Server, "SEND")
        /\ AwaitCompletions(Server)
        /\ Goto(Server, "send_server_metadata")
        /\ UNCHANGED ret
     \/ /\ NoRdmaBuffer(meta[Server].length)
        /\ Fail(Server, -1)
        /\ UNCHANGED <<got, cq, sq>>
     \/ /\ "call" \in Faults
        /\ create_rdma_buffer(meta[Server].length)
        /\ \E region \in {{}, {"server_metadata_mr"}} :
             Holding(Server, {"server_buffer", "server_buffer_mr"} \cup region)
        /\ Fail(Server, -1)
        /\ UNCHANGED <<got, cq, sq>>
     \/ /\ create_rdma_buffer(meta[Server].length)
        /\ FailsUnnoticed(Server, {"server_buffer", "server_buffer_mr",
                                   "server_metadata_mr"},
                          "disconnect_from_client")
        /\ UNCHANGED <<cq, sq>>
  /\ UNCHANGED <<sent, rq, qp, meta, dst, printed, cmVars, channel, ub>>

\* A bug the properties must catch: the server does not wait for the client.
MutantLeavesAtOnce ==
  /\ pc[Server] = "send_server_metadata"
  /\ AwaitSucceeded(Server)
  /\ Goto(Server, "release")
  /\ wait' = [wait EXCEPT ![Server] = "none"]
  /\ UNCHANGED <<got, ret, held, workVars, dataVars, cmVars, channel, ub>>

\* The metadata has been sent, or a wait has ended with 0: wait for the client
\* to disconnect.
ServerMetadataSent ==
  /\ \/ pc[Server] = "send_server_metadata" /\ AwaitPasses(Server)
     \/ /\ pc[Server] = "exchange_metadata_with_client"
        /\ AwaitPasses(Server) /\ ~AwaitSucceeded(Server)
  /\ Goto(Server, "disconnect_from_client")
  /\ wait' = [wait EXCEPT ![Server] = "none"]
  /\ UNCHANGED <<got, ret, held, workVars, dataVars, cmVars, channel, ub>>

\* disconnect_from_client after the event: print the buffer, return 0.
disconnect_from_client ==
  /\ pc[Server] = "disconnect_from_client"
  /\ process_rdma_event(Server)
  /\ printed' = [printed EXCEPT ![Server] = buf.data]
  /\ ret' = [ret EXCEPT ![Server] = 0]
  /\ Goto(Server, "release")
  /\ UNCHANGED <<wait, got, held, workVars, meta, buf, dst, cmVars, ub>>

-----------------------------------------------------------------------------
(* cleanup_server *)

\* rdma_destroy_id of cm_client_id: refuses the request, or ends the
\* connection, or answers the client's disconnection.
ServerDestroysClientId ==
  /\ Releases(Server, "cm_client_id")
  /\ sv' = [sv EXCEPT ![peer] = "closed"]
  /\ UNCHANGED <<workVars, cl, listening, peer, channel>>

ServerDestroysServerId ==
  /\ Releases(Server, "cm_server_id")
  /\ listening' = FALSE
  /\ UNCHANGED <<workVars, cl, sv, peer, channel>>

\* Requests that were never accepted are refused, be their event unread or
\* their id lost.
RefuseRequests ==
  sv' = [c \in Clients |-> IF sv[c] = "requested" THEN "closed" ELSE sv[c]]

ServerDestroysChannel ==
  /\ Releases(Server, "cm_event_channel")
  /\ channel' = [channel EXCEPT ![Server] = <<>>]
  /\ RefuseRequests
  /\ UNCHANGED <<workVars, cl, listening, peer>>

cleanup_server ==
  \/ FreePlain(Server) \/ DestroyQp(Server) \/ DestroyCq(Server)
  \/ ServerDestroysClientId \/ ServerDestroysServerId
  \/ ServerDestroysChannel \/ Exit(Server)

KillServer ==
  /\ "kill" \in Faults
  /\ pc[Server] \notin {"setup_server", "exited", "killed"}
  /\ ServerDies

ServerStep ==
  \/ SetupServer \/ ConnectRequest \/ setup_communication_resources
  \/ ServerPostsRecv \/ ServerPostsToNoQp \/ accept_client_connection \/ ServerEstablished
  \/ SendServerMetadata \/ ServerMetadataSent \/ disconnect_from_client
  \/ RdmaEventFails(Server) \/ WorkCompletionEvent(Server) \/ cleanup_server
=============================================================================
