---------------------------- MODULE RdmaSession -----------------------------
(***************************************************************************)
(* The whole system: rdma-client processes that each write a message into  *)
(* the memory of one rdma-server and read it back.                         *)
(***************************************************************************)
EXTENDS RdmaClient, RdmaServer, RdmaFabric

Init ==
  /\ pc = [p \in Procs |->
             IF p = Server THEN "setup_server" ELSE "setup_client"]
  /\ wait = [p \in Procs |-> "none"]
  /\ got = [p \in Procs |-> <<>>]
  /\ ret = [p \in Procs |-> 0]
  /\ held = [p \in Procs |-> IF p = Server THEN {} ELSE {"src_buffer"}]
  /\ printed = [p \in Procs |-> Nothing]
  /\ cq = [p \in Procs |-> NewCq]
  /\ sq = [p \in Procs |-> <<>>]
  /\ sent = [p \in Procs |-> <<>>]
  /\ rq = [p \in Procs |-> 0]
  /\ qp = [p \in Procs |-> "none"]
  /\ meta = [p \in Procs |-> NoMetadata]
  /\ buf = [data |-> Nothing, len |-> 0]
  /\ dst = [c \in Clients |-> Nothing]
  /\ channel = [p \in Procs |-> <<>>]
  /\ cl = [c \in Clients |-> "idle"]
  /\ sv = [c \in Clients |-> "none"]
  /\ listening = FALSE
  /\ peer = Nobody
  /\ ub = {}

Over == {"exited", "killed"}

\* Nothing happens any more when every process is over.
Terminated == (\A p \in Procs : pc[p] \in Over) /\ UNCHANGED vars

Next ==
  \/ \E c \in Clients : ClientStep(c) \/ KillClient(c) \/ Cm(c)
  \/ ServerStep \/ KillServer
  \/ \E p \in Procs : Device(p)
  \/ Terminated

\* Each process is scheduled, each connection's CM messages arrive or are
\* given up, and each device works through what is posted to it.
Fairness ==
  /\ \A c \in Clients : WF_vars(ClientStep(c)) /\ WF_vars(Cm(c))
  /\ WF_vars(ServerStep)
  /\ \A p \in Procs : WF_vars(Device(p))

Spec == Init /\ [][Next]_vars /\ Fairness

-----------------------------------------------------------------------------
(* Types. *)

Locations ==
  {"setup_client", "addr", "route", "setup_protection_domain",
   "create_completion_channel", "create_completion_queue",
   "setup_queue_pairs", "post_metadata_recv_buffer", "connect_to_server",
   "established", "exchange_metadata_with_server", "client_write_message",
   "client_read_message", "cleanup", "disconnected", "setup_server",
   "connect_request", "setup_communication_resources",
   "accept_client_connection", "exchange_metadata_with_client",
   "send_server_metadata", "disconnect_from_client", "release", "exited",
   "killed"}

\* What the server has allocated and no variable of it points to.
Unreachable == {"leaked_buffer", "leaked_cm_id"}

Resources == ToSet(ClientRelease) \cup ToSet(ServerRelease) \cup Unreachable

TypeOK ==
  /\ pc \in [Procs -> Locations]
  /\ wait \in [Procs -> {"none", "get_event", "req_notify", "poll",
                          "returned"}]
  /\ got \in [Procs -> Seq(WorkCompletions)]
  /\ ret \in [Procs -> Int]
  /\ held \in [Procs -> SUBSET Resources]
  /\ printed \in [Procs -> Contents]
  /\ cq \in [Procs -> CqType(WorkCompletions)]
  /\ sq \in [Procs -> Seq(Opcodes)]
  /\ sent \in [Procs -> Seq(Opcodes)]
  /\ rq \in [Procs -> Nat]
  /\ qp \in [Procs -> {"none", "reset", "up", "error"}]
  /\ meta \in [Procs -> Metadata]
  /\ buf \in [data : Contents, len : Nat]
  /\ dst \in [Clients -> Contents]
  /\ channel \in [Procs -> Seq(CmEvents)]
  /\ cl \in [Clients -> {"idle", "resolving_addr", "resolving_route", "quiet",
                         "connecting", "replied", "connected",
                         "disconnecting", "disconnected", "left", "gone"}]
  /\ sv \in [Clients -> {"none", "requested", "accepted", "connected",
                         "parted", "lost", "closed"}]
  /\ listening \in BOOLEAN
  /\ peer \in Clients \cup {Nobody}
  /\ ub \subseteq {"event_freed_twice", "freed_buffer"}

-----------------------------------------------------------------------------
(* Safety. *)

\* A client that reports a complete read (rdma_client.c:725) prints its own
\* message, whatever completions, notifications and failures came before.
EchoIntegrity == \A c \in Clients : printed[c] \in {Nothing, c}

\* The server prints its buffer only when the client that reported a complete
\* read has left it there, and nothing else (rdma_server.c:604-605).
ServerSeesMessage ==
  \A c \in Clients :
    (printed[c] # Nothing /\ printed[Server] # Nothing) =>
      printed[Server] = c /\ peer = c

\* A receive is posted before the other side can send to it: no metadata SEND
\* finds the receive queue empty (the reason why both programs post theirs
\* before connecting or accepting).
ReceiverReady ==
  \A p \in Procs :
    (Linked(p) /\ sq[p] # <<>> /\ Head(sq[p]) = "SEND") => rq[Remote(p)] > 0

\* While the connection is up, a WRITE or READ that waits to be carried out
\* finds the region open, with the key and the length the client was told.
RemoteAccessValid ==
  \A c \in Clients :
    (Linked(c) /\ sq[c] # <<>> /\ Head(sq[c]) \in {"WRITE", "READ"}) =>
      AccessAllowed(c)

\* The device never reads or writes server_buffer after cleanup_server has
\* freed it, although the region is deregistered later (rdma_server.c:53-61).
NoFreedAccess == "freed_buffer" \notin ub

\* What the device may still use is registered: a posted receive or send on a
\* queue pair that is not in the error state has its regions.
PostedRegions(c) ==
  (IF rq[c] > 0 THEN {"server_metadata_mr"} ELSE {})
    \cup (IF "SEND" \in ToSet(sq[c]) THEN {"client_metadata_mr"} ELSE {})
    \cup (IF "WRITE" \in ToSet(sq[c]) THEN {"client_src_mr"} ELSE {})
    \cup (IF "READ" \in ToSet(sq[c]) THEN {"client_dst_mr"} ELSE {})

\* cleanup_client deregisters the regions before it destroys the queue pair
\* (rdma_client.c:95-118): no request is posted to it by then.
ClientRegionsRegistered ==
  \A c \in Clients :
    PostedRegions(c) \subseteq held[c]

\* The library objects that must outlive each object of the library.
MadeFrom ==
  [queue_pair |-> {"protection_domain", "completion_queue", "cm_client_id"},
   completion_queue |-> {"completion_channel"},
   client_metadata_mr |-> {"protection_domain"},
   server_metadata_mr |-> {"protection_domain"},
   client_src_mr |-> {"protection_domain"},
   client_dst_mr |-> {"protection_domain"},
   server_buffer_mr |-> {"protection_domain"},
   cm_client_id |-> {"cm_event_channel"},
   cm_server_id |-> {"cm_event_channel"},
   leaked_cm_id |-> {"cm_event_channel"}]

OutlivedBy(p, r) == MadeFrom[r] \subseteq held[p]

\* Each library object outlives the objects made from it, in every order in
\* which the programs allocate, fail and clean up.
DependentsFirst ==
  \A p \in Procs : \A r \in held[p] \cap DOMAIN MadeFrom : OutlivedBy(p, r)

\* The same of the objects a program can reach.  The id of a second client's
\* request is not one of them: rdma_server.c:116-118 destroys its channel.
ReachableFirst ==
  \A p \in Procs :
    \A r \in (held[p] \ Unreachable) \cap DOMAIN MadeFrom : OutlivedBy(p, r)

\* A thread about to block for a completion event has one to wake it if the
\* completion is there (WorkCompletion!NoLostWakeup, at both ends at once).
NoLostWakeup ==
  \A p \in Procs :
    (wait[p] = "get_event" /\ cq[p].wcs # <<>>) => cq[p].events > 0

\* A call of process_work_completion_event that succeeds has retrieved the
\* completions of the requests its caller posted, not those of another step.
OwnCompletions ==
  \A p \in Procs : AwaitSucceeded(p) =>
    LET ops == {got[p][i].op : i \in DOMAIN got[p]}
    IN  ops = CASE pc[p] = "exchange_metadata_with_server" -> {"SEND", "RECV"}
                [] pc[p] = "client_write_message" -> {"WRITE"}
                [] pc[p] = "client_read_message" -> {"READ"}
                [] pc[p] = "exchange_metadata_with_client" -> {"RECV"}
                [] pc[p] = "send_server_metadata" -> {"SEND"}

\* The server returns 0 only after its client can no longer use the buffer
\* (rdma_server.c:581-583).
ServerWaitsForClient ==
  (pc[Server] \in {"release", "exited"} /\ ret[Server] = 0) =>
     peer # Nobody /\ qp[peer] # "up"

\* The server has a connection with one client at most, the one whose id it
\* holds, whatever other clients ask for.
OneConnection ==
  \A c \in Clients :
    cl[c] \in {"replied", "connected", "disconnecting"} => peer = c

\* A program that returns from main has released everything.
NothingLeaked ==
  \A p \in Procs : pc[p] = "exited" => held[p] = {}

\* Whatever fails, and whoever else asks for a connection, a client and a
\* server that returns 0 have released everything.  A server that returns an
\* error can have lost two things: the buffer that create_rdma_buffer cannot
\* register (rdma_common.c:124-129) and the id of a request read by another
\* wait (rdma_common.c:27-33).
NothingElseLeaked ==
  \A p \in Procs : pc[p] = "exited" =>
    held[p] \subseteq (IF p = Server /\ ret[p] # 0 THEN Unreachable ELSE {})

-----------------------------------------------------------------------------
(* Action properties. *)

\* The client gives up its id only when the server has given up its own: it
\* waits for the server to clean up, not only to notice (rdma_client.c:59-71).
ClientLeavesLast ==
  [][\A c \in Clients :
       (cl[c] # "left" /\ cl'[c] = "left") => sv[c] = "closed"]_vars

\* Once the client has been told where the buffer is, the buffer stays there
\* until the client disconnects.
BufferStays ==
  [][\A c \in Clients :
       (qp[c] = "up" /\ meta[c] # NoMetadata) =>
         held'[Server] \cap {"server_buffer", "server_buffer_mr"}
           = held[Server] \cap {"server_buffer", "server_buffer_mr"}]_vars

-----------------------------------------------------------------------------
(* The programs implement EchoService. *)

Service == INSTANCE EchoService WITH
             chosen <- peer,
             memory <- buf.data,
             shown <- [c \in Clients |-> printed[c]],
             report <- printed[Server]

\* Whatever fails outside the programs, they do no more than to choose one
\* client, store its message, show it to that client, and show it at the
\* server when the client has left (rdma_client.c:635-637, rdma_server.c:581-583).
ImplementsService == Service!Safety

-----------------------------------------------------------------------------
(* Liveness. *)

\* Both programs end, and the client has its message back by then.
EchoHappens ==
  <>(/\ \A p \in Procs : pc[p] = "exited"
     /\ \A c \in Clients : printed[c] = c)

\* A program that waits in ibv_destroy_cq for the acknowledgement of an event
\* that no call will give: the function ends at a bad status before it
\* acknowledges (rdma_common.c:89-103).
StuckInCleanup(p) ==
  pc[p] = "release" /\ "completion_queue" \in held[p] /\ ~CanDestroyCq(cq[p])

\* A server that has handed out its buffer does not wait for ever for the end
\* of the connection, whatever becomes of the client (rdma_server.c:581-583);
\* only a client that is stuck in cleanup can keep it waiting.
ServerEnds ==
  pc[Server] = "disconnect_from_client" ~>
    pc[Server] \in Over \/ \E c \in Clients : StuckInCleanup(c)

\* Once rdma_accept has succeeded the wait for ESTABLISHED ends, whatever
\* becomes of a client that gives up, fails or dies meanwhile
\* (rdma_server.c:411-424).
AcceptEnds ==
  pc[Server] = "established" ~> pc[Server] # "established"

\* cleanup_client gets as far as giving back src_buffer, as main promises
\* (rdma_client.c:751-754: "We'll free it when we clean up").
CleanupFreesMessage ==
  \A c \in Clients : pc[c] = "cleanup" ~> "src_buffer" \notin held[c]
=============================================================================
