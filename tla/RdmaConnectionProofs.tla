------------------------ MODULE RdmaConnectionProofs ------------------------
(***************************************************************************)
(* Whose connection it is: the server serves the one client it has chosen, *)
(* hears of the end of that connection only, and ends after it.            *)
(***************************************************************************)
EXTENDS RdmaResourcesProofs

-----------------------------------------------------------------------------
(* A step of one process leaves the others alone. *)

Domains ==
  /\ DOMAIN pc = Procs /\ DOMAIN wait = Procs /\ DOMAIN got = Procs
  /\ DOMAIN ret = Procs /\ DOMAIN held = Procs /\ DOMAIN cq = Procs
  /\ DOMAIN sq = Procs /\ DOMAIN sent = Procs /\ DOMAIN rq = Procs
  /\ DOMAIN qp = Procs /\ DOMAIN channel = Procs
  /\ DOMAIN cl = Clients /\ DOMAIN sv = Clients /\ DOMAIN meta = Procs

LEMMA DomainsHold == ASSUME TypeInv PROVE Domains
BY TypeParts DEF TypeInv, ProcTypes, WorkTypes, CmTypes, DataTypes, Domains

ProcElsewhere(p) ==
  \A q \in Procs : q # p =>
    /\ pc'[q] = pc[q] /\ wait'[q] = wait[q] /\ got'[q] = got[q]
    /\ ret'[q] = ret[q] /\ held'[q] = held[q]

WorkElsewhere(p) ==
  \A q \in Procs : q # p =>
    /\ cq'[q] = cq[q] /\ sq'[q] = sq[q] /\ sent'[q] = sent[q]
    /\ rq'[q] = rq[q] /\ qp'[q] = qp[q]

ChannelElsewhere(p) == \A q \in Procs : q # p => channel'[q] = channel[q]

Elsewhere(p) == ProcElsewhere(p) /\ WorkElsewhere(p) /\ ChannelElsewhere(p)

LEMMA Unchanged ==
  /\ UNCHANGED procVars => \A p : ProcElsewhere(p)
  /\ UNCHANGED workVars => \A p : WorkElsewhere(p)
  /\ UNCHANGED channel => \A p : ChannelElsewhere(p)
BY DEF procVars, workVars, ProcElsewhere, WorkElsewhere, ChannelElsewhere

LEMMA QpsToErrorElsewhere ==
  ASSUME Domains, NEW p \in Procs, QpsToError({p})
  PROVE  WorkElsewhere(p)
<1>. DEFINE flushed(q) == [i \in DOMAIN sent[q] |-> Wc(sent[q][i], TRUE)]
                            \o Errors(sq[q], rq[q])
<1>1. /\ qp' = [q \in Procs |-> IF q \in {p} THEN "error" ELSE qp[q]]
      /\ cq' = [q \in Procs |->
                  IF q \in {p} THEN Arrive(cq[q], flushed(q)) ELSE cq[q]]
      /\ sq' = [q \in Procs |-> IF q \in {p} THEN <<>> ELSE sq[q]]
      /\ sent' = [q \in Procs |-> IF q \in {p} THEN <<>> ELSE sent[q]]
      /\ rq' = [q \in Procs |-> IF q \in {p} THEN 0 ELSE rq[q]]
  BY DEF QpsToError
<1>. HIDE DEF flushed
<1>. QED
  BY <1>1 DEF WorkElsewhere

LEMMA PostSendElsewhere ==
  ASSUME Domains, NEW p \in Procs, NEW op, PostSend(p, op),
         UNCHANGED <<sent, rq, qp>>
  PROVE  WorkElsewhere(p)
BY DEF PostSend, WorkElsewhere, Domains

LEMMA ClientProcElsewhere ==
  ASSUME Domains, NEW c \in Clients, ClientStep(c) \/ KillClient(c)
  PROVE  ProcElsewhere(c)
<1>. USE DEF Domains, ProcElsewhere, Goto, Fail, Holding
<1>1. CASE \/ SetupClient(c) \/ AddrResolved(c) \/ RouteResolved(c)
           \/ setup_protection_domain(c) \/ create_completion_channel(c)
           \/ create_completion_queue(c) \/ setup_queue_pairs(c)
           \/ ClientPostsRecv(c) \/ connect_to_server(c) \/ ClientEstablished(c)
  BY <1>1
  DEF FailsPartway, FailsUnnoticed, AllocatesOrFails, SetupClient,
      AddrResolved, RouteResolved, setup_protection_domain,
      create_completion_channel, create_completion_queue, setup_queue_pairs,
      ClientPostsRecv, connect_to_server, ClientEstablished
<1>2. CASE \/ exchange_metadata_with_server(c) \/ client_write_message(c)
           \/ client_read_message(c) \/ ReadComplete(c) \/ RdmaEventFails(c)
           \/ WorkCompletionEvent(c)
  BY <1>2
  DEF FailsPartway, FailsUnnoticed, AwaitCompletions, Returned,
      exchange_metadata_with_server, client_write_message,
      client_read_message, ReadComplete, RdmaEventFails, WorkCompletionEvent,
      GetCqEvent, ReqNotifyCq, PollCq, WorkCompletionError, AwaitFailed
<1>3. CASE cleanup_client(c) \/ KillClient(c)
  BY <1>3
  DEF Releases, ClientDies, cleanup_client, Disconnect, Disconnected,
      NoDisconnected, FreePlain, DestroyQp, DestroyCq, ClientDestroysId,
      ClientDestroysChannel, Exit, KillClient
<1>. QED
  BY <1>1, <1>2, <1>3 DEF ClientStep

LEMMA ClientWorkElsewhere ==
  ASSUME Domains, NEW c \in Clients, ClientStep(c) \/ KillClient(c)
  PROVE  WorkElsewhere(c)
<1>. USE DEF Domains, WorkElsewhere, workVars
<1>0. c \in Procs
  BY ProcFacts
<1>1. CASE \/ SetupClient(c) \/ AddrResolved(c) \/ RouteResolved(c)
           \/ setup_protection_domain(c) \/ create_completion_channel(c)
           \/ create_completion_queue(c) \/ setup_queue_pairs(c)
           \/ ClientPostsRecv(c) \/ connect_to_server(c) \/ ClientEstablished(c)
  BY <1>1
  DEF SetupClient, AddrResolved, RouteResolved, setup_protection_domain,
      create_completion_channel, create_completion_queue, setup_queue_pairs,
      ClientPostsRecv, connect_to_server, ClientEstablished
<1>2. CASE \/ exchange_metadata_with_server(c) \/ client_write_message(c)
           \/ client_read_message(c)
  BY <1>2
  DEF PostRdma, PostSend, exchange_metadata_with_server, client_write_message,
      client_read_message
<1>3. CASE \/ ReadComplete(c) \/ RdmaEventFails(c) \/ WorkCompletionEvent(c)
  BY <1>3
  DEF ReadComplete, RdmaEventFails, WorkCompletionEvent, GetCqEvent,
      ReqNotifyCq, PollCq, WorkCompletionError, AwaitFailed
<1>4. CASE Disconnect(c)
  <2>1. QpsToError({c}) \/ UNCHANGED workVars
    BY <1>4 DEF Disconnect
  <2>. QED
    BY <1>0, <2>1, QpsToErrorElsewhere
<1>5. CASE \/ Disconnected(c) \/ NoDisconnected(c) \/ FreePlain(c)
           \/ DestroyQp(c) \/ DestroyCq(c) \/ ClientDestroysId(c)
           \/ ClientDestroysChannel(c) \/ Exit(c) \/ KillClient(c)
  BY <1>5
  DEF ClientDies, Disconnected, NoDisconnected, FreePlain, DestroyQp,
      DestroyCq, ClientDestroysId, ClientDestroysChannel, Exit, KillClient
<1>. QED
  BY <1>1, <1>2, <1>3, <1>4, <1>5 DEF ClientStep, cleanup_client

LEMMA ClientChannelElsewhere ==
  ASSUME Domains, NEW c \in Clients, ClientStep(c) \/ KillClient(c)
  PROVE  /\ ChannelElsewhere(c)
         /\ UNCHANGED <<meta, buf, sv, listening, peer>>
         /\ \A d \in Clients : d # c => cl'[d] = cl[d]
<1>. USE DEF Domains, ChannelElsewhere, TakeEvent, process_rdma_event,
             dataVars, cmVars
<1>1. CASE \/ SetupClient(c) \/ AddrResolved(c) \/ RouteResolved(c)
           \/ setup_protection_domain(c) \/ create_completion_channel(c)
           \/ create_completion_queue(c) \/ setup_queue_pairs(c)
           \/ ClientPostsRecv(c) \/ connect_to_server(c) \/ ClientEstablished(c)
  BY <1>1
  DEF SetupClient, AddrResolved, RouteResolved, setup_protection_domain,
      create_completion_channel, create_completion_queue, setup_queue_pairs,
      ClientPostsRecv, connect_to_server, ClientEstablished
<1>2. CASE \/ exchange_metadata_with_server(c) \/ client_write_message(c)
           \/ client_read_message(c) \/ ReadComplete(c) \/ RdmaEventFails(c)
           \/ WorkCompletionEvent(c)
  BY <1>2
  DEF exchange_metadata_with_server, client_write_message,
      client_read_message, ReadComplete, RdmaEventFails, WorkCompletionEvent,
      GetCqEvent, ReqNotifyCq, PollCq, WorkCompletionError, AwaitFailed
<1>3. CASE cleanup_client(c) \/ KillClient(c)
  BY <1>3
  DEF Releases, ClientDies, cleanup_client, Disconnect, Disconnected,
      NoDisconnected, FreePlain, DestroyQp, DestroyCq, ClientDestroysId,
      ClientDestroysChannel, Exit, KillClient
<1>. QED
  BY <1>1, <1>2, <1>3 DEF ClientStep

LEMMA ClientElsewhere ==
  ASSUME Domains, NEW c \in Clients, ClientStep(c) \/ KillClient(c)
  PROVE  /\ Elsewhere(c)
         /\ UNCHANGED <<meta, buf, sv, listening, peer>>
         /\ \A d \in Clients : d # c => cl'[d] = cl[d]
BY ClientProcElsewhere, ClientWorkElsewhere, ClientChannelElsewhere DEF Elsewhere

LEMMA ServerProcElsewhere ==
  ASSUME Domains, ServerStep \/ KillServer
  PROVE  ProcElsewhere(Server)
<1>. USE DEF Domains, ProcElsewhere, Goto, Fail, Holding
<1>1. CASE \/ SetupServer \/ ConnectRequest \/ setup_communication_resources
           \/ ServerPostsRecv \/ ServerPostsToNoQp
           \/ accept_client_connection \/ ServerEstablished
  BY <1>1
  DEF FailsPartway, FailsUnnoticed, AwaitCompletions, SetupServer,
      ConnectRequest, setup_communication_resources, ServerPostsRecv,
      ServerPostsToNoQp, accept_client_connection, ServerEstablished, ServerDies
<1>2. CASE SendServerMetadata \/ ServerMetadataSent \/ disconnect_from_client
  BY <1>2
  DEF FailsUnnoticed, AwaitCompletions, NoRdmaBuffer, SendServerMetadata,
      ServerMetadataSent, disconnect_from_client
<1>3. CASE RdmaEventFails(Server) \/ WorkCompletionEvent(Server)
  BY <1>3
  DEF Returned, RdmaEventFails, WorkCompletionEvent, GetCqEvent, ReqNotifyCq,
      PollCq, WorkCompletionError, AwaitFailed
<1>4. CASE cleanup_server \/ KillServer
  BY <1>4
  DEF Releases, ServerDies, cleanup_server, FreePlain, DestroyQp, DestroyCq,
      ServerDestroysClientId, ServerDestroysServerId, ServerDestroysChannel,
      Exit, KillServer
<1>. QED
  BY <1>1, <1>2, <1>3, <1>4 DEF ServerStep

LEMMA ServerWorkElsewhere ==
  ASSUME Domains, ServerStep \/ KillServer
  PROVE  WorkElsewhere(Server)
<1>. USE DEF Domains, WorkElsewhere, workVars
<1>1. CASE \/ SetupServer \/ ConnectRequest \/ setup_communication_resources
           \/ ServerPostsRecv \/ ServerPostsToNoQp
           \/ accept_client_connection \/ ServerEstablished
  BY <1>1
  DEF SetupServer, ConnectRequest, setup_communication_resources,
      ServerPostsRecv, ServerPostsToNoQp, accept_client_connection,
      ServerEstablished, ServerDies
<1>2. CASE SendServerMetadata \/ ServerMetadataSent \/ disconnect_from_client
  BY <1>2
  DEF PostSend, SendServerMetadata, ServerMetadataSent, disconnect_from_client
<1>3. CASE RdmaEventFails(Server) \/ WorkCompletionEvent(Server)
  BY <1>3
  DEF RdmaEventFails, WorkCompletionEvent, GetCqEvent, ReqNotifyCq,
      PollCq, WorkCompletionError, AwaitFailed
<1>4. CASE cleanup_server \/ KillServer
  BY <1>4
  DEF ServerDies, cleanup_server, FreePlain, DestroyQp, DestroyCq,
      ServerDestroysClientId, ServerDestroysServerId, ServerDestroysChannel,
      Exit, KillServer
<1>. QED
  BY <1>1, <1>2, <1>3, <1>4 DEF ServerStep

LEMMA ServerChannelElsewhere ==
  ASSUME Domains, ServerStep \/ KillServer
  PROVE  ChannelElsewhere(Server) /\ UNCHANGED <<cl, meta>>
<1>. USE DEF Domains, ChannelElsewhere, TakeEvent, process_rdma_event,
             dataVars, cmVars
<1>1. CASE \/ SetupServer \/ ConnectRequest \/ setup_communication_resources
           \/ ServerPostsRecv \/ ServerPostsToNoQp
           \/ accept_client_connection \/ ServerEstablished
  BY <1>1
  DEF SetupServer, ConnectRequest, setup_communication_resources,
      ServerPostsRecv, ServerPostsToNoQp, accept_client_connection,
      ServerEstablished, ServerDies
<1>2. CASE SendServerMetadata \/ ServerMetadataSent \/ disconnect_from_client
  BY <1>2
  DEF SendServerMetadata, ServerMetadataSent, disconnect_from_client
<1>3. CASE RdmaEventFails(Server) \/ WorkCompletionEvent(Server)
  BY <1>3
  DEF RdmaEventFails, WorkCompletionEvent, GetCqEvent, ReqNotifyCq,
      PollCq, WorkCompletionError, AwaitFailed
<1>4. CASE cleanup_server \/ KillServer
  BY <1>4
  DEF Releases, ServerDies, cleanup_server, FreePlain, DestroyQp, DestroyCq,
      ServerDestroysClientId, ServerDestroysServerId, ServerDestroysChannel,
      Exit, KillServer
<1>. QED
  BY <1>1, <1>2, <1>3, <1>4 DEF ServerStep

LEMMA ServerElsewhere ==
  ASSUME Domains, ServerStep \/ KillServer
  PROVE  Elsewhere(Server) /\ UNCHANGED <<cl, meta>>
BY ServerProcElsewhere, ServerWorkElsewhere, ServerChannelElsewhere DEF Elsewhere

-----------------------------------------------------------------------------
(* The connection of client c, seen from both sides: l is where the client *)
(* is, h what it holds, q its queue pair, a and b the states of the two    *)
(* sides, e the client's events, and k the client the server has chosen.   *)

Using ==
  {"exchange_metadata_with_server", "client_write_message",
   "client_read_message", "cleanup"}

Chosen(c, a, b, e, k) ==
  (\/ a \in {"replied", "connected", "disconnecting"}
   \/ b \in {"accepted", "connected", "parted", "lost"}
   \/ \E x \in ToSet(e) : x.ok /\ x.type = "ESTABLISHED") => k = c

Up(l, h, q) == q = "up" => l \in Using /\ "queue_pair" \in h

HasLeft(l, a) == a \in {"disconnecting", "left"} => l \in Quiet

\* The server has heard of the end of no other connection than its own.
Ends(e, k) ==
  \A x \in ToSet(e) :
    x.ok /\ x.type = "DISCONNECTED" => x.id = k /\ pc[k] \in Quiet

ServerLink(l, r, k) ==
  /\ l \in {"setup_server", "connect_request"} => k = Nobody
  /\ l \in {"release", "exited"} /\ r = 0 => k \in Clients /\ pc[k] \in Quiet

ConnectionInv ==
  /\ \A c \in Clients :
       /\ Chosen(c, cl[c], sv[c], channel[c], peer)
       /\ Up(pc[c], held[c], qp[c])
       /\ HasLeft(pc[c], cl[c])
  /\ Ends(channel[Server], peer)
  /\ ServerLink(pc[Server], ret[Server], peer)

-----------------------------------------------------------------------------
(* A step of client c. *)

\* What is still in the channel was there before.
FewerEvents(p) == ToSet(channel'[p]) \subseteq ToSet(channel[p])

LEMMA TakeEventFewer ==
  ASSUME TypeInv, NEW p \in Procs, channel[p] # <<>>, TakeEvent(p)
  PROVE  FewerEvents(p) /\ Head(channel[p]) \in ToSet(channel[p])
<1>1. channel[p] \in Seq(CmEvents) /\ channel'[p] = Tail(channel[p])
  BY TypeParts DEF TypeInv, CmTypes, TakeEvent
<1>2. Head(channel[p]) = channel[p][1] /\ 1 \in DOMAIN channel[p]
  BY <1>1
<1>. QED
  BY <1>1, <1>2, ToSetTail DEF FewerEvents, ToSet

LEMMA EventIds ==
  ASSUME TypeInv, NEW p \in Procs
  PROVE  \A x \in ToSet(channel[p]) : x \in CmEvents /\ x.id \in Clients
<1>1. channel[p] \in Seq(CmEvents)
  BY TypeParts DEF TypeInv, CmTypes
<1>2. \A i \in DOMAIN channel[p] : channel[p][i] \in CmEvents
  BY <1>1
<1>3. ToSet(channel[p]) \subseteq CmEvents
  BY <1>2 DEF ToSet
<1>4. \A x \in CmEvents : x.id \in Clients
  BY DEF CmEvents
<1>. QED
  BY <1>3, <1>4

LEMMA ClientFewerEvents ==
  ASSUME TypeInv, NEW c \in Clients, ClientStep(c) \/ KillClient(c)
  PROVE  FewerEvents(c)
<1>1. CASE UNCHANGED channel
  BY <1>1 DEF FewerEvents
<1>2. CASE channel[c] # <<>> /\ TakeEvent(c)
  BY <1>2, TakeEventFewer, ProcFacts
<1>3. CASE channel' = [channel EXCEPT ![c] = <<>>]
  <2>1. channel'[c] = <<>>
    BY <1>3, DomainsHold, ProcFacts DEF Domains
  <2>. QED
    BY <2>1, ToSetOfNone DEF FewerEvents
<1>. QED
  BY <1>1, <1>2, <1>3, ClientReads DEF Reads

\* A client that disconnects goes no way back.
LEMMA ClientStaysQuiet ==
  ASSUME Domains, NEW c \in Clients, ClientStep(c) \/ KillClient(c),
         pc[c] \in Quiet, wait[c] = "none"
  PROVE  pc'[c] \in Quiet /\ qp'[c] \in {qp[c], "none"}
<1>1. c \in Procs /\ c # Server
  BY ProcFacts
<1>. USE <1>1 DEF Quiet, Domains, Goto, workVars
<1>2. ~(\/ SetupClient(c) \/ AddrResolved(c) \/ RouteResolved(c)
        \/ setup_protection_domain(c) \/ create_completion_channel(c)
        \/ create_completion_queue(c) \/ setup_queue_pairs(c)
        \/ ClientPostsRecv(c) \/ connect_to_server(c) \/ ClientEstablished(c))
  BY DEF SetupClient, AddrResolved, RouteResolved,
      setup_protection_domain, create_completion_channel,
      create_completion_queue, setup_queue_pairs,
      ClientPostsRecv, connect_to_server, ClientEstablished
<1>3. ~(\/ exchange_metadata_with_server(c) \/ client_write_message(c)
        \/ client_read_message(c) \/ ReadComplete(c) \/ RdmaEventFails(c)
        \/ WorkCompletionEvent(c) \/ Disconnect(c))
  BY DEF exchange_metadata_with_server, client_write_message, Enters,
      client_read_message, ReadComplete, RdmaEventFails, WorkCompletionEvent,
      GetCqEvent, ReqNotifyCq, PollCq, WorkCompletionError, AwaitFailed,
      AwaitPasses, AwaitSucceeded, Awaited, Disconnect
<1>4. \/ Disconnected(c) \/ NoDisconnected(c) \/ FreePlain(c)
      \/ DestroyQp(c) \/ DestroyCq(c) \/ ClientDestroysId(c)
      \/ ClientDestroysChannel(c) \/ Exit(c) \/ KillClient(c)
  BY <1>2, <1>3 DEF ClientStep, cleanup_client
<1>. QED
  BY <1>4
  DEF Releases, ClientDies, Disconnected,
      NoDisconnected, FreePlain, DestroyQp, DestroyCq, ClientDestroysId,
      ClientDestroysChannel, Exit, KillClient

\* The states the client's own steps bring its side to.
LEMMA ClientSideStep ==
  ASSUME Domains, NEW c \in Clients, ClientStep(c) \/ KillClient(c)
  PROVE  \/ cl'[c] = cl[c]
         \/ cl'[c] \in {"resolving_addr", "resolving_route", "connecting",
                        "quiet", "gone"}
         \/ /\ cl'[c] = "connected" /\ pc[c] = "established"
            /\ process_rdma_event(c)
         \/ /\ cl[c] = "connected" /\ cl'[c] = "disconnecting"
            /\ pc'[c] \in Quiet
         \/ cl'[c] = "left" /\ pc'[c] \in Quiet
<1>1. c \in Procs /\ c # Server
  BY ProcFacts
<1>. USE <1>1 DEF Quiet, Domains, Goto, cmVars
<1>4. CASE \/ SetupClient(c) \/ AddrResolved(c) \/ RouteResolved(c)
           \/ setup_protection_domain(c) \/ create_completion_channel(c)
           \/ create_completion_queue(c) \/ setup_queue_pairs(c)
           \/ ClientPostsRecv(c) \/ connect_to_server(c) \/ ClientEstablished(c)
  BY <1>4
  DEF SetupClient, AddrResolved, RouteResolved,
      setup_protection_domain, create_completion_channel,
      create_completion_queue, setup_queue_pairs,
      ClientPostsRecv, connect_to_server, ClientEstablished
<1>5. CASE \/ exchange_metadata_with_server(c) \/ client_write_message(c)
           \/ client_read_message(c) \/ ReadComplete(c) \/ RdmaEventFails(c)
           \/ WorkCompletionEvent(c)
  BY <1>5
  DEF exchange_metadata_with_server, client_write_message,
      client_read_message, ReadComplete, RdmaEventFails, WorkCompletionEvent,
      GetCqEvent, ReqNotifyCq, PollCq, WorkCompletionError, AwaitFailed
<1>6. CASE cleanup_client(c) \/ KillClient(c)
  BY <1>6
  DEF ClientDies, cleanup_client, Disconnect, Disconnected, Releases,
      NoDisconnected, FreePlain, DestroyQp, DestroyCq, ClientDestroysId,
      ClientDestroysChannel, Exit, KillClient, Closed
<1>. QED
  BY <1>4, <1>5, <1>6 DEF ClientStep

LEMMA QpToError ==
  ASSUME NEW p \in Procs, QpsToError({p})
  PROVE  qp'[p] = "error"
BY DEF QpsToError

\* A queue pair that is up goes with rdma_disconnect.
LEMMA ClientUpStep ==
  ASSUME TypeInv, ResourcesInv, NEW c \in Clients,
         ClientStep(c) \/ KillClient(c), Up(pc[c], held[c], qp[c])
  PROVE  Up(pc'[c], held'[c], qp'[c])
<1>1. c \in Procs /\ c # Server /\ Domains
  BY ProcFacts, DomainsHold
<1>2. /\ "queue_pair" \in held[c] => "cm_client_id" \in held[c]
      /\ pc[c] = "established" => "queue_pair" \in held[c]
  BY DepsList DEF ResourcesInv, ClientHolds, ClientNeeds
<1>. USE <1>1, <1>2 DEF Domains, Up, Using, Goto, Holding, Fail
<1>3. CASE \/ SetupClient(c) \/ AddrResolved(c) \/ RouteResolved(c)
           \/ setup_protection_domain(c) \/ create_completion_channel(c)
           \/ create_completion_queue(c) \/ setup_queue_pairs(c)
           \/ ClientPostsRecv(c) \/ connect_to_server(c) \/ ClientEstablished(c)
  BY <1>3
  DEF SetupClient, AddrResolved, RouteResolved, workVars,
      setup_protection_domain, create_completion_channel,
      create_completion_queue, setup_queue_pairs,
      ClientPostsRecv, connect_to_server, ClientEstablished
<1>4. CASE \/ exchange_metadata_with_server(c) \/ client_write_message(c)
           \/ client_read_message(c)
  BY <1>4
  DEF exchange_metadata_with_server, client_write_message, FailsPartway,
      client_read_message, FailsUnnoticed
<1>5. CASE ReadComplete(c) \/ RdmaEventFails(c) \/ WorkCompletionEvent(c)
  BY <1>5
  DEF ReadComplete, RdmaEventFails, WorkCompletionEvent, workVars,
      GetCqEvent, ReqNotifyCq, PollCq, WorkCompletionError, AwaitFailed
<1>6. CASE Disconnect(c)
  <2>1. CASE QpsToError({c})
    BY <2>1, QpToError
  <2>2. CASE ~QpsToError({c})
    <3>1. UNCHANGED qp /\ "queue_pair" \notin held[c]
      BY <1>6, <2>2 DEF Disconnect, workVars
    <3>. QED
      BY <3>1
  <2>. QED
    BY <2>1, <2>2
<1>7. CASE \/ Disconnected(c) \/ NoDisconnected(c) \/ FreePlain(c)
           \/ DestroyQp(c) \/ DestroyCq(c) \/ ClientDestroysId(c)
           \/ ClientDestroysChannel(c) \/ Exit(c) \/ KillClient(c)
  BY <1>7
  DEF Releases, ClientDies, Disconnected, workVars,
      NoDisconnected, FreePlain, DestroyQp, DestroyCq, ClientDestroysId,
      ClientDestroysChannel, Exit, KillClient
<1>. QED
  BY <1>3, <1>4, <1>5, <1>6, <1>7 DEF ClientStep, cleanup_client

LEMMA QuietDoesNotWait ==
  ASSUME TypeInv, NEW p \in Procs, pc[p] \in Quiet
  PROVE  wait[p] = "none"
BY DEF TypeInv, WaitsInCall, Awaiting, Quiet

LEMMA ClientStepConnection ==
  ASSUME TypeInv, ResourcesInv, ConnectionInv, NEW c \in Clients,
         ClientStep(c) \/ KillClient(c)
  PROVE  ConnectionInv'
<1>1. c \in Procs /\ c # Server /\ Server \in Procs /\ Domains
  BY ProcFacts, DomainsHold
<1>2. /\ \A q \in Procs : q # c =>
           /\ pc'[q] = pc[q] /\ ret'[q] = ret[q] /\ held'[q] = held[q]
           /\ qp'[q] = qp[q] /\ channel'[q] = channel[q]
      /\ UNCHANGED <<sv, peer>>
      /\ \A d \in Clients : d # c => cl'[d] = cl[d]
  BY <1>1, ClientElsewhere
  DEF Elsewhere, ProcElsewhere, WorkElsewhere, ChannelElsewhere
<1>3. pc[c] \in Quiet => pc'[c] \in Quiet
  BY <1>1, ClientStaysQuiet, QuietDoesNotWait
<1>4. \A d \in Clients : pc[d] \in Quiet => pc'[d] \in Quiet
  BY <1>1, <1>2, <1>3, ProcFacts
<1>5. Up(pc'[c], held'[c], qp'[c])
  BY ClientUpStep DEF ConnectionInv
<1>6. Chosen(c, cl'[c], sv'[c], channel'[c], peer')
  <2>1. FewerEvents(c)
    BY ClientFewerEvents
  <2>2. ASSUME pc[c] = "established", process_rdma_event(c)
        PROVE  peer = c
    <3>1. channel[c] # <<>> /\ TakeEvent(c) /\ IsExpected(c, "ESTABLISHED")
      BY <2>2 DEF process_rdma_event, Awaited
    <3>2. Head(channel[c]) \in ToSet(channel[c])
      BY <1>1, <3>1, TakeEventFewer
    <3>. QED
      BY <3>1, <3>2 DEF IsExpected, ConnectionInv, Chosen
  <2>. QED
    BY <1>1, <1>2, <2>1, <2>2, ClientSideStep
    DEF FewerEvents, ConnectionInv, Chosen
<1>7. HasLeft(pc'[c], cl'[c])
  BY <1>1, <1>3, ClientSideStep DEF ConnectionInv, HasLeft
<1>8. ASSUME NEW d \in Clients
      PROVE  /\ Chosen(d, cl'[d], sv'[d], channel'[d], peer')
             /\ Up(pc'[d], held'[d], qp'[d])
             /\ HasLeft(pc'[d], cl'[d])
  <2>1. CASE d = c
    BY <1>5, <1>6, <1>7, <2>1
  <2>2. CASE d # c
    <3>1. d \in Procs
      BY ProcFacts
    <3>. QED
      BY <1>2, <2>2, <3>1 DEF ConnectionInv
  <2>. QED
    BY <2>1, <2>2
<1>9. Ends(channel[Server], peer)'
  <2>1. \A x \in ToSet(channel[Server]) : x.ok /\ x.type = "DISCONNECTED" =>
          x.id = peer /\ pc[peer] \in Quiet
    BY DEF ConnectionInv, Ends
  <2>2. \A x \in ToSet(channel[Server]) : x.id \in Clients
    BY <1>1, EventIds
  <2>. QED
    BY <1>1, <1>2, <1>4, <2>1, <2>2 DEF Ends
<1>10. ServerLink(pc[Server], ret[Server], peer)'
  BY <1>1, <1>2, <1>4 DEF ConnectionInv, ServerLink
<1>. QED
  BY <1>8, <1>9, <1>10 DEF ConnectionInv

-----------------------------------------------------------------------------
(* A step of the server. *)

LEMMA ServerFewerEvents ==
  ASSUME TypeInv, ServerStep \/ KillServer
  PROVE  FewerEvents(Server)
<1>1. CASE UNCHANGED channel
  BY <1>1 DEF FewerEvents
<1>2. CASE channel[Server] # <<>> /\ TakeEvent(Server)
  BY <1>2, TakeEventFewer, ProcFacts
<1>3. CASE channel' = [channel EXCEPT ![Server] = <<>>]
  <2>1. channel'[Server] = <<>>
    BY <1>3, DomainsHold, ProcFacts DEF Domains
  <2>. QED
    BY <2>1, ToSetOfNone DEF FewerEvents
<1>. QED
  BY <1>1, <1>2, <1>3, ServerReads DEF Reads

\* The server chooses a client once, and accepts it alone.
LEMMA ServerChooses ==
  ASSUME Domains, ServerStep \/ KillServer
  PROVE  /\ \/ UNCHANGED peer
            \/ ConnectRequest /\ pc[Server] = "connect_request" /\ UNCHANGED sv
         /\ \A c \in Clients :
              \/ sv'[c] \in {sv[c], "closed"}
              \/ sv'[c] = "accepted" /\ c = peer
<1>. USE DEF Domains, cmVars
<1>1. CASE \/ SetupServer \/ ConnectRequest \/ setup_communication_resources
           \/ ServerPostsRecv \/ ServerPostsToNoQp
           \/ accept_client_connection \/ ServerEstablished
  BY <1>1
  DEF SetupServer, ConnectRequest, setup_communication_resources,
      ServerPostsRecv, ServerPostsToNoQp, accept_client_connection,
      ServerEstablished, ServerDies
<1>2. CASE SendServerMetadata \/ ServerMetadataSent \/ disconnect_from_client
  BY <1>2
  DEF SendServerMetadata, ServerMetadataSent, disconnect_from_client
<1>3. CASE RdmaEventFails(Server) \/ WorkCompletionEvent(Server)
  BY <1>3
  DEF RdmaEventFails, WorkCompletionEvent, GetCqEvent, ReqNotifyCq,
      PollCq, WorkCompletionError, AwaitFailed
<1>4. CASE cleanup_server \/ KillServer
  BY <1>4
  DEF ServerDies, cleanup_server, FreePlain, DestroyQp, DestroyCq,
      ServerDestroysClientId, ServerDestroysServerId, ServerDestroysChannel,
      Exit, KillServer, RefuseRequests
<1>. QED
  BY <1>1, <1>2, <1>3, <1>4 DEF ServerStep

\* The server fails with an error, or ends with the end of the connection.
LEMMA ServerEnding ==
  ASSUME TypeInv, ServerStep \/ KillServer
  PROVE  /\ pc'[Server] \in {"setup_server", "connect_request"} =>
              pc[Server] \in {"setup_server", "connect_request"} /\ UNCHANGED peer
         /\ pc'[Server] \in {"release", "exited"} /\ ret'[Server] = 0 =>
              UNCHANGED peer /\
              \/ pc[Server] \in {"release", "exited"} /\ ret[Server] = 0
              \/ pc[Server] = "disconnect_from_client" /\ process_rdma_event(Server)
<1>1. Server \in Procs /\ Domains
  BY DomainsHold, ProcFacts
<1>. USE <1>1 DEF Domains, Goto, Fail, cmVars
<1>2. CASE \/ SetupServer \/ ConnectRequest \/ setup_communication_resources
           \/ ServerPostsRecv \/ ServerPostsToNoQp
           \/ accept_client_connection \/ ServerEstablished
  BY <1>2
  DEF SetupServer, ConnectRequest, setup_communication_resources,
      ServerPostsRecv, ServerPostsToNoQp, accept_client_connection,
      ServerEstablished, ServerDies, FailsPartway, FailsUnnoticed
<1>3. CASE SendServerMetadata \/ ServerMetadataSent \/ disconnect_from_client
  BY <1>3
  DEF SendServerMetadata, ServerMetadataSent, disconnect_from_client,
      FailsUnnoticed
<1>4. CASE RdmaEventFails(Server)
  BY <1>4 DEF RdmaEventFails
<1>5. CASE WorkCompletionEvent(Server)
  <2>1. wait[Server] # "none" /\ pc[Server] \in Awaiting
    BY <1>5
    DEF WorkCompletionEvent, GetCqEvent, ReqNotifyCq, PollCq,
        WorkCompletionError, AwaitFailed, AwaitPasses, TypeInv, WaitsInCall
  <2>2. CASE AwaitFailed(Server)
    BY <2>1, <2>2 DEF AwaitFailed, AwaitPasses, Awaiting
  <2>3. CASE ~AwaitFailed(Server)
    BY <1>5, <2>1, <2>3
    DEF WorkCompletionEvent, GetCqEvent, ReqNotifyCq, PollCq,
        WorkCompletionError, Awaiting
  <2>. QED
    BY <2>2, <2>3
<1>6. CASE cleanup_server \/ KillServer
  BY <1>6
  DEF ServerDies, cleanup_server, FreePlain, DestroyQp, DestroyCq, Releases,
      ServerDestroysClientId, ServerDestroysServerId, ServerDestroysChannel,
      Exit, KillServer
<1>. QED
  BY <1>2, <1>3, <1>4, <1>5, <1>6 DEF ServerStep

LEMMA ServerStepConnection ==
  ASSUME TypeInv, ConnectionInv, ServerStep \/ KillServer
  PROVE  ConnectionInv'
<1>1. Server \in Procs /\ Domains
  BY DomainsHold, ProcFacts
<1>2. /\ \A c \in Clients :
           /\ pc'[c] = pc[c] /\ held'[c] = held[c] /\ qp'[c] = qp[c]
           /\ channel'[c] = channel[c]
      /\ UNCHANGED cl
  BY <1>1, ServerElsewhere, ProcFacts
  DEF Elsewhere, ProcElsewhere, WorkElsewhere, ChannelElsewhere
<1>3. ASSUME NEW k \in Clients, peer = k
      PROVE  peer' = k
  BY <1>1, <1>3, ServerChooses, ProcFacts DEF ConnectionInv, ServerLink
<1>4. ASSUME NEW c \in Clients
      PROVE  /\ Chosen(c, cl'[c], sv'[c], channel'[c], peer')
             /\ Up(pc'[c], held'[c], qp'[c])
             /\ HasLeft(pc'[c], cl'[c])
  <2>1. Chosen(c, cl'[c], sv'[c], channel'[c], peer')
    BY <1>1, <1>2, <1>3, ServerChooses DEF ConnectionInv, Chosen
  <2>. QED
    BY <1>2, <2>1 DEF ConnectionInv
<1>5. ASSUME NEW x \in ToSet(channel'[Server]), x.ok, x.type = "DISCONNECTED"
      PROVE  x.id = peer /\ peer' = peer /\ peer \in Clients /\ pc[peer] \in Quiet
  <2>1. x \in ToSet(channel[Server])
    BY ServerFewerEvents DEF FewerEvents
  <2>2. x.id = peer /\ pc[peer] \in Quiet
    BY <1>5, <2>1 DEF ConnectionInv, Ends
  <2>. QED
    BY <1>1, <1>3, <2>1, <2>2, EventIds
<1>6. Ends(channel[Server], peer)'
  BY <1>2, <1>5 DEF Ends
<1>7. ServerLink(pc[Server], ret[Server], peer)'
  <2>1. ASSUME pc[Server] = "disconnect_from_client", process_rdma_event(Server)
        PROVE  peer \in Clients /\ pc[peer] \in Quiet
    <3>1. /\ channel[Server] # <<>> /\ TakeEvent(Server)
          /\ IsExpected(Server, "DISCONNECTED")
      BY <2>1 DEF process_rdma_event, Awaited
    <3>2. Head(channel[Server]) \in ToSet(channel[Server])
      BY <1>1, <3>1, TakeEventFewer
    <3>3. Head(channel[Server]).id \in Clients
      BY <1>1, <3>2, EventIds
    <3>. QED
      BY <3>1, <3>2, <3>3 DEF IsExpected, ConnectionInv, Ends
  <2>. QED
    BY <1>2, <2>1, ServerEnding DEF ConnectionInv, ServerLink
<1>. QED
  BY <1>4, <1>6, <1>7 DEF ConnectionInv

-----------------------------------------------------------------------------
(* A step of the connection manager, or of a device. *)

LEMMA Delivered ==
  ASSUME TypeInv, NEW p \in Procs, NEW e \in CmEvents, Deliver(p, e)
  PROVE  /\ ToSet(channel'[p]) = ToSet(channel[p]) \cup {e}
         /\ ChannelElsewhere(p)
<1>1. channel[p] \in Seq(CmEvents) /\ channel'[p] = Append(channel[p], e)
  BY TypeParts DEF TypeInv, CmTypes, Deliver
<1>2. ChannelElsewhere(p)
  BY DomainsHold DEF Deliver, Domains, ChannelElsewhere
<1>. QED
  BY <1>1, <1>2, ToSetAppend

\* What the two sides can hear of, and when.
LEMMA CmEffect ==
  ASSUME TypeInv, NEW c \in Clients, Cm(c)
  PROVE  /\ UNCHANGED <<pc, ret, held, qp, peer, listening>>
         /\ \A d \in Clients : d # c => cl'[d] = cl[d] /\ sv'[d] = sv[d]
         /\ \E p \in {c, Server}, e \in CmEvents :
              /\ Deliver(p, e)
              /\ e.ok /\ e.type = "ESTABLISHED" /\ p = c => sv[c] = "accepted"
              /\ e.ok /\ e.type = "DISCONNECTED" /\ p = Server =>
                   /\ e.id = c /\ sv[c] = "connected"
                   /\ cl[c] \in {"disconnecting", "left"}
              /\ e.ok /\ e.type = "CONNECT_REQUEST" =>
                   e.id = c /\ p = Server /\ sv'[c] = "requested"
         /\ \/ cl'[c] = cl[c]
            \/ cl'[c] \in {"quiet", "disconnected"}
            \/ cl'[c] = "replied" /\ sv[c] = "accepted"
         /\ \/ sv'[c] = sv[c]
            \/ sv[c] = "none" /\ sv'[c] = "requested"
            \/ /\ sv[c] \in {"accepted", "connected"}
               /\ sv'[c] \in {"connected", "lost", "parted"}
<1>1. Domains /\ c \in Procs /\ Server \in Procs /\ c # Server
  BY DomainsHold, ProcFacts
<1>2. UNCHANGED <<pc, ret, held, qp, peer, listening>>
  BY DEF Cm, procVars, workVars
<1>. USE <1>1 DEF Domains, Client, Peer
<1>3. /\ \A d \in Clients : d # c => cl'[d] = cl[d] /\ sv'[d] = sv[d]
      /\ \/ cl'[c] = cl[c]
         \/ cl'[c] \in {"quiet", "disconnected"}
         \/ cl'[c] = "replied" /\ sv[c] = "accepted"
      /\ \/ sv'[c] = sv[c]
         \/ sv[c] = "none" /\ sv'[c] = "requested"
         \/ /\ sv[c] \in {"accepted", "connected"}
            /\ sv'[c] \in {"connected", "lost", "parted"}
  BY DEF Cm, Resolve, RequestArrives, Refused, ReplyArrives, ReadyArrives,
         ReadyNeverArrives, DisconnectArrives, DisconnectAnswered
<1>4. /\ \A t \in {"ADDR_RESOLVED", "ROUTE_RESOLVED", "CONNECT_REQUEST",
                   "ESTABLISHED", "DISCONNECTED", "FAILURE"} :
           Ok(t, c) \in CmEvents /\ Bad(t, c) \in CmEvents
      /\ \A t : /\ Ok(t, c).ok /\ Ok(t, c).type = t /\ Ok(t, c).id = c
                /\ ~Bad(t, c).ok
  <2>1. \A t : /\ Ok(t, c).ok /\ Ok(t, c).type = t /\ Ok(t, c).id = c
               /\ ~Bad(t, c).ok
    BY DEF Ok, Bad
  <2>. QED
    BY <2>1, EventTypes
<1>5. \E p \in {c, Server}, e \in CmEvents :
        /\ Deliver(p, e)
        /\ e.ok /\ e.type = "ESTABLISHED" /\ p = c => sv[c] = "accepted"
        /\ e.ok /\ e.type = "DISCONNECTED" /\ p = Server =>
             /\ e.id = c /\ sv[c] = "connected"
             /\ cl[c] \in {"disconnecting", "left"}
        /\ e.ok /\ e.type = "CONNECT_REQUEST" =>
             e.id = c /\ p = Server /\ sv'[c] = "requested"
  <2>1. CASE Resolve(c) \/ Refused(c) \/ DisconnectAnswered(c)
    <3>1. PICK e \in {Ok("ADDR_RESOLVED", c), Ok("ROUTE_RESOLVED", c),
                      Ok("DISCONNECTED", c), Bad("FAILURE", c)} : Deliver(c, e)
      BY <2>1 DEF Resolve, Refused, DisconnectAnswered
    <3>. QED
      BY <1>4, <3>1
  <2>2. CASE ReplyArrives(c)
    BY <1>4, <2>2 DEF ReplyArrives
  <2>3. CASE RequestArrives(c)
    BY <1>4, <2>3 DEF RequestArrives
  <2>4. CASE ReadyArrives(c) \/ ReadyNeverArrives(c)
    <3>1. PICK e \in {Ok("ESTABLISHED", c), Bad("FAILURE", c)} :
            Deliver(Server, e)
      BY <2>4 DEF ReadyArrives, ReadyNeverArrives
    <3>. QED
      BY <1>4, <3>1
  <2>5. CASE DisconnectArrives(c)
    BY <1>4, <2>5 DEF DisconnectArrives
  <2>. QED
    BY <2>1, <2>2, <2>3, <2>4, <2>5 DEF Cm
<1>. QED
  BY <1>2, <1>3, <1>5

LEMMA CmConnection ==
  ASSUME TypeInv, ConnectionInv, NEW c \in Clients, Cm(c)
  PROVE  ConnectionInv'
<1>1. c \in Procs /\ Server \in Procs /\ c # Server
  BY ProcFacts
<1>2. PICK p \in {c, Server}, e \in CmEvents :
        /\ Deliver(p, e)
        /\ e.ok /\ e.type = "ESTABLISHED" /\ p = c => sv[c] = "accepted"
        /\ e.ok /\ e.type = "DISCONNECTED" /\ p = Server =>
             /\ e.id = c /\ sv[c] = "connected"
             /\ cl[c] \in {"disconnecting", "left"}
  BY CmEffect
<1>3. /\ ToSet(channel'[p]) = ToSet(channel[p]) \cup {e}
      /\ \A q \in Procs : q # p => channel'[q] = channel[q]
  BY <1>1, <1>2, Delivered DEF ChannelElsewhere
<1>4. UNCHANGED <<pc, ret, held, qp, peer>>
  BY CmEffect
<1>5. /\ \A d \in Clients : d # c => cl'[d] = cl[d] /\ sv'[d] = sv[d]
      /\ \/ cl'[c] = cl[c]
         \/ cl'[c] \in {"quiet", "disconnected"}
         \/ cl'[c] = "replied" /\ sv[c] = "accepted"
      /\ \/ sv'[c] = sv[c]
         \/ sv[c] = "none" /\ sv'[c] = "requested"
         \/ /\ sv[c] \in {"accepted", "connected"}
            /\ sv'[c] \in {"connected", "lost", "parted"}
  BY CmEffect
<1>6. ASSUME NEW d \in Clients
      PROVE  /\ Chosen(d, cl'[d], sv'[d], channel'[d], peer')
             /\ Up(pc'[d], held'[d], qp'[d])
             /\ HasLeft(pc'[d], cl'[d])
  <2>1. d \in Procs /\ d # Server
    BY ProcFacts
  <2>2. Chosen(d, cl'[d], sv'[d], channel'[d], peer')
    <3>1. CASE d = c
      BY <1>1, <1>2, <1>3, <1>4, <1>5, <2>1, <3>1 DEF ConnectionInv, Chosen
    <3>2. CASE d # c
      BY <1>1, <1>2, <1>3, <1>4, <1>5, <2>1, <3>2 DEF ConnectionInv, Chosen
    <3>. QED
      BY <3>1, <3>2
  <2>3. HasLeft(pc'[d], cl'[d])
    BY <1>4, <1>5 DEF ConnectionInv, HasLeft
  <2>. QED
    BY <1>4, <2>2, <2>3 DEF ConnectionInv
<1>7. Ends(channel[Server], peer)'
  <2>1. ASSUME p = Server, e.ok, e.type = "DISCONNECTED"
        PROVE  e.id = peer /\ pc[peer] \in Quiet
    BY <1>2, <2>1 DEF ConnectionInv, Chosen, HasLeft
  <2>. QED
    BY <1>1, <1>2, <1>3, <1>4, <2>1 DEF ConnectionInv, Ends
<1>8. ServerLink(pc[Server], ret[Server], peer)'
  BY <1>4 DEF ConnectionInv, ServerLink
<1>. QED
  BY <1>6, <1>7, <1>8 DEF ConnectionInv

\* A device brings no queue pair up.
LEMMA DeviceLowersQps ==
  ASSUME TypeInv, NEW p \in Procs, Device(p)
  PROVE  \A q \in Procs : qp'[q] \in {qp[q], "error"}
<1>1. CASE CarryOut(p) \/ Completes(p)
  BY <1>1 DEF CarryOut, Completes
<1>2. CASE CannotCarryOut(p)
  BY <1>2 DEF CannotCarryOut, QpsToError
<1>3. CASE AnswerLost(p)
  BY <1>3, DomainsHold DEF AnswerLost, Domains
<1>. QED
  BY <1>1, <1>2, <1>3 DEF Device

LEMMA DeviceConnection ==
  ASSUME TypeInv, ConnectionInv, NEW p \in Procs, Device(p)
  PROVE  ConnectionInv'
<1>1. UNCHANGED <<procVars, cmVars, channel>>
  BY DEF Device
<1>2. \A c \in Clients : qp'[c] \in {qp[c], "error"}
  BY DeviceLowersQps, ProcFacts
<1>. QED
  BY <1>1, <1>2
  DEF ConnectionInv, Chosen, Up, HasLeft, Ends, ServerLink, procVars, cmVars

-----------------------------------------------------------------------------
(* The theorems. *)

LEMMA InitConnectionInv == Init => ConnectionInv
<1>. SUFFICES ASSUME Init PROVE ConnectionInv
  OBVIOUS
<1>1. \A p \in Procs : ToSet(channel[p]) = {}
  BY ToSetOfNone DEF Init
<1>2. Server \in Procs /\ Clients \subseteq Procs
  BY ProcFacts
<1>. QED
  BY <1>1, <1>2
  DEF Init, ConnectionInv, Chosen, Up, HasLeft, Ends, ServerLink

LEMMA NextConnectionInv ==
  TypeInv /\ ResourcesInv /\ ConnectionInv /\ [Next]_vars => ConnectionInv'
<1>. SUFFICES ASSUME TypeInv, ResourcesInv, ConnectionInv, [Next]_vars
              PROVE  ConnectionInv'
  OBVIOUS
<1>1. CASE UNCHANGED vars
  BY <1>1
  DEF ConnectionInv, Chosen, Up, HasLeft, Ends, ServerLink, vars, procVars,
      workVars, cmVars
<1>2. CASE Next
  <2>1. ASSUME NEW c \in Clients, ClientStep(c) \/ KillClient(c) \/ Cm(c)
        PROVE  ConnectionInv'
    BY <2>1, ClientStepConnection, CmConnection
  <2>2. CASE ServerStep \/ KillServer
    BY <2>2, ServerStepConnection
  <2>3. ASSUME NEW p \in Procs, Device(p) PROVE ConnectionInv'
    BY <2>3, DeviceConnection
  <2>. QED
    BY <1>1, <1>2, <2>1, <2>2, <2>3 DEF Next, Terminated
<1>. QED
  BY <1>1, <1>2

\* In every behaviour the two sides agree on whose connection it is: a step of
\* either, of the connection manager or of a device keeps it so.
THEOREM ConnectionInvCorrect == Spec => []ConnectionInv
<1>. QED
  BY InitConnectionInv, NextConnectionInv, TypeInvCorrect, ResourcesInvCorrect,
     PTL DEF Spec

\* The server has a connection with one client at most, whatever other clients
\* ask for and whatever fails (rdma_server.c:216, 388-452).
THEOREM OneConnectionCorrect == Spec => []OneConnection
<1>1. ConnectionInv => OneConnection
  BY DEF ConnectionInv, Chosen, OneConnection
<1>. QED
  BY <1>1, ConnectionInvCorrect, PTL

\* The server returns 0 only after its client can no longer use the buffer,
\* whatever fails (disconnect_from_client, rdma_server.c:581-607).
THEOREM ServerWaitsForClientCorrect == Spec => []ServerWaitsForClient
<1>1. ConnectionInv => ServerWaitsForClient
  <2>1. \A c \in Clients : c # Nobody
    BY ProcFacts
  <2>. QED
    BY <2>1
    DEF ConnectionInv, ServerLink, Up, Using, Quiet, ServerWaitsForClient
<1>. QED
  BY <1>1, ConnectionInvCorrect, PTL
-----------------------------------------------------------------------------
(* The client waits for the server to give up its id: what the server has  *)
(* closed stays closed, since it accepts the request it has chosen only.   *)

Requested(l, e, k) ==
  /\ l \in {"setup_server", "connect_request"} =>
       \A x \in ToSet(e) :
         x.ok /\ x.type = "CONNECT_REQUEST" => sv[x.id] = "requested"
  /\ l \in {"setup_communication_resources", "post_metadata_recv_buffer",
            "accept_client_connection"} =>
       k \in Clients /\ sv[k] = "requested"

RequestInv == Requested(pc[Server], channel[Server], peer)

LEMMA ServerRequestStep ==
  ASSUME TypeInv, RequestInv, ServerStep \/ KillServer
  PROVE  /\ RequestInv'
         /\ \A c \in Clients : sv[c] = "closed" => sv'[c] = "closed"
<1>1. Server \in Procs /\ Domains /\ FewerEvents(Server)
  BY DomainsHold, ProcFacts, ServerFewerEvents
<1>. USE <1>1 DEF Domains, Goto, Fail, cmVars
<1>2. CASE ConnectRequest
  <2>1. /\ channel[Server] # <<>> /\ TakeEvent(Server)
        /\ IsExpected(Server, "CONNECT_REQUEST") /\ pc[Server] = "connect_request"
    BY <1>2 DEF ConnectRequest, process_rdma_event, Awaited
  <2>2. Head(channel[Server]) \in ToSet(channel[Server])
    BY <2>1, TakeEventFewer
  <2>3. Head(channel[Server]).id \in Clients
    BY <2>2, EventIds
  <2>4. sv[Head(channel[Server]).id] = "requested"
    BY <2>1, <2>2 DEF RequestInv, Requested, IsExpected
  <2>5. /\ peer' = Head(channel[Server]).id /\ UNCHANGED sv
        /\ pc'[Server] = "setup_communication_resources"
    BY <1>2 DEF ConnectRequest
  <2>. QED
    BY <2>3, <2>4, <2>5 DEF RequestInv, Requested
<1>3. CASE \/ SetupServer \/ setup_communication_resources \/ ServerPostsRecv
  <2>1. UNCHANGED <<sv, peer, channel>>
    BY <1>3 DEF SetupServer, setup_communication_resources, ServerPostsRecv
  <2>2. \/ pc'[Server] \in {"connect_request", "post_metadata_recv_buffer",
                            "accept_client_connection"}
        \/ pc'[Server] = "release"
    BY <1>3
    DEF SetupServer, setup_communication_resources, ServerPostsRecv,
        FailsPartway, FailsUnnoticed
  <2>3. pc'[Server] = "connect_request" => pc[Server] = "setup_server"
    BY <1>3
    DEF SetupServer, setup_communication_resources, ServerPostsRecv,
        FailsPartway, FailsUnnoticed
  <2>4. pc'[Server] \in {"post_metadata_recv_buffer",
                         "accept_client_connection"} =>
          pc[Server] \in {"setup_communication_resources",
                          "post_metadata_recv_buffer"}
    BY <1>3
    DEF SetupServer, setup_communication_resources, ServerPostsRecv,
        FailsPartway, FailsUnnoticed
  <2>. QED
    BY <2>1, <2>2, <2>3, <2>4 DEF RequestInv, Requested
<1>4. CASE accept_client_connection
  <2>1. pc'[Server] \in {"established", "release"}
    BY <1>4 DEF accept_client_connection, FailsPartway
  <2>2. \/ UNCHANGED sv
        \/ sv' = [sv EXCEPT ![peer] = "accepted"]
    BY <1>4 DEF accept_client_connection
  <2>3. sv[peer] = "requested"
    BY <1>4 DEF accept_client_connection, RequestInv, Requested
  <2>. QED
    BY <2>1, <2>2, <2>3 DEF RequestInv, Requested
<1>5. CASE ServerPostsToNoQp \/ KillServer
  <2>1. \/ /\ pc'[Server] = "killed"
           /\ sv' = [c \in Clients |->
                       IF sv[c] = "none" THEN "none" ELSE "closed"]
        \/ pc'[Server] = "release" /\ UNCHANGED sv
    BY <1>5 DEF ServerPostsToNoQp, KillServer, ServerDies
  <2>. QED
    BY <2>1 DEF RequestInv, Requested
<1>6. CASE ServerEstablished \/ SendServerMetadata \/ ServerMetadataSent
           \/ disconnect_from_client \/ RdmaEventFails(Server)
  <2>1. UNCHANGED sv
    BY <1>6
    DEF ServerEstablished, SendServerMetadata, ServerMetadataSent,
        disconnect_from_client, RdmaEventFails
  <2>2. pc'[Server] \in {"exchange_metadata_with_client",
                         "send_server_metadata", "disconnect_from_client",
                         "release"}
    BY <1>6
    DEF ServerEstablished, SendServerMetadata, ServerMetadataSent,
        disconnect_from_client, RdmaEventFails, FailsUnnoticed
  <2>. QED
    BY <2>1, <2>2 DEF RequestInv, Requested
<1>7. CASE WorkCompletionEvent(Server)
  <2>1. UNCHANGED <<sv, peer, channel>>
    BY <1>7
    DEF WorkCompletionEvent, GetCqEvent, ReqNotifyCq, PollCq,
        WorkCompletionError, AwaitFailed
  <2>2. UNCHANGED pc \/ pc'[Server] = "release"
    BY <1>7
    DEF WorkCompletionEvent, GetCqEvent, ReqNotifyCq, PollCq,
        WorkCompletionError, AwaitFailed
  <2>. QED
    BY <2>1, <2>2 DEF RequestInv, Requested
<1>8. CASE cleanup_server
  <2>1. pc'[Server] \in {"release", "exited"}
    BY <1>8
    DEF cleanup_server, FreePlain, DestroyQp, DestroyCq, Releases,
        ServerDestroysClientId, ServerDestroysServerId,
        ServerDestroysChannel, Exit
  <2>2. \A c \in Clients : sv'[c] \in {sv[c], "closed"}
    BY <1>8
    DEF cleanup_server, FreePlain, DestroyQp, DestroyCq,
        ServerDestroysClientId, ServerDestroysServerId,
        ServerDestroysChannel, Exit, RefuseRequests
  <2>. QED
    BY <2>1, <2>2 DEF RequestInv, Requested
<1>. QED
  BY <1>2, <1>3, <1>4, <1>5, <1>6, <1>7, <1>8 DEF ServerStep

LEMMA RequestStep ==
  ASSUME TypeInv, RequestInv, [Next]_vars
  PROVE  /\ RequestInv'
         /\ \A c \in Clients : sv[c] = "closed" => sv'[c] = "closed"
<1>1. Server \in Procs /\ Domains
  BY DomainsHold, ProcFacts
<1>2. ASSUME UNCHANGED <<sv, peer>>, pc'[Server] = pc[Server],
             channel'[Server] = channel[Server]
      PROVE  RequestInv' /\ sv' = sv
  BY <1>2 DEF RequestInv, Requested
<1>3. ASSUME NEW c \in Clients, ClientStep(c) \/ KillClient(c)
      PROVE  RequestInv' /\ sv' = sv
  BY <1>1, <1>2, <1>3, ClientElsewhere, ProcFacts
  DEF Elsewhere, ProcElsewhere, ChannelElsewhere
<1>4. ASSUME NEW c \in Clients, Cm(c)
      PROVE  /\ RequestInv'
             /\ \A d \in Clients : sv[d] = "closed" => sv'[d] = "closed"
  <2>1. PICK p \in {c, Server}, e \in CmEvents :
          /\ Deliver(p, e)
          /\ e.ok /\ e.type = "CONNECT_REQUEST" =>
               e.id = c /\ p = Server /\ sv'[c] = "requested"
    BY <1>4, CmEffect
  <2>2. /\ ToSet(channel'[p]) = ToSet(channel[p]) \cup {e}
        /\ \A q \in Procs : q # p => channel'[q] = channel[q]
    BY <1>1, <2>1, Delivered, ProcFacts DEF ChannelElsewhere
  <2>3. /\ UNCHANGED <<pc, peer>>
        /\ \A d \in Clients :
             /\ sv[d] = "closed" => sv'[d] = "closed"
             /\ sv[d] = "requested" => sv'[d] = "requested"
    BY <1>4, CmEffect
  <2>4. \A x \in ToSet(channel[Server]) : x.id \in Clients
    BY <1>1, EventIds
  <2>. QED
    BY <1>1, <2>1, <2>2, <2>3, <2>4, ProcFacts DEF RequestInv, Requested
<1>5. ASSUME NEW p \in Procs, Device(p) PROVE RequestInv' /\ sv' = sv
  BY <1>2, <1>5 DEF Device, procVars, cmVars
<1>6. CASE UNCHANGED vars
  BY <1>2, <1>6 DEF vars, procVars, cmVars
<1>7. CASE ServerStep \/ KillServer
  BY <1>7, ServerRequestStep
<1>. QED
  BY <1>3, <1>4, <1>5, <1>6, <1>7 DEF Next, Terminated

\* Every process lives on, and waits for its events until they come.
Patience == Faults \cap {"kill", "timeout", "get_event"} = {}

\* While the client waits for an answer its channel is empty, so the next event
\* it reads is that answer.
Unanswered ==
  {"idle", "resolving_addr", "resolving_route", "connecting", "connected",
   "disconnecting"}

Preparing ==
  {"setup_protection_domain", "create_completion_channel",
   "create_completion_queue", "setup_queue_pairs",
   "post_metadata_recv_buffer", "connect_to_server"}

Patient(l, h, a, b, e) ==
  /\ a \in Unanswered => e = <<>>
  /\ Len(e) <= 1
  /\ l = "setup_client" => a = "idle"
  /\ l = "route" => a \in {"resolving_route", "quiet"}
  /\ l \in Preparing => a = "quiet" /\ e = <<>>
  /\ a \in {"connected", "disconnecting"} => "cm_client_id" \in h
  /\ a = "disconnected" => b = "closed"
  /\ l \in Quiet => a # "connected"
  /\ l \in {"release", "exited", "killed"} => a # "disconnecting"

PatientInv ==
  \A c \in Clients : Patient(pc[c], held[c], cl[c], sv[c], channel[c])

LEMMA TailOfOne ==
  ASSUME NEW S, NEW s \in Seq(S), s # <<>>, Len(s) <= 1
  PROVE  Tail(s) = <<>>
<1>1. Len(s) \in Nat /\ Len(s) # 0
  BY EmptySeq
<1>2. Len(s) = 1
  BY <1>1
<1>3. Tail(s) \in Seq(S) /\ Len(Tail(s)) = 0
  BY <1>2, HeadTailProperties
<1>. QED
  BY <1>3, EmptySeq

LEMMA TakesLast ==
  ASSUME TypeInv, NEW p \in Procs, channel[p] # <<>>, Len(channel[p]) <= 1,
         TakeEvent(p)
  PROVE  channel'[p] = <<>>
<1>1. channel[p] \in Seq(CmEvents) /\ channel'[p] = Tail(channel[p])
  BY TypeParts DEF TypeInv, CmTypes, TakeEvent
<1>. QED
  BY <1>1, TailOfOne

LEMMA NoEventsLeft == Len(<<>>) <= 1
OBVIOUS

LEMMA ClientPatient ==
  ASSUME Patience, TypeInv, ResourcesInv, NEW c \in Clients, ClientStep(c),
         Patient(pc[c], held[c], cl[c], sv[c], channel[c])
  PROVE  /\ Patient(pc'[c], held'[c], cl'[c], sv[c], channel'[c])
         /\ cl[c] # "left" /\ cl'[c] = "left" => sv[c] = "closed"
<1>1. c \in Procs /\ c # Server /\ Domains
  BY ProcFacts, DomainsHold
<1>2. pc[c] = "established" => "cm_client_id" \in held[c]
  BY DepsList DEF ResourcesInv, ClientHolds, ClientNeeds
<1>3. channel[c] # <<>> /\ TakeEvent(c) => channel'[c] = <<>>
  BY <1>1, TakesLast DEF Patient
<1>. USE <1>1, <1>2, <1>3, NoEventsLeft
     DEF Domains, Patient, Unanswered, Preparing, Quiet, Goto, Holding, Fail,
         cmVars
<1>4. CASE SetupClient(c) \/ connect_to_server(c)
  BY <1>4 DEF SetupClient, connect_to_server, FailsPartway
<1>5. CASE AddrResolved(c) \/ RouteResolved(c) \/ ClientEstablished(c)
  BY <1>5
  DEF AddrResolved, RouteResolved, ClientEstablished, process_rdma_event
<1>6. CASE \/ setup_protection_domain(c) \/ create_completion_channel(c)
           \/ create_completion_queue(c) \/ setup_queue_pairs(c)
           \/ ClientPostsRecv(c)
  BY <1>6
  DEF setup_protection_domain, create_completion_channel,
      create_completion_queue, setup_queue_pairs, ClientPostsRecv,
      AllocatesOrFails, FailsPartway, FailsUnnoticed
<1>7. CASE RdmaEventFails(c)
  <2>1. TakeEvent(c) /\ channel[c] # <<>> /\ pc[c] \in DOMAIN Awaited
    BY <1>7 DEF RdmaEventFails, Patience
  <2>. QED
    BY <1>7, <2>1 DEF RdmaEventFails
<1>8. CASE \/ exchange_metadata_with_server(c) \/ client_write_message(c)
           \/ client_read_message(c)
  BY <1>8
  DEF exchange_metadata_with_server, client_write_message, Enters,
      client_read_message, FailsPartway, FailsUnnoticed
<1>9. CASE ReadComplete(c) \/ WorkCompletionEvent(c)
  <2>1. UNCHANGED <<held, cl, sv, channel>>
    BY <1>9
    DEF ReadComplete, WorkCompletionEvent, GetCqEvent, ReqNotifyCq, PollCq,
        WorkCompletionError, AwaitFailed
  <2>2. pc'[c] \in {pc[c], "cleanup"}
    BY <1>9
    DEF ReadComplete, WorkCompletionEvent, GetCqEvent, ReqNotifyCq, PollCq,
        WorkCompletionError, AwaitFailed
  <2>. QED
    BY <2>1, <2>2
<1>10. CASE Disconnect(c)
  BY <1>10 DEF Disconnect
<1>11. CASE Disconnected(c)
  BY <1>11 DEF Disconnected, ClientDies, Closed
<1>12. CASE NoDisconnected(c)
  BY <1>12 DEF NoDisconnected, Patience
<1>13. CASE \/ FreePlain(c) \/ DestroyQp(c) \/ DestroyCq(c)
            \/ ClientDestroysId(c) \/ ClientDestroysChannel(c) \/ Exit(c)
  BY <1>13
  DEF Releases, FreePlain, DestroyQp, DestroyCq, ClientDestroysId,
      ClientDestroysChannel, Exit, Closed
<1>. QED
  BY <1>4, <1>5, <1>6, <1>7, <1>8, <1>9, <1>10, <1>11, <1>12, <1>13
  DEF ClientStep, cleanup_client

LEMMA Appended ==
  ASSUME TypeInv, NEW p \in Procs, NEW e, channel[p] = <<>>, Deliver(p, e)
  PROVE  Len(channel'[p]) <= 1
<1>1. channel'[p] = Append(<<>>, e)
  BY DomainsHold DEF Deliver, Domains
<1>. QED
  BY <1>1

LEMMA CmPatient ==
  ASSUME Patience, TypeInv, NEW c \in Clients, Cm(c),
         Patient(pc[c], held[c], cl[c], sv[c], channel[c]),
         sv[c] = "closed" => sv'[c] = "closed"
  PROVE  /\ Patient(pc[c], held[c], cl'[c], sv'[c], channel'[c])
         /\ cl'[c] # "left" \/ cl'[c] = cl[c]
<1>1. c \in Procs /\ c # Server /\ Domains
  BY ProcFacts, DomainsHold
<1>. USE <1>1 DEF Domains, Client, Peer
<1>2. CASE \/ RequestArrives(c) \/ ReadyArrives(c) \/ ReadyNeverArrives(c)
           \/ DisconnectArrives(c)
  <2>1. UNCHANGED cl /\ channel'[c] = channel[c]
    BY <1>2
    DEF RequestArrives, ReadyArrives, ReadyNeverArrives, DisconnectArrives,
        Deliver
  <2>. QED
    BY <2>1 DEF Patient
<1>3. CASE \/ Resolve(c) \/ Refused(c) \/ ReplyArrives(c)
           \/ DisconnectAnswered(c)
  <2>1. PICK e : Deliver(c, e)
    BY <1>3 DEF Resolve, Refused, ReplyArrives, DisconnectAnswered
  <2>2. cl[c] \in {"resolving_addr", "resolving_route", "connecting",
                   "connected", "disconnecting"}
    BY <1>3 DEF Resolve, Refused, ReplyArrives, DisconnectAnswered
  <2>3. Len(channel'[c]) <= 1
    BY <2>1, <2>2, Appended DEF Patient, Unanswered
  <2>4. UNCHANGED sv /\ cl'[c] \in {"quiet", "replied", "disconnected"}
    BY <1>3 DEF Resolve, Refused, ReplyArrives, DisconnectAnswered
  <2>5. /\ cl'[c] = "disconnected" => sv[c] = "closed"
        /\ cl'[c] = "replied" => cl[c] = "connecting"
    BY <1>3 DEF Resolve, Refused, ReplyArrives, DisconnectAnswered, Patience
  <2>6. cl'[c] = "disconnected" => cl[c] \in {"connected", "disconnecting"}
    BY <1>3 DEF Resolve, Refused, ReplyArrives, DisconnectAnswered
  <2>. QED
    BY <2>2, <2>3, <2>4, <2>5, <2>6 DEF Patient, Unanswered, Preparing, Quiet
<1>. QED
  BY <1>2, <1>3 DEF Cm

LEMMA NextPatientInv ==
  ASSUME Patience, TypeInv, ResourcesInv, RequestInv, PatientInv, [Next]_vars
  PROVE  /\ PatientInv'
         /\ \A c \in Clients :
              cl[c] # "left" /\ cl'[c] = "left" => sv[c] = "closed"
<1>1. \A c \in Clients : sv[c] = "closed" => sv'[c] = "closed"
  BY RequestStep
<1>. SUFFICES ASSUME NEW c \in Clients
              PROVE  /\ Patient(pc[c], held[c], cl[c], sv[c], channel[c])'
                     /\ cl[c] # "left" /\ cl'[c] = "left" => sv[c] = "closed"
  BY DEF PatientInv
<1>2. /\ Patient(pc[c], held[c], cl[c], sv[c], channel[c])
      /\ c \in Procs /\ c # Server /\ Domains
  BY ProcFacts, DomainsHold DEF PatientInv
<1>3. ASSUME pc'[c] = pc[c], held'[c] = held[c], cl'[c] = cl[c],
             channel'[c] = channel[c]
      PROVE  /\ Patient(pc[c], held[c], cl[c], sv[c], channel[c])'
             /\ cl'[c] = cl[c]
  BY <1>1, <1>2, <1>3 DEF Patient
<1>4. ASSUME NEW d \in Clients, ClientStep(d) \/ KillClient(d), d # c
      PROVE  /\ Patient(pc[c], held[c], cl[c], sv[c], channel[c])'
             /\ cl'[c] = cl[c]
  BY <1>2, <1>3, <1>4, ClientElsewhere
  DEF Elsewhere, ProcElsewhere, ChannelElsewhere
<1>5. CASE ClientStep(c)
  BY <1>2, <1>5, ClientPatient, ClientElsewhere
<1>6. CASE KillClient(c)
  BY <1>6 DEF KillClient, Patience
<1>7. ASSUME NEW d \in Clients, Cm(d), d # c
      PROVE  /\ Patient(pc[c], held[c], cl[c], sv[c], channel[c])'
             /\ cl'[c] = cl[c]
  <2>1. PICK p \in {d, Server}, e \in CmEvents : Deliver(p, e)
    BY <1>7, CmEffect
  <2>2. channel'[c] = channel[c]
    BY <1>2, <1>7, <2>1 DEF Deliver, Domains
  <2>. QED
    BY <1>3, <1>7, <2>2, CmEffect
<1>8. CASE Cm(c)
  BY <1>1, <1>2, <1>8, CmPatient DEF Cm, procVars
<1>9. CASE ServerStep \/ KillServer
  BY <1>2, <1>3, <1>9, ServerElsewhere
  DEF Elsewhere, ProcElsewhere, ChannelElsewhere
<1>10. ASSUME NEW p \in Procs, Device(p)
       PROVE  /\ Patient(pc[c], held[c], cl[c], sv[c], channel[c])'
              /\ cl'[c] = cl[c]
  BY <1>3, <1>10 DEF Device, procVars, cmVars
<1>11. CASE UNCHANGED vars
  BY <1>3, <1>11 DEF vars, procVars, cmVars
<1>. QED
  BY <1>4, <1>5, <1>6, <1>7, <1>8, <1>9, <1>10, <1>11 DEF Next, Terminated

LEMMA InitPatientInv == Init => RequestInv /\ PatientInv
<1>. SUFFICES ASSUME Init PROVE RequestInv /\ PatientInv
  OBVIOUS
<1>1. Server \in Procs /\ \A c \in Clients : c \in Procs /\ c # Server
  BY ProcFacts
<1>2. RequestInv
  BY <1>1, ToSetOfNone DEF Init, RequestInv, Requested
<1>3. PatientInv
  BY <1>1, NoEventsLeft
  DEF Init, PatientInv, Patient, Unanswered, Preparing, Quiet
<1>. QED
  BY <1>2, <1>3

\* If no process is killed and no wait for an event ends before it comes, the
\* client gives up its id only when the server has given up its own: it does
\* not only notice the end of the connection (cleanup_client,
\* rdma_client.c:59-80).
THEOREM ClientLeavesLastCorrect ==
  ASSUME Patience PROVE Spec => ClientLeavesLast
<1>1. TypeInv /\ RequestInv /\ [Next]_vars => RequestInv'
  BY RequestStep
<1>2. TypeInv /\ ResourcesInv /\ RequestInv /\ PatientInv /\ [Next]_vars =>
        PatientInv'
  BY NextPatientInv
<1>3. TypeInv /\ ResourcesInv /\ RequestInv /\ PatientInv /\ [Next]_vars =>
        [\A c \in Clients :
           (cl[c] # "left" /\ cl'[c] = "left") => sv[c] = "closed"]_vars
  BY NextPatientInv
<1>. QED
  BY <1>1, <1>2, <1>3, InitPatientInv, TypeInvCorrect, ResourcesInvCorrect, PTL
  DEF Spec, ClientLeavesLast

-----------------------------------------------------------------------------
(* What the server loses, and when. *)

\* Whether something is lost: with an event that is not looked at, or with a
\* registration that fails.
LEMMA ServerGains ==
  ASSUME TypeInv, ServerStep \/ KillServer
  PROVE  \/ held'[Server] \cap Unreachable \subseteq held[Server]
         \/ /\ RdmaEventFails(Server) /\ channel[Server] # <<>>
            /\ Head(channel[Server]).type = "CONNECT_REQUEST"
            /\ Holding(Server, {"leaked_cm_id"})
         \/ SendServerMetadata /\ NoRdmaBuffer(meta[Server].length)
              /\ Fail(Server, -1)
<1>1. Server \in Procs /\ Domains
  BY ProcFacts, DomainsHold
<1>. USE <1>1 DEF Domains
<1>2. ASSUME NEW X, X \cap Unreachable = {}, Holding(Server, X)
      PROVE  held'[Server] \cap Unreachable \subseteq held[Server]
  BY <1>2 DEF Holding
<1>3. CASE held'[Server] \subseteq held[Server]
  BY <1>3
<1>4. /\ {"cm_event_channel", "cm_server_id", "rai"} \cap Unreachable = {}
      /\ {"cm_client_id"} \cap Unreachable = {}
      /\ {"protection_domain", "completion_channel", "completion_queue"}
           \cap Unreachable = {}
      /\ ({"protection_domain", "completion_channel", "completion_queue"}
            \cup {"queue_pair"}) \cap Unreachable = {}
      /\ {"client_metadata_mr"} \cap Unreachable = {}
      /\ {} \cap Unreachable = {}
  BY DEF Unreachable
<1>5. CASE SetupServer
  <2>1. PICK X \in {{}, {"cm_event_channel"},
                    {"cm_event_channel", "cm_server_id"},
                    {"cm_event_channel", "cm_server_id", "rai"}} :
          Holding(Server, X)
    BY <1>5, ToSetOfThree, FailsWithThree DEF SetupServer
  <2>. QED
    BY <1>2, <1>4, <2>1
<1>6. CASE setup_communication_resources
  <2>. DEFINE all == {"protection_domain", "completion_channel",
                      "completion_queue"}
  <2>1. PICK X \in {{}, {"protection_domain"},
                    {"protection_domain", "completion_channel"}, all,
                    all \cup {"queue_pair"}} :
          Holding(Server, X)
    BY <1>6, ToSetOfThree, FailsWithThree
    DEF setup_communication_resources, FailsUnnoticed
  <2>2. X \cap Unreachable = {}
    BY <2>1 DEF Unreachable
  <2>. QED
    BY <1>2, <2>1, <2>2
<1>7. CASE ConnectRequest
  BY <1>2, <1>4, <1>7 DEF ConnectRequest
<1>8. CASE ServerPostsRecv
  <2>1. PICK X \in {{}, {"client_metadata_mr"}} : Holding(Server, X)
    BY <1>8, FailsWithOne DEF ServerPostsRecv
  <2>. QED
    BY <1>2, <1>4, <2>1
<1>9. CASE SendServerMetadata /\ ~NoRdmaBuffer(meta[Server].length)
  <2>1. PICK X \in {{"server_buffer", "server_buffer_mr",
                     "server_metadata_mr"},
                    {"server_buffer", "server_buffer_mr"} \cup {},
                    {"server_buffer", "server_buffer_mr"}
                      \cup {"server_metadata_mr"}} :
          Holding(Server, X)
    BY <1>9 DEF SendServerMetadata, FailsUnnoticed
  <2>2. X \cap Unreachable = {}
    BY <2>1 DEF Unreachable
  <2>. QED
    BY <1>2, <2>1, <2>2
<1>10. CASE SendServerMetadata /\ NoRdmaBuffer(meta[Server].length)
            /\ ~Fail(Server, -1)
  <2>1. PICK X \in {{"server_buffer", "server_buffer_mr",
                     "server_metadata_mr"}} : Holding(Server, X)
    BY <1>10 DEF SendServerMetadata, FailsUnnoticed
  <2>2. X \cap Unreachable = {}
    BY <2>1 DEF Unreachable
  <2>. QED
    BY <1>2, <2>1, <2>2
<1>11. CASE \/ ServerPostsToNoQp \/ accept_client_connection
            \/ ServerEstablished \/ ServerMetadataSent \/ disconnect_from_client
            \/ WorkCompletionEvent(Server) \/ KillServer
  <2>1. CASE FailsPartway(Server, <<>>)
    BY <1>2, <1>4, <2>1, FailsWithNone
  <2>. QED
    BY <1>11, <2>1
    DEF ServerPostsToNoQp, accept_client_connection, ServerEstablished,
        ServerMetadataSent, disconnect_from_client, WorkCompletionEvent,
        GetCqEvent, ReqNotifyCq, PollCq, WorkCompletionError, AwaitFailed,
        KillServer, ServerDies
<1>12. CASE RdmaEventFails(Server)
  BY <1>12, EventFailsHolding, TypeParts DEF TypeInv
<1>13. CASE cleanup_server
  BY <1>13
  DEF cleanup_server, FreePlain, DestroyQp, DestroyCq, Releases,
      ServerDestroysClientId, ServerDestroysServerId, ServerDestroysChannel,
      Exit
<1>. QED
  BY <1>5, <1>6, <1>7, <1>8, <1>9, <1>10, <1>11, <1>12, <1>13 DEF ServerStep

\* A server that has lost something returns an error.
LossesTold ==
  held[Server] \cap Unreachable # {} =>
    pc[Server] \in {"release", "exited"} /\ ret[Server] # 0

LEMMA ServerTells ==
  ASSUME TypeInv, LossesTold, ServerStep \/ KillServer
  PROVE  LossesTold'
<1>1. Server \in Procs /\ Domains
  BY ProcFacts, DomainsHold
<1>2. CASE Fail(Server, -1)
  <2>1. pc'[Server] = "release" /\ ret'[Server] = -1
    BY <1>1, <1>2 DEF Domains, Fail, Goto
  <2>. QED
    BY <2>1 DEF LossesTold
<1>3. CASE held'[Server] \cap Unreachable \subseteq held[Server]
  <2>. SUFFICES ASSUME held'[Server] \cap Unreachable # {}
                PROVE  /\ pc'[Server] \in {"release", "exited"}
                       /\ ret'[Server] # 0
    BY DEF LossesTold
  <2>1. pc[Server] \in {"release", "exited"} /\ ret[Server] # 0
    BY <1>3 DEF LossesTold
  <2>2. ~ServerDies
    BY <1>1 DEF ServerDies, Domains
  <2>3. wait[Server] = "none"
    BY <1>1, <2>1 DEF TypeInv, WaitsInCall, Awaiting
  <2>4. cleanup_server
    BY <2>1, <2>2, <2>3
    DEF ServerStep, KillServer, SetupServer, ConnectRequest,
        setup_communication_resources, ServerPostsRecv, ServerPostsToNoQp,
        accept_client_connection, ServerEstablished, SendServerMetadata,
        ServerMetadataSent, AwaitPasses, AwaitSucceeded,
        disconnect_from_client, RdmaEventFails, Awaited, WorkCompletionEvent,
        GetCqEvent, ReqNotifyCq, PollCq, WorkCompletionError, AwaitFailed
  <2>5. UNCHANGED ret /\ pc'[Server] \in {"release", "exited"}
    BY <1>1, <2>1, <2>4
    DEF Domains, cleanup_server, FreePlain, DestroyQp, DestroyCq, Releases,
        ServerDestroysClientId, ServerDestroysServerId,
        ServerDestroysChannel, Exit, Goto
  <2>. QED
    BY <2>1, <2>5
<1>. QED
  BY <1>2, <1>3, ServerGains DEF RdmaEventFails

\* Whatever fails, whoever is killed and whoever else asks for a connection, a
\* program that returns from main has given back everything, except that a
\* server that reports an error can have lost the buffer that create_rdma_buffer
\* cannot register (rdma_common.c:124-129) or the id of a request that another
\* wait has read (rdma_common.c:27-33).
THEOREM NothingElseLeakedCorrect == Spec => []NothingElseLeaked
<1>1. ResourcesInv /\ LossesTold => NothingElseLeaked
  <2>. SUFFICES ASSUME ResourcesInv, LossesTold, NEW p \in Procs,
                       pc[p] = "exited"
                PROVE  held[p] \subseteq
                         (IF p = Server /\ ret[p] # 0 THEN Unreachable ELSE {})
    BY DEF NothingElseLeaked
  <2>1. held[p] \subseteq Unreachable
    BY DEF ResourcesInv, Ended
  <2>2. CASE p = Server
    BY <2>1, <2>2 DEF LossesTold
  <2>3. CASE p # Server
    <3>1. held[p] \subseteq ToSet(ClientRelease)
      BY <2>3, ProcFacts DEF ResourcesInv, ClientHolds
    <3>2. ToSet(ClientRelease) \cap Unreachable = {}
      BY ResourceNames DEF Unreachable
    <3>. QED
      BY <2>1, <2>3, <3>1, <3>2
  <2>. QED
    BY <2>2, <2>3
<1>2. Init => LossesTold
  BY ProcFacts DEF Init, LossesTold
<1>3. TypeInv /\ LossesTold /\ [Next]_vars => LossesTold'
  <2>. SUFFICES ASSUME TypeInv, LossesTold, [Next]_vars PROVE LossesTold'
    OBVIOUS
  <2>1. CASE /\ pc'[Server] = pc[Server] /\ ret'[Server] = ret[Server]
             /\ held'[Server] = held[Server]
    BY <2>1 DEF LossesTold
  <2>2. CASE \E c \in Clients : ClientStep(c) \/ KillClient(c)
    BY <2>1, <2>2, ClientElsewhere, DomainsHold, ProcFacts
    DEF Elsewhere, ProcElsewhere
  <2>. QED
    BY <2>1, <2>2, ServerTells
    DEF Next, Terminated, Cm, Device, vars, procVars
<1>. QED
  BY <1>1, <1>2, <1>3, ResourcesInvCorrect, TypeInvCorrect, PTL DEF Spec

-----------------------------------------------------------------------------
(* With one client no id is lost: it asks once, and the wait for a request *)
(* is the one that reads it.                                               *)

\* Of the requests e in the server's channel none is that of the client k it
\* has chosen, and no two are of one client; b is the server's side.
Asked(e, k, b) ==
  \A i \in DOMAIN e : e[i].type = "CONNECT_REQUEST" =>
    /\ e[i].ok /\ e[i].id # k /\ b[e[i].id] # "none"
    /\ \A j \in DOMAIN e :
         e[j].type = "CONNECT_REQUEST" /\ e[j].id = e[i].id => j = i

Unchosen == {"setup_server", "connect_request", "release", "exited", "killed"}

AskInv ==
  /\ Asked(channel[Server], peer, sv)
  /\ peer # Nobody => sv[peer] # "none"
  /\ peer = Nobody => pc[Server] \in Unchosen

LEMMA AskedTail ==
  ASSUME NEW e \in Seq(CmEvents), e # <<>>, NEW k, NEW b, Asked(e, k, b)
  PROVE  /\ Asked(Tail(e), k, b)
         /\ Head(e).type = "CONNECT_REQUEST" => Asked(Tail(e), Head(e).id, b)
<1>1. /\ Len(e) \in Nat \ {0} /\ DOMAIN e = 1 .. Len(e) /\ Head(e) = e[1]
      /\ DOMAIN Tail(e) = 1 .. (Len(e) - 1)
      /\ \A i \in DOMAIN Tail(e) : Tail(e)[i] = e[i + 1]
  OBVIOUS
<1>2. \A i \in DOMAIN Tail(e) : i \in Nat /\ i + 1 \in DOMAIN e /\ i + 1 # 1
  BY <1>1
<1>3. ASSUME NEW i \in DOMAIN Tail(e), Tail(e)[i].type = "CONNECT_REQUEST"
      PROVE  /\ Tail(e)[i].ok /\ Tail(e)[i].id # k /\ b[Tail(e)[i].id] # "none"
             /\ Head(e).type = "CONNECT_REQUEST" => Tail(e)[i].id # Head(e).id
  <2>1. e[i + 1].type = "CONNECT_REQUEST" /\ Tail(e)[i] = e[i + 1]
    BY <1>1, <1>3
  <2>2. 1 \in DOMAIN e /\ i + 1 \in DOMAIN e /\ i + 1 # 1
    BY <1>1, <1>2
  <2>. QED
    BY <1>1, <2>1, <2>2 DEF Asked
<1>4. ASSUME NEW i \in DOMAIN Tail(e), NEW j \in DOMAIN Tail(e),
             Tail(e)[i].type = "CONNECT_REQUEST",
             Tail(e)[j].type = "CONNECT_REQUEST", Tail(e)[j].id = Tail(e)[i].id
      PROVE  j = i
  <2>1. j + 1 = i + 1
    BY <1>1, <1>2, <1>4 DEF Asked
  <2>. QED
    BY <1>2, <2>1
<1>. QED
  BY <1>3, <1>4 DEF Asked

LEMMA AskedStays ==
  ASSUME TypeInv, NEW e \in Seq(CmEvents), NEW k, NEW a, NEW b, Asked(e, k, a),
         \A c \in Clients : a[c] # "none" => b[c] # "none"
  PROVE  Asked(e, k, b)
<1>1. \A i \in DOMAIN e : e[i] \in CmEvents
  OBVIOUS
<1>2. \A x \in CmEvents : x.id \in Clients
  BY DEF CmEvents
<1>. QED
  BY <1>1, <1>2 DEF Asked

LEMMA ServerKeepsSides ==
  ASSUME TypeInv, ServerStep \/ KillServer
  PROVE  \A c \in Clients : sv[c] # "none" => sv'[c] # "none"
BY DomainsHold, ServerChooses

LEMMA ServerUnchosen ==
  ASSUME TypeInv, pc[Server] \in Unchosen, ServerStep \/ KillServer
  PROVE  pc'[Server] \in Unchosen \/ ConnectRequest
<1>1. Server \in Procs /\ Domains
  BY DomainsHold, ProcFacts
<1>. USE <1>1 DEF Domains, Unchosen, Goto, Fail
<1>2. wait[Server] = "none"
  BY DEF TypeInv, WaitsInCall, Awaiting
<1>3. ~(\/ setup_communication_resources \/ ServerPostsRecv
        \/ ServerPostsToNoQp \/ accept_client_connection \/ ServerEstablished
        \/ SendServerMetadata \/ ServerMetadataSent \/ disconnect_from_client
        \/ WorkCompletionEvent(Server))
  BY <1>2
  DEF setup_communication_resources, ServerPostsRecv, ServerPostsToNoQp,
      accept_client_connection, ServerEstablished, SendServerMetadata,
      ServerMetadataSent, AwaitPasses, AwaitSucceeded, disconnect_from_client,
      WorkCompletionEvent, GetCqEvent, ReqNotifyCq, PollCq,
      WorkCompletionError, AwaitFailed
<1>4. CASE SetupServer
  BY <1>4 DEF SetupServer, FailsPartway
<1>5. CASE RdmaEventFails(Server) \/ KillServer
  BY <1>5 DEF RdmaEventFails, KillServer, ServerDies
<1>6. CASE cleanup_server
  BY <1>6
  DEF cleanup_server, FreePlain, DestroyQp, DestroyCq, Releases,
      ServerDestroysClientId, ServerDestroysServerId, ServerDestroysChannel,
      Exit
<1>. QED
  BY <1>3, <1>4, <1>5, <1>6 DEF ServerStep

LEMMA ServerAsked ==
  ASSUME TypeInv, AskInv, ServerStep \/ KillServer
  PROVE  AskInv'
<1>1. /\ Server \in Procs /\ Domains /\ channel[Server] \in Seq(CmEvents)
      /\ peer \in Clients \cup {Nobody} /\ Nobody \notin Clients
  BY DomainsHold, ProcFacts, TypeParts DEF TypeInv, CmTypes
<1>2. \/ channel'[Server] = channel[Server]
      \/ channel'[Server] = <<>>
      \/ channel[Server] # <<>> /\ channel'[Server] = Tail(channel[Server])
  BY <1>1, ServerReads DEF Reads, TakeEvent, Domains
<1>3. channel'[Server] \in Seq(CmEvents)
  <2>1. channel[Server] # <<>> => Tail(channel[Server]) \in Seq(CmEvents)
    BY <1>1
  <2>2. <<>> \in Seq(CmEvents)
    OBVIOUS
  <2>. QED
    BY <1>1, <1>2, <2>1, <2>2
<1>4. \A k : Asked(<<>>, k, sv)
  BY DEF Asked
<1>5. Asked(channel'[Server], peer, sv)
  BY <1>1, <1>2, <1>4, AskedTail DEF AskInv
<1>6. CASE ConnectRequest
  <2>1. /\ channel[Server] # <<>> /\ channel'[Server] = Tail(channel[Server])
        /\ Head(channel[Server]).type = "CONNECT_REQUEST"
        /\ peer' = Head(channel[Server]).id /\ UNCHANGED sv
    BY <1>1, <1>6
    DEF ConnectRequest, process_rdma_event, TakeEvent, IsExpected, Awaited,
        Domains
  <2>2. Asked(channel'[Server], peer', sv')
    BY <1>1, <2>1, AskedTail DEF AskInv
  <2>3. peer' \in Clients
    BY <1>1, <2>1, TakeEventFewer, EventIds, <1>6
    DEF ConnectRequest, process_rdma_event
  <2>4. sv'[peer'] # "none"
    BY <1>1, <2>1 DEF AskInv, Asked
  <2>. QED
    BY <1>1, <2>2, <2>3, <2>4 DEF AskInv
<1>7. CASE ~ConnectRequest
  <2>1. peer' = peer
    BY <1>1, <1>7, ServerChooses
  <2>2. Asked(channel'[Server], peer', sv')
    BY <1>3, <1>5, <2>1, AskedStays, ServerKeepsSides
  <2>3. peer' # Nobody => sv'[peer'] # "none"
    BY <1>1, <2>1, ServerKeepsSides DEF AskInv
  <2>4. peer' = Nobody => pc'[Server] \in Unchosen
    BY <1>7, <2>1, ServerUnchosen DEF AskInv
  <2>. QED
    BY <2>2, <2>3, <2>4 DEF AskInv
<1>. QED
  BY <1>6, <1>7

\* A request arrives once for each client.
LEMMA CmAsks ==
  ASSUME TypeInv, NEW c \in Clients, Cm(c)
  PROVE  \/ channel'[Server] = channel[Server]
         \/ \E e \in CmEvents :
              /\ channel'[Server] = Append(channel[Server], e)
              /\ \/ e.type # "CONNECT_REQUEST"
                 \/ e.ok /\ e.id = c /\ sv[c] = "none" /\ sv'[c] = "requested"
<1>1. Domains /\ c \in Procs /\ Server \in Procs /\ c # Server
  BY DomainsHold, ProcFacts
<1>. USE <1>1 DEF Domains
<1>2. CASE \E e : Deliver(c, e)
  BY <1>2 DEF Deliver
<1>3. CASE RequestArrives(c)
  <2>. DEFINE e == Ok("CONNECT_REQUEST", c)
  <2>1. e \in CmEvents /\ e.ok /\ e.id = c
    BY EventTypes DEF Ok
  <2>2. channel'[Server] = Append(channel[Server], e)
    BY <1>3 DEF RequestArrives, Deliver
  <2>3. sv[c] = "none" /\ sv'[c] = "requested"
    BY <1>3 DEF RequestArrives, Peer
  <2>. QED
    BY <2>1, <2>2, <2>3
<1>4. CASE ReadyArrives(c) \/ ReadyNeverArrives(c) \/ DisconnectArrives(c)
  <2>1. PICK e \in {Ok("ESTABLISHED", c), Bad("FAILURE", c),
                    Ok("DISCONNECTED", c)} : Deliver(Server, e)
    BY <1>4 DEF ReadyArrives, ReadyNeverArrives, DisconnectArrives
  <2>2. e \in CmEvents
    BY EventTypes
  <2>3. e.type # "CONNECT_REQUEST"
    BY DEF Ok, Bad
  <2>4. channel'[Server] = Append(channel[Server], e)
    BY <2>1 DEF Deliver
  <2>. QED
    BY <2>2, <2>3, <2>4
<1>. QED
  BY <1>2, <1>3, <1>4
  DEF Cm, Resolve, Refused, ReplyArrives, DisconnectAnswered

LEMMA CmAsked ==
  ASSUME TypeInv, AskInv, NEW c \in Clients, Cm(c)
  PROVE  AskInv'
<1>1. /\ channel[Server] \in Seq(CmEvents) /\ peer \in Clients \cup {Nobody}
      /\ Nobody \notin Clients
  BY ProcFacts, TypeParts DEF TypeInv, CmTypes
<1>2. /\ UNCHANGED <<pc, peer>>
      /\ \A d \in Clients : sv[d] # "none" => sv'[d] # "none"
  BY CmEffect
<1>3. Asked(channel[Server], peer, sv')
  BY <1>1, <1>2, AskedStays DEF AskInv
<1>4. ASSUME NEW e \in CmEvents, e.ok, e.id = c, sv[c] = "none",
             sv'[c] = "requested"
      PROVE  Asked(Append(channel[Server], e), peer, sv')
  <2>. DEFINE s == channel[Server]
  <2>1. /\ Len(s) \in Nat /\ DOMAIN s = 1 .. Len(s)
        /\ DOMAIN Append(s, e) = 1 .. (Len(s) + 1)
        /\ Append(s, e)[Len(s) + 1] = e
        /\ \A i \in 1 .. Len(s) : Append(s, e)[i] = s[i]
    BY <1>1
  <2>2. \A i \in DOMAIN s : s[i].type = "CONNECT_REQUEST" => s[i].id # c
    BY <1>4 DEF AskInv, Asked
  <2>3. c # peer
    BY <1>1, <1>4 DEF AskInv
  <2>4. \A i \in DOMAIN Append(s, e) : i \in DOMAIN s \/ i = Len(s) + 1
    BY <2>1
  <2>. HIDE DEF s
  <2>5. Asked(s, peer, sv')
    BY <1>3 DEF s
  <2>6. Asked(Append(s, e), peer, sv')
    BY <1>4, <2>1, <2>2, <2>3, <2>4, <2>5 DEF Asked
  <2>. QED
    BY <2>6 DEF s
<1>5. ASSUME NEW e \in CmEvents, e.type # "CONNECT_REQUEST"
      PROVE  Asked(Append(channel[Server], e), peer, sv')
  <2>. DEFINE s == channel[Server]
  <2>1. /\ Len(s) \in Nat /\ DOMAIN s = 1 .. Len(s)
        /\ DOMAIN Append(s, e) = 1 .. (Len(s) + 1)
        /\ Append(s, e)[Len(s) + 1] = e
        /\ \A i \in 1 .. Len(s) : Append(s, e)[i] = s[i]
    BY <1>1
  <2>2. \A i \in DOMAIN Append(s, e) : i \in DOMAIN s \/ i = Len(s) + 1
    BY <2>1
  <2>. HIDE DEF s
  <2>3. Asked(s, peer, sv')
    BY <1>3 DEF s
  <2>4. Asked(Append(s, e), peer, sv')
    BY <1>5, <2>1, <2>2, <2>3 DEF Asked
  <2>. QED
    BY <2>4 DEF s
<1>6. Asked(channel'[Server], peer', sv')
  <2>1. peer' = peer
    BY <1>2
  <2>2. Asked(channel'[Server], peer, sv')
    <3>1. CASE channel'[Server] = channel[Server]
      BY <1>3, <3>1
    <3>2. ASSUME NEW e \in CmEvents, channel'[Server] = Append(channel[Server], e),
                 \/ e.type # "CONNECT_REQUEST"
                 \/ e.ok /\ e.id = c /\ sv[c] = "none" /\ sv'[c] = "requested"
          PROVE  Asked(channel'[Server], peer, sv')
      BY <1>4, <1>5, <3>2
    <3>. QED
      BY <3>1, <3>2, CmAsks
  <2>. QED
    BY <2>1, <2>2
<1>. QED
  BY <1>1, <1>2, <1>6 DEF AskInv

LEMMA NextAskInv == TypeInv /\ AskInv /\ [Next]_vars => AskInv'
<1>. SUFFICES ASSUME TypeInv, AskInv, [Next]_vars PROVE AskInv'
  OBVIOUS
<1>1. CASE UNCHANGED <<sv, peer>> /\ pc'[Server] = pc[Server]
           /\ channel'[Server] = channel[Server]
  BY <1>1 DEF AskInv
<1>2. CASE \E c \in Clients : ClientStep(c) \/ KillClient(c)
  BY <1>1, <1>2, ClientElsewhere, DomainsHold, ProcFacts
  DEF Elsewhere, ProcElsewhere, ChannelElsewhere
<1>3. CASE \E p \in Procs : Device(p)
  BY <1>1, <1>3 DEF Device, procVars, cmVars
<1>4. CASE UNCHANGED vars
  BY <1>1, <1>4 DEF vars, procVars, cmVars
<1>. QED
  BY <1>2, <1>3, <1>4, ServerAsked, CmAsked DEF Next, Terminated

SingleClient == \E c : Clients = {c}

NoLostId == "leaked_cm_id" \notin held[Server]

LEMMA NoIdLost ==
  ASSUME SingleClient, TypeInv, AskInv, NoLostId, ServerStep \/ KillServer
  PROVE  NoLostId'
<1>1. PICK c : Clients = {c}
  BY DEF SingleClient
<1>2. /\ Server \in Procs /\ channel[Server] \in Seq(CmEvents)
      /\ peer \in Clients \cup {Nobody}
  BY ProcFacts, TypeParts DEF TypeInv, CmTypes
<1>3. CASE held'[Server] \cap Unreachable \subseteq held[Server]
  BY <1>3 DEF NoLostId, Unreachable
<1>4. CASE UNCHANGED held
  BY <1>4 DEF NoLostId
<1>5. CASE RdmaEventFails(Server) /\ channel[Server] # <<>>
           /\ Head(channel[Server]).type = "CONNECT_REQUEST"
  <2>1. 1 \in DOMAIN channel[Server] /\ Head(channel[Server]) = channel[Server][1]
    BY <1>2, <1>5
  <2>2. Head(channel[Server]).ok /\ Head(channel[Server]).id # peer
    BY <1>5, <2>1 DEF AskInv, Asked
  <2>3. Head(channel[Server]).id = c
    <3>1. Head(channel[Server]) \in ToSet(channel[Server])
      BY <2>1 DEF ToSet
    <3>. QED
      BY <1>1, <1>2, <3>1, EventIds
  <2>4. pc[Server] \in Unchosen \cap DOMAIN Awaited
    BY <1>1, <1>2, <1>5, <2>2, <2>3 DEF AskInv, RdmaEventFails
  <2>5. pc[Server] = "connect_request"
    BY <2>4 DEF Unchosen, Awaited
  <2>6. IsExpected(Server, Awaited[pc[Server]])
    BY <1>5, <2>2, <2>5 DEF IsExpected, Awaited
  <2>. QED
    BY <1>4, <1>5, <2>6 DEF RdmaEventFails
<1>6. CASE SendServerMetadata /\ NoRdmaBuffer(meta[Server].length)
           /\ Fail(Server, -1)
  BY <1>2, <1>6, DomainsHold DEF NoRdmaBuffer, Holding, Domains, NoLostId
<1>. QED
  BY <1>3, <1>5, <1>6, ServerGains

\* With one client the request is read by the wait that looks for it
\* (rdma_server.c:205-216), and no id is lost.
THEOREM NoLostIdCorrect == ASSUME SingleClient PROVE Spec => []NoLostId
<1>1. Init => AskInv /\ NoLostId
  BY ProcFacts DEF Init, AskInv, Asked, Unchosen, NoLostId
<1>2. TypeInv /\ AskInv /\ NoLostId /\ [Next]_vars => NoLostId'
  <2>. SUFFICES ASSUME TypeInv, AskInv, NoLostId, [Next]_vars PROVE NoLostId'
    OBVIOUS
  <2>1. CASE held'[Server] = held[Server]
    BY <2>1 DEF NoLostId
  <2>2. CASE \E c \in Clients : ClientStep(c) \/ KillClient(c)
    BY <2>1, <2>2, ClientElsewhere, DomainsHold, ProcFacts
    DEF Elsewhere, ProcElsewhere
  <2>. QED
    BY <2>1, <2>2, NoIdLost DEF Next, Terminated, Cm, Device, vars, procVars
<1>. QED
  BY <1>1, <1>2, NextAskInv, TypeInvCorrect, PTL DEF Spec

\* With one client each library object outlives those made from it, in every
\* order in which the programs allocate, fail, are killed and clean up: the
\* event channel too, which the id of a second client's request would still be
\* on (rdma_server.c:49-118, rdma_client.c:88-136).
THEOREM DependentsFirstCorrect ==
  ASSUME SingleClient PROVE Spec => []DependentsFirst
<1>1. ResourcesInv /\ NoLostId => DependentsFirst
  <2>. SUFFICES ASSUME ResourcesInv, NoLostId, NEW p \in Procs,
                       NEW r \in held[p] \cap DOMAIN MadeFrom
                PROVE  OutlivedBy(p, r)
    BY DEF DependentsFirst
  <2>1. Deps(held[p])
    BY ProcFacts DEF ResourcesInv, ClientHolds, ServerHolds
  <2>2. r \notin Unreachable
    <3>1. r # "leaked_buffer"
      BY DEF MadeFrom
    <3>2. p # Server => "leaked_cm_id" \notin held[p]
      BY ResourceNames, ProcFacts DEF ResourcesInv, ClientHolds
    <3>. QED
      BY <3>1, <3>2 DEF NoLostId, Unreachable
  <2>. QED
    BY <2>1, <2>2 DEF Deps, OutlivedBy
<1>. QED
  BY <1>1, ResourcesInvCorrect, NoLostIdCorrect, PTL
=============================================================================
