------------------------- MODULE RdmaExchangeProofs -------------------------
(***************************************************************************)
(* What is posted and carried out: whatever a device does, the receive of  *)
(* one side is posted before the other side's SEND is carried out.         *)
(***************************************************************************)
EXTENDS RdmaConnectionProofs

-----------------------------------------------------------------------------
(* The steps of a device. *)

\* The oldest request of p is carried out.
CarriesOut(p) ==
  /\ sq[p] # <<>> /\ CanCarryOut(p) /\ UNCHANGED qp
  /\ sq'[p] = Tail(sq[p]) /\ sent'[p] = Append(sent[p], Head(sq[p]))
  /\ \A q \in Procs : q # p => sq'[q] = sq[q] /\ sent'[q] = sent[q]
  /\ \A q \in Procs :
       IF Head(sq[p]) = "SEND" /\ q = Remote(p)
       THEN /\ rq'[q] = rq[q] - 1
            /\ cq'[q] = Arrive(cq[q], <<Wc("RECV", TRUE)>>)
       ELSE rq'[q] = rq[q] /\ cq'[q] = cq[q]

\* A request that p has carried out is reported.
Reports(p) ==
  /\ sent[p] # <<>> /\ sent'[p] = Tail(sent[p]) /\ UNCHANGED <<sq, rq, qp>>
  /\ cq'[p] = Arrive(cq[p], <<Wc(Head(sent[p]), TRUE)>>)
  /\ \A q \in Procs : q # p => sent'[q] = sent[q] /\ cq'[q] = cq[q]

\* The queue pairs of ps end with errors; what p has posted is the reason.
Stops(p, ps) ==
  /\ sq[p] # <<>> \/ sent[p] # <<>>
  /\ ps = {p} \/ (p # Server /\ ps = {p, Server} /\ Linked(p))
  /\ \A q \in ps :
       /\ qp'[q] = "error" /\ sq'[q] = <<>> /\ sent'[q] = <<>> /\ rq'[q] = 0
       /\ \/ cq'[q] = Arrive(cq[q], Carried(sent[q]) \o Errors(sq[q], rq[q]))
          \/ cq'[q] = Arrive(cq[q], Errors(sent[q] \o sq[q], rq[q]))
  /\ \A q \in Procs \ ps :
       /\ qp'[q] = qp[q] /\ sq'[q] = sq[q] /\ sent'[q] = sent[q]
       /\ rq'[q] = rq[q] /\ cq'[q] = cq[q]

LEMMA QpsStop ==
  ASSUME Domains, NEW p \in Procs, NEW ps \in SUBSET Procs, QpsToError(ps),
         sq[p] # <<>>,
         ps = {p} \/ (p # Server /\ ps = {p, Server} /\ Linked(p))
  PROVE  Stops(p, ps)
<1>. DEFINE flushed(q) == Carried(sent[q]) \o Errors(sq[q], rq[q])
<1>1. /\ qp' = [q \in Procs |-> IF q \in ps THEN "error" ELSE qp[q]]
      /\ cq' = [q \in Procs |->
                  IF q \in ps THEN Arrive(cq[q], flushed(q)) ELSE cq[q]]
      /\ sq' = [q \in Procs |-> IF q \in ps THEN <<>> ELSE sq[q]]
      /\ sent' = [q \in Procs |-> IF q \in ps THEN <<>> ELSE sent[q]]
      /\ rq' = [q \in Procs |-> IF q \in ps THEN 0 ELSE rq[q]]
  BY DEF QpsToError, Carried
<1>. HIDE DEF flushed
<1>2. \A q \in ps :
        /\ qp'[q] = "error" /\ sq'[q] = <<>> /\ sent'[q] = <<>> /\ rq'[q] = 0
        /\ cq'[q] = Arrive(cq[q], flushed(q))
  BY <1>1
<1>3. \A q \in Procs \ ps :
        /\ qp'[q] = qp[q] /\ sq'[q] = sq[q] /\ sent'[q] = sent[q]
        /\ rq'[q] = rq[q] /\ cq'[q] = cq[q]
  BY <1>1
<1>. QED
  BY <1>2, <1>3 DEF Stops, flushed

LEMMA DeviceSteps ==
  ASSUME TypeInv, NEW p \in Procs, Device(p)
  PROVE  /\ UNCHANGED <<procVars, cmVars, channel>>
         /\ (CarryOut(p) /\ CarriesOut(p)) \/ Reports(p) \/ \E ps : Stops(p, ps)
<1>1. Domains /\ WorkTypes /\ CmTypes /\ ServerOnlySends
  BY DomainsHold, TypeParts DEF TypeInv
<1>2. UNCHANGED <<procVars, cmVars, channel>>
  BY DEF Device
<1>3. CASE CarryOut(p)
  <2>1. Remote(p) \in Procs
    BY <1>1, <1>3, RemoteType DEF CarryOut, CanCarryOut
  <2>2. /\ sq[p] # <<>> /\ CanCarryOut(p) /\ UNCHANGED qp
        /\ sq'[p] = Tail(sq[p]) /\ sent'[p] = Append(sent[p], Head(sq[p]))
        /\ \A q \in Procs : q # p => sq'[q] = sq[q] /\ sent'[q] = sent[q]
    BY <1>1, <1>3 DEF CarryOut, Domains
  <2>3. CASE CarryOutSend(p)
    <3>1. /\ Head(sq[p]) = "SEND"
          /\ rq' = [rq EXCEPT ![Remote(p)] = @ - 1]
          /\ cq' = [cq EXCEPT ![Remote(p)] = Arrive(@, <<Wc("RECV", TRUE)>>)]
      BY <2>3 DEF CarryOutSend
    <3>2. /\ rq'[Remote(p)] = rq[Remote(p)] - 1
          /\ cq'[Remote(p)] = Arrive(cq[Remote(p)], <<Wc("RECV", TRUE)>>)
          /\ \A q \in Procs : q # Remote(p) => rq'[q] = rq[q] /\ cq'[q] = cq[q]
      BY <1>1, <2>1, <3>1 DEF Domains
    <3>. QED
      BY <1>2, <1>3, <2>2, <3>1, <3>2 DEF CarriesOut
  <2>4. CASE CarryOutWrite(p) \/ CarryOutRead(p)
    <3>1. Head(sq[p]) # "SEND" /\ UNCHANGED <<rq, cq>>
      BY <2>4 DEF CarryOutWrite, CarryOutRead
    <3>. QED
      BY <1>2, <1>3, <2>2, <3>1 DEF CarriesOut
  <2>. QED
    BY <1>2, <1>3, <2>3, <2>4 DEF CarryOut
<1>4. CASE Completes(p)
  BY <1>1, <1>2, <1>4 DEF Completes, Reports, Domains
<1>5. CASE CannotCarryOut(p)
  <2>1. PICK ps : /\ QpsToError(ps)
                  /\ ps = IF Linked(p) /\ Head(sq[p]) # "SEND"
                              /\ ~CanCarryOut(p)
                          THEN {p, Remote(p)} ELSE {p}
    BY <1>5 DEF CannotCarryOut
  <2>2. sq[p] # <<>>
    BY <1>5 DEF CannotCarryOut
  <2>3. p = Server => Head(sq[p]) = "SEND"
    BY <1>1, <2>2, HeadOfPosted
  <2>4. ps = {p} \/ (p # Server /\ ps = {p, Server} /\ Linked(p))
    BY <2>1, <2>3 DEF Remote
  <2>5. ps \in SUBSET Procs
    BY <2>4, ProcFacts
  <2>. QED
    BY <1>1, <1>2, <2>1, <2>2, <2>4, <2>5, QpsStop
<1>6. CASE AnswerLost(p)
  <2>1. /\ qp'[p] = "error" /\ sq'[p] = <<>> /\ sent'[p] = <<>> /\ rq'[p] = 0
        /\ cq'[p] = Arrive(cq[p], Errors(sent[p] \o sq[p], rq[p]))
        /\ sent[p] # <<>>
    BY <1>1, <1>6 DEF AnswerLost, Domains
  <2>2. \A q \in Procs \ {p} :
          /\ qp'[q] = qp[q] /\ sq'[q] = sq[q] /\ sent'[q] = sent[q]
          /\ rq'[q] = rq[q] /\ cq'[q] = cq[q]
    BY <1>1, <1>6 DEF AnswerLost, Domains
  <2>3. Stops(p, {p})
    BY <2>1, <2>2 DEF Stops
  <2>. QED
    BY <1>2, <2>3
<1>. QED
  BY <1>3, <1>4, <1>5, <1>6 DEF Device

-----------------------------------------------------------------------------
(* A receive for every send. *)

ServerUnconnected ==
  {"setup_server", "connect_request", "setup_communication_resources",
   "post_metadata_recv_buffer", "accept_client_connection"}

\* Where neither side has posted its SEND yet.
ServerBeforeSend ==
  ServerUnconnected \cup {"established", "exchange_metadata_with_client"}

ClientBeforeSend(l, w) ==
  \/ l \in {"setup_client", "addr", "route", "established"} \cup Preparing
  \/ l = "exchange_metadata_with_server" /\ w = "none"

\* A SEND is the oldest request, or there is none.
FirstOnly(s) == \A i \in 2 .. Len(s) : s[i] # "SEND"

PostedInv ==
  /\ pc[Server] \in ServerUnconnected => qp[Server] # "up"
  /\ pc[Server] \in ServerBeforeSend => sq[Server] = <<>> /\ sent[Server] = <<>>
  /\ Len(sq[Server]) <= 1
  /\ \A c \in Clients :
       /\ ClientBeforeSend(pc[c], wait[c]) => sq[c] = <<>> /\ sent[c] = <<>>
       /\ FirstOnly(sq[c])

\* Until the client's SEND has been carried out its receive is posted at the
\* server, from before the server accepts.
ServerReceives(c) ==
  (/\ peer = c
   /\ ClientBeforeSend(pc[c], wait[c]) \/ "SEND" \in ToSet(sq[c])
   /\ pc[Server] = "accept_client_connection" \/ qp[Server] = "up")
  => rq[Server] > 0

\* Until the server's SEND has been carried out its receive is posted at the
\* client, from before the client connects.
ClientReceives(c) ==
  (/\ pc[Server] \in ServerBeforeSend \/ sq[Server] # <<>>
   /\ pc[c] \in {"connect_to_server", "established"} \/ qp[c] = "up")
  => rq[c] > 0

LEMMA ClientReceiveSteps ==
  ASSUME Domains, "errno" \notin Faults, NEW c \in Clients,
         ClientStep(c) \/ KillClient(c), rq[c] \in Nat
  PROVE  pc'[c] \in {"connect_to_server", "established"} \/ qp'[c] = "up" =>
           \/ rq'[c] > 0
           \/ /\ pc[c] \in {"connect_to_server", "established"} \/ qp[c] = "up"
              /\ rq'[c] = rq[c]
<1>. USE DEF Domains, Goto, Fail, workVars
<1>0. c \in Procs /\ c # Server
  BY ProcFacts
<1>1. CASE \/ SetupClient(c) \/ AddrResolved(c) \/ RouteResolved(c)
           \/ setup_protection_domain(c) \/ create_completion_channel(c)
           \/ create_completion_queue(c) \/ setup_queue_pairs(c)
           \/ ClientPostsRecv(c) \/ connect_to_server(c) \/ ClientEstablished(c)
  BY <1>0, <1>1
  DEF FailsPartway, FailsUnnoticed, AllocatesOrFails, SetupClient,
      AddrResolved, RouteResolved, setup_protection_domain,
      create_completion_channel, create_completion_queue, setup_queue_pairs,
      ClientPostsRecv, connect_to_server, ClientEstablished
<1>2. CASE \/ exchange_metadata_with_server(c) \/ client_write_message(c)
           \/ client_read_message(c)
  BY <1>0, <1>2
  DEF FailsPartway, FailsUnnoticed, exchange_metadata_with_server,
      client_write_message, client_read_message
<1>3. CASE \/ ReadComplete(c) \/ RdmaEventFails(c) \/ WorkCompletionEvent(c)
  BY <1>0, <1>3
  DEF ReadComplete, RdmaEventFails, WorkCompletionEvent, GetCqEvent,
      ReqNotifyCq, PollCq, WorkCompletionError, AwaitFailed
<1>4. CASE Disconnect(c)
  <2>1. QpsToError({c}) \/ UNCHANGED workVars
    BY <1>4 DEF Disconnect
  <2>2. pc'[c] \in {"disconnected", "release"}
    BY <1>0, <1>4 DEF Disconnect
  <2>. QED
    BY <1>0, <2>1, <2>2, QpToError
<1>5. CASE \/ Disconnected(c) \/ NoDisconnected(c) \/ FreePlain(c)
           \/ DestroyQp(c) \/ DestroyCq(c) \/ ClientDestroysId(c)
           \/ ClientDestroysChannel(c) \/ Exit(c) \/ KillClient(c)
  BY <1>0, <1>5
  DEF ClientDies, Disconnected, NoDisconnected, FreePlain, DestroyQp, Releases,
      DestroyCq, ClientDestroysId, ClientDestroysChannel, Exit, KillClient
<1>. QED
  BY <1>1, <1>2, <1>3, <1>4, <1>5 DEF ClientStep, cleanup_client

\* A client posts one request at a time, and its SEND once.
PostsOnce(c) ==
  \/ sq'[c] \in {sq[c], <<>>} /\ sent'[c] \in {sent[c], <<>>}
  \/ /\ sent'[c] = sent[c] /\ ~ClientBeforeSend(pc[c], wait[c])'
     /\ \/ /\ sq'[c] = Append(sq[c], "SEND")
           /\ ClientBeforeSend(pc[c], wait[c])
        \/ \E op \in Opcodes \ {"SEND"} : sq'[c] = Append(sq[c], op)

LEMMA ClientSendSteps ==
  ASSUME Domains, NEW c \in Clients, ClientStep(c) \/ KillClient(c)
  PROVE  /\ PostsOnce(c)
         /\ ClientBeforeSend(pc[c], wait[c])' => ClientBeforeSend(pc[c], wait[c])
<1>. USE DEF Domains, Goto, Fail, workVars, PostsOnce, ClientBeforeSend,
             Preparing
<1>0. c \in Procs /\ c # Server
  BY ProcFacts
<1>1. CASE \/ SetupClient(c) \/ AddrResolved(c) \/ RouteResolved(c)
           \/ setup_protection_domain(c) \/ create_completion_channel(c)
           \/ create_completion_queue(c) \/ setup_queue_pairs(c)
           \/ ClientPostsRecv(c) \/ connect_to_server(c) \/ ClientEstablished(c)
  BY <1>0, <1>1
  DEF FailsPartway, FailsUnnoticed, AllocatesOrFails, SetupClient,
      AddrResolved, RouteResolved, setup_protection_domain,
      create_completion_channel, create_completion_queue, setup_queue_pairs,
      ClientPostsRecv, connect_to_server, ClientEstablished
<1>2. CASE exchange_metadata_with_server(c)
  BY <1>0, <1>2
  DEF FailsPartway, FailsUnnoticed, PostSend, AwaitCompletions,
      exchange_metadata_with_server
<1>3. CASE client_write_message(c) \/ client_read_message(c)
  <2>1. \A op : PostRdma(c, op) => \E o \in {op, "STRAY"} : PostSend(c, o)
    BY DEF PostRdma
  <2>2. {"WRITE", "READ", "STRAY"} \subseteq Opcodes \ {"SEND"}
    BY DEF Opcodes
  <2>3. /\ pc'[c] \in {"client_write_message", "client_read_message", "cleanup"}
        /\ UNCHANGED sent
    BY <1>0, <1>3
    DEF FailsPartway, FailsUnnoticed, client_write_message, client_read_message
  <2>4. \/ UNCHANGED sq
        \/ \E op \in {"WRITE", "READ", "STRAY"} : PostSend(c, op)
    BY <1>3, <2>1 DEF client_write_message, client_read_message
  <2>5. \/ sq'[c] = sq[c]
        \/ \E op \in {"WRITE", "READ", "STRAY"} : sq'[c] = Append(sq[c], op)
    BY <1>0, <2>4 DEF PostSend
  <2>6. ~ClientBeforeSend(pc[c], wait[c])'
    BY <2>3
  <2>7. \/ sq'[c] = sq[c]
        \/ \E op \in Opcodes \ {"SEND"} : sq'[c] = Append(sq[c], op)
    BY <2>2, <2>5
  <2>. QED
    BY <2>3, <2>6, <2>7
<1>4. CASE \/ ReadComplete(c) \/ RdmaEventFails(c) \/ WorkCompletionEvent(c)
  BY <1>0, <1>4
  DEF ReadComplete, RdmaEventFails, WorkCompletionEvent, GetCqEvent,
      ReqNotifyCq, PollCq, WorkCompletionError, AwaitFailed, Returned
<1>5. CASE Disconnect(c)
  <2>1. QpsToError({c}) \/ UNCHANGED workVars
    BY <1>5 DEF Disconnect
  <2>2. pc'[c] \in {"disconnected", "release"}
    BY <1>0, <1>5 DEF Disconnect
  <2>3. QpsToError({c}) => sq'[c] = <<>> /\ sent'[c] = <<>>
    BY <1>0 DEF QpsToError
  <2>. QED
    BY <1>0, <2>1, <2>2, <2>3
<1>6. CASE \/ Disconnected(c) \/ NoDisconnected(c) \/ FreePlain(c)
           \/ DestroyQp(c) \/ DestroyCq(c) \/ ClientDestroysId(c)
           \/ ClientDestroysChannel(c) \/ Exit(c) \/ KillClient(c)
  BY <1>0, <1>6
  DEF ClientDies, Disconnected, NoDisconnected, FreePlain, DestroyQp, Releases,
      DestroyCq, ClientDestroysId, ClientDestroysChannel, Exit, KillClient
<1>. QED
  BY <1>1, <1>2, <1>3, <1>4, <1>5, <1>6 DEF ClientStep, cleanup_client

ServerPostsOnce ==
  \/ sq'[Server] \in {sq[Server], <<>>} /\ sent'[Server] \in {sent[Server], <<>>}
  \/ /\ pc[Server] \in ServerBeforeSend /\ pc'[Server] \notin ServerBeforeSend
     /\ sq'[Server] = Append(sq[Server], "SEND") /\ sent'[Server] = sent[Server]

ServerReceiveStep ==
  pc'[Server] = "accept_client_connection" \/ qp'[Server] = "up" =>
    \/ rq'[Server] > 0
    \/ /\ pc[Server] = "accept_client_connection" \/ qp[Server] = "up"
       /\ rq'[Server] = rq[Server]

ServerConnects ==
  /\ pc'[Server] \in ServerBeforeSend => pc[Server] \in ServerBeforeSend
  /\ pc'[Server] \in ServerUnconnected =>
       /\ pc[Server] \in ServerUnconnected
       /\ qp'[Server] \in {qp[Server], "reset"}
  /\ \/ peer' = peer
     \/ /\ pc[Server] = "connect_request" /\ qp'[Server] = qp[Server]
        /\ pc'[Server] = "setup_communication_resources"

LEMMA ServerSendSteps ==
  ASSUME Domains, ServerStep \/ KillServer, rq[Server] \in Nat
  PROVE  ServerPostsOnce /\ ServerReceiveStep /\ ServerConnects
<1>. USE DEF Domains, Goto, Fail, workVars, cmVars, ServerPostsOnce,
             ServerReceiveStep, ServerConnects, ServerBeforeSend,
             ServerUnconnected
<1>0. Server \in Procs
  BY ProcFacts
<1>1. CASE \/ SetupServer \/ ConnectRequest \/ setup_communication_resources
  BY <1>0, <1>1
  DEF FailsPartway, FailsUnnoticed, SetupServer, ConnectRequest,
      setup_communication_resources
<1>2. CASE \/ ServerPostsRecv \/ ServerPostsToNoQp
           \/ accept_client_connection \/ ServerEstablished
  BY <1>0, <1>2
  DEF FailsPartway, AwaitCompletions, ServerPostsRecv, ServerPostsToNoQp,
      accept_client_connection, ServerEstablished, ServerDies
<1>3. CASE SendServerMetadata
  BY <1>0, <1>3
  DEF FailsUnnoticed, PostSend, AwaitCompletions, SendServerMetadata
<1>4. CASE ServerMetadataSent \/ disconnect_from_client
  BY <1>0, <1>4 DEF ServerMetadataSent, disconnect_from_client
<1>5. CASE RdmaEventFails(Server) \/ WorkCompletionEvent(Server)
  BY <1>0, <1>5
  DEF RdmaEventFails, WorkCompletionEvent, GetCqEvent, ReqNotifyCq, PollCq,
      WorkCompletionError, AwaitFailed
<1>6. CASE cleanup_server \/ KillServer
  BY <1>0, <1>6
  DEF ServerDies, cleanup_server, FreePlain, DestroyQp, DestroyCq, Releases,
      ServerDestroysClientId, ServerDestroysServerId, ServerDestroysChannel,
      Exit, KillServer
<1>. QED
  BY <1>1, <1>2, <1>3, <1>4, <1>5, <1>6 DEF ServerStep

LEMMA FirstOnlyNone ==
  FirstOnly(<<>>) /\ FirstOnly(<<"SEND">>) /\ ToSet(<<>>) = {}
BY ToSetOfNone DEF FirstOnly

LEMMA FirstOnlyTail ==
  ASSUME NEW s \in Seq(Opcodes), FirstOnly(s), s # <<>>
  PROVE  FirstOnly(Tail(s)) /\ "SEND" \notin ToSet(Tail(s))
<1>1. Len(s) \in Nat \ {0} /\ Len(Tail(s)) = Len(s) - 1
  OBVIOUS
<1>2. \A i \in 1 .. Len(Tail(s)) : Tail(s)[i] = s[i + 1]
  OBVIOUS
<1>3. \A i \in 1 .. Len(Tail(s)) : Tail(s)[i] # "SEND"
  BY <1>1, <1>2 DEF FirstOnly
<1>4. DOMAIN Tail(s) = 1 .. Len(Tail(s))
  OBVIOUS
<1>. QED
  BY <1>1, <1>3, <1>4 DEF FirstOnly, ToSet

LEMMA FirstOnlyAppend ==
  ASSUME NEW s \in Seq(Opcodes), FirstOnly(s), NEW op \in Opcodes, op # "SEND"
  PROVE  /\ FirstOnly(Append(s, op))
         /\ "SEND" \in ToSet(Append(s, op)) => "SEND" \in ToSet(s)
<1>1. ToSet(Append(s, op)) = ToSet(s) \cup {op}
  BY ToSetAppend
<1>2. /\ Len(s) \in Nat /\ Len(Append(s, op)) = Len(s) + 1
      /\ \A i \in 1 .. Len(s) : Append(s, op)[i] = s[i]
      /\ Append(s, op)[Len(s) + 1] = op
  OBVIOUS
<1>3. FirstOnly(Append(s, op))
  BY <1>2 DEF FirstOnly
<1>. QED
  BY <1>1, <1>3

ReadyInv ==
  PostedInv /\ \A c \in Clients : ServerReceives(c) /\ ClientReceives(c)

LEMMA ReadyParts ==
  ASSUME TypeInv
  PROVE  /\ Domains /\ Server \in Procs /\ Clients \subseteq Procs
         /\ \A c \in Clients : c # Server
         /\ \A p \in Procs : /\ sq[p] \in Seq(Opcodes) /\ sent[p] \in Seq(Opcodes)
                             /\ rq[p] \in Nat
         /\ sq[Server] \in Seq({"SEND"})
BY DomainsHold, ProcFacts, TypeParts DEF TypeInv, WorkTypes, ServerOnlySends

LEMMA ClientPosted ==
  ASSUME TypeInv, ReadyInv, NEW c \in Clients, ClientStep(c) \/ KillClient(c)
  PROVE  /\ ClientBeforeSend(pc[c], wait[c])' => sq'[c] = <<>> /\ sent'[c] = <<>>
         /\ FirstOnly(sq'[c])
         /\ "SEND" \in ToSet(sq'[c]) =>
              \/ "SEND" \in ToSet(sq[c])
              \/ ClientBeforeSend(pc[c], wait[c])
<1>1. /\ PostsOnce(c)
      /\ ClientBeforeSend(pc[c], wait[c])' => ClientBeforeSend(pc[c], wait[c])
  BY ReadyParts, ClientSendSteps
<1>2. /\ ClientBeforeSend(pc[c], wait[c]) => sq[c] = <<>> /\ sent[c] = <<>>
      /\ FirstOnly(sq[c]) /\ sq[c] \in Seq(Opcodes)
  BY ReadyParts DEF ReadyInv, PostedInv
<1>3. CASE sq'[c] \in {sq[c], <<>>} /\ sent'[c] \in {sent[c], <<>>}
  BY <1>1, <1>2, <1>3, FirstOnlyNone
<1>4. CASE /\ ~ClientBeforeSend(pc[c], wait[c])'
           /\ sq'[c] = Append(sq[c], "SEND")
           /\ ClientBeforeSend(pc[c], wait[c])
  <2>1. Append(<<>>, "SEND") = <<"SEND">>
    OBVIOUS
  <2>2. sq'[c] = <<"SEND">>
    BY <1>2, <1>4, <2>1
  <2>. QED
    BY <1>2, <1>4, <2>2, FirstOnlyNone
<1>5. ASSUME ~ClientBeforeSend(pc[c], wait[c])',
             NEW op \in Opcodes \ {"SEND"}, sq'[c] = Append(sq[c], op)
      PROVE  /\ ~ClientBeforeSend(pc[c], wait[c])' /\ FirstOnly(sq'[c])
             /\ "SEND" \in ToSet(sq'[c]) => "SEND" \in ToSet(sq[c])
  BY <1>2, <1>5, FirstOnlyAppend
<1>. QED
  BY <1>1, <1>3, <1>4, <1>5 DEF PostsOnce

LEMMA ClientStepReady ==
  ASSUME "errno" \notin Faults, TypeInv, ReadyInv, NEW c \in Clients,
         ClientStep(c) \/ KillClient(c)
  PROVE  ReadyInv'
<1>1. /\ Elsewhere(c) /\ peer' = peer
      /\ Domains /\ Server \in Procs /\ Clients \subseteq Procs /\ c # Server
      /\ rq[c] \in Nat
  BY ReadyParts, ClientElsewhere
<1>2. /\ pc'[Server] = pc[Server] /\ qp'[Server] = qp[Server]
      /\ sq'[Server] = sq[Server] /\ sent'[Server] = sent[Server]
      /\ rq'[Server] = rq[Server]
  BY <1>1 DEF Elsewhere, ProcElsewhere, WorkElsewhere
<1>3. ASSUME NEW d \in Clients, d # c
      PROVE  /\ pc'[d] = pc[d] /\ wait'[d] = wait[d] /\ qp'[d] = qp[d]
             /\ sq'[d] = sq[d] /\ sent'[d] = sent[d] /\ rq'[d] = rq[d]
  BY <1>1, <1>3 DEF Elsewhere, ProcElsewhere, WorkElsewhere
<1>4. /\ ClientBeforeSend(pc[c], wait[c])' => sq'[c] = <<>> /\ sent'[c] = <<>>
      /\ FirstOnly(sq'[c])
      /\ "SEND" \in ToSet(sq'[c]) =>
           "SEND" \in ToSet(sq[c]) \/ ClientBeforeSend(pc[c], wait[c])
  BY ClientPosted
<1>5. ClientBeforeSend(pc[c], wait[c])' => ClientBeforeSend(pc[c], wait[c])
  BY <1>1, ClientSendSteps
<1>6. PostedInv'
  <2>1. ASSUME NEW d \in Clients
        PROVE  /\ ClientBeforeSend(pc[d], wait[d])' =>
                    sq'[d] = <<>> /\ sent'[d] = <<>>
               /\ FirstOnly(sq'[d])
    <3>1. CASE d = c
      BY <1>4, <3>1
    <3>2. CASE d # c
      <4>1. ClientBeforeSend(pc[d], wait[d])' = ClientBeforeSend(pc[d], wait[d])
        BY <1>3, <3>2
      <4>. QED
        BY <1>3, <3>2, <4>1 DEF ReadyInv, PostedInv
    <3>. QED
      BY <3>1, <3>2
  <2>. QED
    BY <1>2, <2>1 DEF ReadyInv, PostedInv
<1>7. ASSUME NEW d \in Clients PROVE ServerReceives(d)' /\ ClientReceives(d)'
  <2>1. ServerReceives(d) /\ ClientReceives(d)
    BY DEF ReadyInv
  <2>2. CASE d = c
    <3>1. ServerReceives(d)'
      BY <1>1, <1>2, <1>4, <1>5, <2>1, <2>2 DEF ServerReceives
    <3>2. pc'[c] \in {"connect_to_server", "established"} \/ qp'[c] = "up" =>
            \/ rq'[c] > 0
            \/ /\ pc[c] \in {"connect_to_server", "established"} \/ qp[c] = "up"
               /\ rq'[c] = rq[c]
      BY <1>1, ClientReceiveSteps
    <3>3. ClientReceives(d)'
      BY <1>2, <2>1, <2>2, <3>2 DEF ClientReceives
    <3>. QED
      BY <3>1, <3>3
  <2>3. CASE d # c
    <3>1. ClientBeforeSend(pc[d], wait[d])' = ClientBeforeSend(pc[d], wait[d])
      BY <1>3, <2>3
    <3>. QED
      BY <1>1, <1>2, <1>3, <2>1, <2>3, <3>1 DEF ServerReceives, ClientReceives
  <2>. QED
    BY <2>2, <2>3
<1>. QED
  BY <1>6, <1>7 DEF ReadyInv

LEMMA ServerStepReady ==
  ASSUME TypeInv, ReadyInv, ServerStep \/ KillServer
  PROVE  ReadyInv'
<1>1. /\ Elsewhere(Server)
      /\ Domains /\ Server \in Procs /\ Clients \subseteq Procs
      /\ \A c \in Clients : c # Server
      /\ rq[Server] \in Nat
  BY ReadyParts, ServerElsewhere
<1>2. ASSUME NEW d \in Clients
      PROVE  /\ pc'[d] = pc[d] /\ wait'[d] = wait[d] /\ qp'[d] = qp[d]
             /\ sq'[d] = sq[d] /\ sent'[d] = sent[d] /\ rq'[d] = rq[d]
             /\ ClientBeforeSend(pc[d], wait[d])' = ClientBeforeSend(pc[d], wait[d])
  BY <1>1, <1>2 DEF Elsewhere, ProcElsewhere, WorkElsewhere
<1>3. ServerPostsOnce /\ ServerReceiveStep /\ ServerConnects
  BY <1>1, ServerSendSteps
<1>4. /\ pc'[Server] \in ServerBeforeSend => sq'[Server] = <<>> /\ sent'[Server] = <<>>
      /\ Len(sq'[Server]) <= 1
      /\ sq'[Server] # <<>> =>
           sq[Server] # <<>> \/ pc[Server] \in ServerBeforeSend
  <2>1. /\ pc[Server] \in ServerBeforeSend => sq[Server] = <<>> /\ sent[Server] = <<>>
        /\ Len(sq[Server]) <= 1 /\ Len(<<>>) <= 1 /\ Len(<<"SEND">>) <= 1
    BY DEF ReadyInv, PostedInv
  <2>2. Append(<<>>, "SEND") = <<"SEND">>
    OBVIOUS
  <2>. QED
    BY <1>3, <2>1, <2>2 DEF ServerPostsOnce, ServerConnects
<1>5. pc'[Server] \in ServerUnconnected => qp'[Server] # "up"
  BY <1>3 DEF ReadyInv, PostedInv, ServerConnects
<1>6. PostedInv'
  BY <1>2, <1>4, <1>5 DEF ReadyInv, PostedInv
<1>7. ASSUME NEW d \in Clients PROVE ServerReceives(d)' /\ ClientReceives(d)'
  <2>1. ServerReceives(d) /\ ClientReceives(d)
    BY DEF ReadyInv
  <2>2. ASSUME peer' = peer PROVE ServerReceives(d)'
    BY <1>2, <1>3, <2>1, <2>2 DEF ServerReceiveStep, ServerReceives
  <2>3. ASSUME peer' # peer PROVE ServerReceives(d)'
    <3>1. /\ pc'[Server] = "setup_communication_resources"
          /\ qp'[Server] # "up"
      BY <1>3, <1>5, <2>3 DEF ServerConnects, ServerUnconnected
    <3>. QED
      BY <3>1 DEF ServerReceives
  <2>4. ClientReceives(d)'
    BY <1>2, <1>3, <1>4, <2>1 DEF ServerConnects, ClientReceives
  <2>. QED
    BY <2>2, <2>3, <2>4
<1>. QED
  BY <1>6, <1>7 DEF ReadyInv

LEMMA CarriesOutReady ==
  ASSUME TypeInv, ReadyInv, NEW p \in Procs, CarriesOut(p),
         UNCHANGED <<pc, wait, peer>>
  PROVE  ReadyInv'
<1>1. /\ Server \in Procs /\ Clients \subseteq Procs /\ \A c \in Clients : c # Server
      /\ sq[p] \in Seq(Opcodes) /\ sq[p] # <<>>
      /\ sq'[p] = Tail(sq[p]) /\ UNCHANGED qp
      /\ \A q \in Procs : q # p => sq'[q] = sq[q] /\ sent'[q] = sent[q]
      /\ \A q \in Procs :
           rq'[q] # rq[q] => Head(sq[p]) = "SEND" /\ q = Remote(p) /\ Linked(p)
  BY ReadyParts DEF CarriesOut, CanCarryOut
<1>2. ASSUME NEW c \in Clients, p # c
      PROVE  /\ ClientBeforeSend(pc[c], wait[c])' =>
                  sq'[c] = <<>> /\ sent'[c] = <<>>
             /\ FirstOnly(sq'[c])
  BY <1>1, <1>2 DEF ReadyInv, PostedInv
<1>3. ASSUME p \in Clients
      PROVE  /\ ~ClientBeforeSend(pc[p], wait[p])
             /\ FirstOnly(sq'[p]) /\ "SEND" \notin ToSet(sq'[p])
  BY <1>1, <1>3, FirstOnlyTail DEF ReadyInv, PostedInv
<1>4. /\ pc[Server] \in ServerBeforeSend => sq'[Server] = <<>> /\ sent'[Server] = <<>>
      /\ Len(sq'[Server]) <= 1
      /\ p = Server => pc[Server] \notin ServerBeforeSend /\ sq'[Server] = <<>>
  <2>1. p = Server => sq'[Server] = <<>>
    <3>1. Len(sq[Server]) <= 1
      BY DEF ReadyInv, PostedInv
    <3>. QED
      BY <1>1, <3>1, TailOfOne
  <2>2. Len(<<>>) <= 1
    OBVIOUS
  <2>. QED
    BY <1>1, <2>1, <2>2 DEF ReadyInv, PostedInv
<1>5. PostedInv'
  <2>1. ASSUME NEW c \in Clients
        PROVE  /\ ClientBeforeSend(pc[c], wait[c])' =>
                    sq'[c] = <<>> /\ sent'[c] = <<>>
               /\ FirstOnly(sq'[c])
    BY <1>2, <1>3
  <2>. QED
    BY <1>1, <1>4, <2>1 DEF ReadyInv, PostedInv
<1>6. ASSUME NEW c \in Clients PROVE ServerReceives(c)' /\ ClientReceives(c)'
  <2>1. ServerReceives(c) /\ ClientReceives(c)
    BY DEF ReadyInv
  <2>2. ClientBeforeSend(pc[c], wait[c])' = ClientBeforeSend(pc[c], wait[c])
    OBVIOUS
  <2>3. ServerReceives(c)'
    <3>1. CASE p = c
      BY <1>3, <2>2, <3>1 DEF ServerReceives
    <3>2. ASSUME p # c, peer = c PROVE rq'[Server] = rq[Server]
      BY <1>1, <3>2 DEF Linked, Remote
    <3>. QED
      BY <1>1, <2>1, <2>2, <3>1, <3>2 DEF ServerReceives
  <2>4. ClientReceives(c)'
    <3>1. CASE p = Server
      BY <1>4, <3>1 DEF ClientReceives
    <3>2. ASSUME p # Server PROVE rq'[c] = rq[c] /\ sq'[Server] = sq[Server]
      BY <1>1, <3>2 DEF Remote
    <3>. QED
      BY <1>1, <2>1, <3>1, <3>2 DEF ClientReceives
  <2>. QED
    BY <2>3, <2>4
<1>. QED
  BY <1>5, <1>6 DEF ReadyInv

LEMMA ReportsReady ==
  ASSUME TypeInv, ReadyInv, NEW p \in Procs, Reports(p),
         UNCHANGED <<pc, wait, peer>>
  PROVE  ReadyInv'
<1>1. /\ Server \in Procs /\ Clients \subseteq Procs /\ sent[p] # <<>>
      /\ UNCHANGED <<sq, rq, qp>>
      /\ \A q \in Procs : q # p => sent'[q] = sent[q]
  BY ReadyParts DEF Reports
<1>2. \A c \in Clients :
        ClientBeforeSend(pc[c], wait[c])' = ClientBeforeSend(pc[c], wait[c])
  OBVIOUS
<1>3. PostedInv'
  BY <1>1, <1>2 DEF ReadyInv, PostedInv
<1>. QED
  BY <1>1, <1>2, <1>3 DEF ReadyInv, ServerReceives, ClientReceives

LEMMA StopsReady ==
  ASSUME TypeInv, ReadyInv, NEW p \in Procs, NEW ps, Stops(p, ps),
         UNCHANGED <<pc, wait, peer>>
  PROVE  ReadyInv'
<1>1. /\ Server \in Procs /\ Clients \subseteq Procs /\ \A c \in Clients : c # Server
      /\ sq[p] # <<>> \/ sent[p] # <<>>
      /\ ps = {p} \/ (p # Server /\ ps = {p, Server} /\ Linked(p))
      /\ \A q \in ps : qp'[q] = "error" /\ sq'[q] = <<>> /\ sent'[q] = <<>>
      /\ \A q \in Procs \ ps :
           /\ qp'[q] = qp[q] /\ sq'[q] = sq[q] /\ sent'[q] = sent[q]
           /\ rq'[q] = rq[q]
  BY ReadyParts DEF Stops
<1>2. \A c \in Clients :
        ClientBeforeSend(pc[c], wait[c])' = ClientBeforeSend(pc[c], wait[c])
  OBVIOUS
<1>3. PostedInv'
  <2>1. ASSUME NEW c \in Clients
        PROVE  /\ ClientBeforeSend(pc[c], wait[c])' =>
                    sq'[c] = <<>> /\ sent'[c] = <<>>
               /\ FirstOnly(sq'[c])
    BY <1>1, <1>2, FirstOnlyNone DEF ReadyInv, PostedInv
  <2>2. /\ pc[Server] \in ServerUnconnected => qp'[Server] # "up"
        /\ pc[Server] \in ServerBeforeSend =>
             sq'[Server] = <<>> /\ sent'[Server] = <<>>
        /\ Len(sq'[Server]) <= 1
    <3>1. Len(<<>>) <= 1
      OBVIOUS
    <3>. QED
      BY <1>1, <3>1 DEF ReadyInv, PostedInv
  <2>. QED
    BY <2>1, <2>2 DEF PostedInv
<1>4. Server \in ps => pc[Server] # "accept_client_connection"
  BY <1>1
  DEF ReadyInv, PostedInv, Linked, Remote, ServerBeforeSend, ServerUnconnected
<1>5. ASSUME NEW c \in Clients, c \in ps
      PROVE  pc[c] \notin {"connect_to_server", "established"}
  BY <1>1, <1>5 DEF ReadyInv, PostedInv, ClientBeforeSend, Preparing
<1>6. ASSUME NEW c \in Clients PROVE ServerReceives(c)' /\ ClientReceives(c)'
  <2>1. ServerReceives(c) /\ ClientReceives(c)
    BY DEF ReadyInv
  <2>2. /\ "SEND" \in ToSet(sq'[c]) => "SEND" \in ToSet(sq[c])
        /\ sq'[Server] # <<>> => sq[Server] # <<>>
    BY <1>1, ToSetOfNone
  <2>3. ServerReceives(c)'
    BY <1>1, <1>2, <1>4, <2>1, <2>2 DEF ServerReceives
  <2>4. ClientReceives(c)'
    BY <1>1, <1>2, <1>5, <2>1, <2>2 DEF ClientReceives
  <2>. QED
    BY <2>3, <2>4
<1>. QED
  BY <1>3, <1>6 DEF ReadyInv

LEMMA InitReadyInv == Init => ReadyInv
<1>. SUFFICES ASSUME Init PROVE ReadyInv
  OBVIOUS
<1>1. /\ Server \in Procs /\ \A c \in Clients : c \in Procs /\ c # Server
      /\ Len(<<>>) <= 1
  BY ProcFacts
<1>2. PostedInv
  BY <1>1, FirstOnlyNone DEF Init, PostedInv
<1>3. \A c \in Clients : ServerReceives(c) /\ ClientReceives(c)
  BY <1>1, ToSetOfNone DEF Init, ServerReceives, ClientReceives
<1>. QED
  BY <1>2, <1>3 DEF ReadyInv

LEMMA NextReadyInv ==
  ASSUME "errno" \notin Faults, TypeInv, ReadyInv, [Next]_vars
  PROVE  ReadyInv'
<1>1. ASSUME UNCHANGED <<procVars, workVars, peer>> PROVE ReadyInv'
  BY <1>1
  DEF procVars, workVars, ReadyInv, PostedInv, ServerReceives, ClientReceives
<1>2. ASSUME NEW c \in Clients, ClientStep(c) \/ KillClient(c) PROVE ReadyInv'
  BY <1>2, ClientStepReady
<1>3. ASSUME NEW c \in Clients, Cm(c) PROVE ReadyInv'
  BY <1>1, <1>3 DEF Cm
<1>4. CASE ServerStep \/ KillServer
  BY <1>4, ServerStepReady
<1>5. ASSUME NEW p \in Procs, Device(p) PROVE ReadyInv'
  <2>1. /\ UNCHANGED <<pc, wait, peer>>
        /\ CarriesOut(p) \/ Reports(p) \/ \E ps : Stops(p, ps)
    BY <1>5, DeviceSteps DEF procVars, cmVars
  <2>. QED
    BY <2>1, CarriesOutReady, ReportsReady, StopsReady
<1>6. CASE UNCHANGED vars
  BY <1>1, <1>6 DEF vars, cmVars
<1>. QED
  BY <1>2, <1>3, <1>4, <1>5, <1>6 DEF Next, Terminated

\* Unless a failed verb goes unnoticed, a receive is posted whenever a metadata
\* SEND is about to be carried out, with any number of clients and whatever
\* else fails (post_metadata_recv_buffer, rdma_client.c:371-405,
\* rdma_server.c:313-370).
THEOREM ReceiverReadyCorrect ==
  ASSUME "errno" \notin Faults PROVE Spec => []ReceiverReady
<1>1. TypeInv /\ ReadyInv /\ [Next]_vars => ReadyInv'
  BY NextReadyInv
<1>2. TypeInv /\ ReadyInv => ReceiverReady
  <2>. SUFFICES ASSUME TypeInv, ReadyInv, NEW p \in Procs, Linked(p),
                       sq[p] # <<>>, Head(sq[p]) = "SEND"
                PROVE  rq[Remote(p)] > 0
    BY DEF ReceiverReady
  <2>1. /\ Server \in Procs /\ \A c \in Clients : c # Server
        /\ peer \in Clients \cup {Nobody}
    BY ReadyParts, TypeParts DEF TypeInv, CmTypes
  <2>2. CASE p = Server
    BY <2>1, <2>2 DEF ReadyInv, ClientReceives, Linked, Remote
  <2>3. CASE p # Server
    <3>1. sq[p] \in Seq(Opcodes) /\ "SEND" \in ToSet(sq[p])
      <4>1. sq[p] \in Seq(Opcodes)
        BY ReadyParts
      <4>2. 1 \in DOMAIN sq[p] /\ sq[p][1] = "SEND"
        BY <4>1
      <4>. QED
        BY <4>1, <4>2 DEF ToSet
    <3>. QED
      BY <2>1, <2>3, <3>1 DEF ReadyInv, ServerReceives, Linked, Remote, Procs
  <2>. QED
    BY <2>2, <2>3
<1>. QED
  BY <1>1, <1>2, InitReadyInv, TypeInvCorrect, PTL DEF Spec

=============================================================================
