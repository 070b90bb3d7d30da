----------------------------- MODULE RdmaFabric -----------------------------
(***************************************************************************)
(* What the two programs rely on and the repository does not contain: the  *)
(* connection manager (CM) and the RDMA device, as InfiniBand reliable     *)
(* connections behave.                                                     *)
(*                                                                         *)
(* cl[c], the client's side of a connection: "idle", "resolving_addr",     *)
(*   "resolving_route", "quiet" (nothing outstanding), "connecting",       *)
(*   "replied" (ESTABLISHED is in the channel), "connected",               *)
(*   "disconnecting", "disconnected" (DISCONNECTED is in the channel or    *)
(*   read), "left" and "gone" (the id is destroyed, after a connection or  *)
(*   without one).                                                         *)
(* sv[c], the server's side: "none", "requested", "accepted", "connected", *)
(*   "parted" (DISCONNECTED is in the channel or read), "lost" (the        *)
(*   connection never came up), "closed" (the id is destroyed).            *)
(***************************************************************************)
EXTENDS RdmaCommon

Deliver(p, event) == channel' = [channel EXCEPT ![p] = Append(@, event)]

Client(c, state) == cl' = [cl EXCEPT ![c] = state] /\ UNCHANGED sv
Peer(c, state) == sv' = [sv EXCEPT ![c] = state] /\ UNCHANGED cl

\* The answer to rdma_resolve_addr or rdma_resolve_route.
Resolve(c) ==
  /\ \/ cl[c] = "resolving_addr" /\ Deliver(c, Ok("ADDR_RESOLVED", c))
     \/ cl[c] = "resolving_route" /\ Deliver(c, Ok("ROUTE_RESOLVED", c))
     \/ /\ cl[c] \in {"resolving_addr", "resolving_route"}
        /\ "resolve" \in Faults
        /\ Deliver(c, Bad("FAILURE", c))
  /\ Client(c, "quiet")

\* The client's request reaches the listener: one channel takes the requests
\* of every client, and the events of the connection that was accepted.
RequestArrives(c) ==
  /\ cl[c] = "connecting" /\ sv[c] = "none" /\ listening
  /\ Deliver(Server, Ok("CONNECT_REQUEST", c))
  /\ Peer(c, "requested")

\* Nobody listens, or the server closed its side, or no reply comes.
Refused(c) ==
  /\ cl[c] = "connecting"
  /\ \/ sv[c] = "none" /\ ~listening
     \/ sv[c] = "closed"
     \/ "timeout" \in Faults
  /\ Deliver(c, Bad("FAILURE", c))
  /\ Client(c, "quiet")

ReplyArrives(c) ==
  /\ cl[c] = "connecting" /\ sv[c] = "accepted"
  /\ Deliver(c, Ok("ESTABLISHED", c))
  /\ Client(c, "replied")

\* The client is ready to use the connection, or has been.
ReadyArrives(c) ==
  /\ sv[c] = "accepted"
  /\ cl[c] \in {"connected", "disconnecting", "disconnected", "left"}
  /\ Deliver(Server, Ok("ESTABLISHED", c))
  /\ Peer(c, "connected")

\* The client gave up before it was ready.
ReadyNeverArrives(c) ==
  /\ sv[c] = "accepted"
  /\ cl[c] \in {"quiet", "gone"} \/ "timeout" \in Faults
  /\ Deliver(Server, Bad("FAILURE", c))
  /\ Peer(c, "lost")

\* rdma_disconnect of the client, or the kernel for a client that died.
DisconnectArrives(c) ==
  /\ sv[c] = "connected"
  /\ cl[c] \in {"disconnecting", "left"}
  /\ Deliver(Server, Ok("DISCONNECTED", c))
  /\ Peer(c, "parted")

\* The client hears of the end of the connection when the server destroys its
\* id (the server never calls rdma_disconnect), or never.
DisconnectAnswered(c) ==
  /\ \/ /\ cl[c] \in {"connected", "disconnecting"} /\ sv[c] = "closed"
        /\ Deliver(c, Ok("DISCONNECTED", c))
     \/ /\ cl[c] = "disconnecting" /\ "timeout" \in Faults
        /\ Deliver(c, Bad("FAILURE", c))
  /\ Client(c, "disconnected")

Cm(c) ==
  /\ \/ Resolve(c) \/ RequestArrives(c) \/ Refused(c) \/ ReplyArrives(c)
     \/ ReadyArrives(c) \/ ReadyNeverArrives(c)
     \/ DisconnectArrives(c) \/ DisconnectAnswered(c)
  /\ UNCHANGED <<procVars, workVars, dataVars, listening, peer, ub>>

-----------------------------------------------------------------------------
(* The device. *)

\* The process at the other end of p's queue pair, which is in use at both
\* ends or not at all.
Remote(p) == IF p = Server THEN peer ELSE Server

Linked(p) ==
  /\ IF p = Server THEN peer # Nobody ELSE peer = p
  /\ qp[p] = "up" /\ qp[Remote(p)] = "up"

\* The region a posted receive points to.
RecvRegion(p) ==
  IF p = Server THEN "client_metadata_mr" ELSE "server_metadata_mr"

\* The rdma_buffer_attr a SEND carries: the server's holds the length of its
\* buffer, the client's that of its message, and both the local key.
MetadataOf(p) ==
  [length |-> IF p = Server THEN buf.len ELSE MsgLen[p], key |-> "lkey"]

\* A remote key opens a region of the server if it has the value of rkey.
KeyFits(key) == key = "rkey" \/ (key = "lkey" /\ KeysCoincide = TRUE)

\* Whether the server's device allows client c to access server_buffer_mr for
\* the length of its message.
AccessAllowed(c) ==
  /\ "server_buffer_mr" \in held[Server]
  /\ KeyFits(meta[c].key)
  /\ MsgLen[c] <= buf.len

CanCarryOut(p) ==
  /\ Linked(p)
  /\ IF Head(sq[p]) = "SEND"
     THEN rq[Remote(p)] > 0 /\ RecvRegion(Remote(p)) \in held[Remote(p)]
     ELSE Head(sq[p]) # "STRAY" /\ AccessAllowed(p)

Freed == "server_buffer" \notin held[Server]
NoteFreedAccess == ub' = ub \cup (IF Freed THEN {"freed_buffer"} ELSE {})

CarryOutSend(p) ==
  /\ Head(sq[p]) = "SEND"
  /\ meta' = [meta EXCEPT ![Remote(p)] = MetadataOf(p)]
  /\ rq' = [rq EXCEPT ![Remote(p)] = @ - 1]
  /\ cq' = [cq EXCEPT ![Remote(p)] = Arrive(@, <<Wc("RECV", TRUE)>>)]
  /\ UNCHANGED <<buf, dst, ub>>

CarryOutWrite(c) ==
  /\ Head(sq[c]) = "WRITE"
  /\ buf' = [buf EXCEPT !.data = c]
  /\ NoteFreedAccess
  /\ UNCHANGED <<meta, dst, rq, cq>>

CarryOutRead(c) ==
  /\ Head(sq[c]) = "READ"
  /\ \E data \in {buf.data} \cup (IF Freed THEN {Garbage} ELSE {}) :
       dst' = [dst EXCEPT ![c] = data]
  /\ NoteFreedAccess
  /\ UNCHANGED <<meta, buf, rq, cq>>

\* The oldest request is carried out; the completion on the other side, if
\* there is one, can be seen before the completion on this side.
CarryOut(p) ==
  /\ sq[p] # <<>> /\ CanCarryOut(p)
  /\ CarryOutSend(p) \/ CarryOutWrite(p) \/ CarryOutRead(p)
  /\ sent' = [sent EXCEPT ![p] = Append(@, Head(sq[p]))]
  /\ sq' = [sq EXCEPT ![p] = Tail(@)]
  /\ UNCHANGED <<qp, printed>>

Completes(p) ==
  /\ sent[p] # <<>>
  /\ cq' = [cq EXCEPT ![p] = Arrive(@, <<Wc(Head(sent[p]), TRUE)>>)]
  /\ sent' = [sent EXCEPT ![p] = Tail(@)]
  /\ UNCHANGED <<sq, rq, qp, dataVars, ub>>

\* The oldest request cannot be carried out: it and all others fail.  A queue
\* pair that has refused access to memory does not serve any more either.
CannotCarryOut(p) ==
  /\ sq[p] # <<>>
  /\ ~CanCarryOut(p) \/ "wc" \in Faults
  /\ QpsToError(IF Linked(p) /\ Head(sq[p]) # "SEND" /\ ~CanCarryOut(p)
                THEN {p, Remote(p)} ELSE {p})
  /\ UNCHANGED <<dataVars, ub>>

\* A request was carried out and the acknowledgement is lost for good: the
\* requester cannot tell it from a failure.
AnswerLost(p) ==
  /\ "wc" \in Faults
  /\ sent[p] # <<>>
  /\ qp' = [qp EXCEPT ![p] = "error"]
  /\ cq' = [cq EXCEPT ![p] = Arrive(@, Errors(sent[p] \o sq[p], rq[p]))]
  /\ sq' = [sq EXCEPT ![p] = <<>>]
  /\ sent' = [sent EXCEPT ![p] = <<>>]
  /\ rq' = [rq EXCEPT ![p] = 0]
  /\ UNCHANGED <<dataVars, ub>>

Device(p) ==
  /\ CarryOut(p) \/ Completes(p) \/ CannotCarryOut(p) \/ AnswerLost(p)
  /\ UNCHANGED <<procVars, cmVars, channel>>
=============================================================================
