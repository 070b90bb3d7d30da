------------------------ MODULE RdmaCompletionProofs ------------------------
(***************************************************************************)
(* The completions a program gets from its calls, from the first request   *)
(* it posts to the last: those of the requests it waits for, and no others.*)
(***************************************************************************)
EXTENDS RdmaExchangeProofs

-----------------------------------------------------------------------------
(* The completions of the present call: those it has retrieved, and those  *)
(* that are still in the queue.                                            *)

Completions(p) == got[p] \o cq[p].wcs

AllBad(s) == \A i \in DOMAIN s : ~s[i].ok

\* u is s followed by t, entry by entry.
Joins(u, s, t) ==
  /\ Len(u) = Len(s) + Len(t)
  /\ \A i \in 1 .. Len(s) : u[i] = s[i]
  /\ \A i \in 1 .. Len(t) : u[Len(s) + i] = t[i]
  /\ \A i \in 1 .. Len(s) + Len(t) :
       i \in 1 .. Len(s) \/ \E j \in 1 .. Len(t) : i = Len(s) + j

LEMMA ConcatJoins ==
  ASSUME NEW S, NEW s \in Seq(S), NEW t \in Seq(S)
  PROVE  s \o t \in Seq(S) /\ Joins(s \o t, s, t)
<1>. DEFINE u == s \o t
<1>1. u \in Seq(S)
  BY Concat, Zenon
<1>2. Len(u) = Len(s) + Len(t)
  BY Concat, Zenon
<1>3. \A i \in 1 .. Len(s) : u[i] = s[i]
  BY Concat, Zenon
<1>4. \A i \in 1 .. Len(t) : u[Len(s) + i] = t[i]
  BY Concat, SMTT(30)
<1>5. \A i \in 1 .. Len(s) + Len(t) :
        i \in 1 .. Len(s) \/ \E j \in 1 .. Len(t) : i = Len(s) + j
  BY Concat, Zenon
<1>. QED
  BY <1>1, <1>2, <1>3, <1>4, <1>5, Zenon DEF Joins

LEMMA AllBadParts ==
  ASSUME NEW s \in Seq(WorkCompletions), NEW t \in Seq(WorkCompletions)
  PROVE  /\ AllBad(s \o t) <=> AllBad(s) /\ AllBad(t)
         /\ AllBad(<<>>)
<1>1. /\ Len(s) \in Nat /\ Len(t) \in Nat
      /\ DOMAIN s = 1 .. Len(s) /\ DOMAIN t = 1 .. Len(t)
  OBVIOUS
<1>2. /\ s \o t \in Seq(WorkCompletions) /\ Len(s \o t) = Len(s) + Len(t)
      /\ \A i \in 1 .. Len(s) : (s \o t)[i] = s[i]
      /\ \A i \in 1 .. Len(t) : (s \o t)[Len(s) + i] = t[i]
      /\ \A i \in 1 .. Len(s) + Len(t) :
           i \in 1 .. Len(s) \/ \E j \in 1 .. Len(t) : i = Len(s) + j
  BY Concat
<1>3. DOMAIN (s \o t) = 1 .. Len(s) + Len(t)
  BY <1>2
<1>. DEFINE u == s \o t
<1>4. /\ DOMAIN u = 1 .. Len(s) + Len(t)
      /\ \A i \in 1 .. Len(s) : u[i] = s[i]
      /\ \A i \in 1 .. Len(t) : u[Len(s) + i] = t[i]
  BY <1>2, <1>3
<1>. HIDE DEF u
<1>5. AllBad(u) => AllBad(s) /\ AllBad(t)
  <2>1. \A i \in 1 .. Len(s) : i \in 1 .. Len(s) + Len(t)
    BY <1>1
  <2>2. \A i \in 1 .. Len(t) : Len(s) + i \in 1 .. Len(s) + Len(t)
    BY <1>1
  <2>. QED
    BY <1>1, <1>4, <2>1, <2>2 DEF AllBad
<1>6. ASSUME AllBad(s), AllBad(t), NEW i \in DOMAIN u PROVE ~u[i].ok
  <2>1. CASE i \in 1 .. Len(s)
    BY <1>1, <1>4, <1>6, <2>1 DEF AllBad
  <2>2. CASE \E j \in 1 .. Len(t) : i = Len(s) + j
    BY <1>1, <1>4, <1>6, <2>2 DEF AllBad
  <2>. QED
    BY <1>2, <1>4, <2>1, <2>2
<1>7. AllBad(<<>>)
  BY DEF AllBad
<1>. QED
  BY <1>5, <1>6, <1>7 DEF AllBad, u

\* Moved from the queue to wc[], oldest first.
LEMMA PollKeeps ==
  ASSUME NEW g \in Seq(WorkCompletions), NEW q \in Cqs, NEW n \in 1 .. Len(q.wcs)
  PROVE  /\ (g \o Polled(q, n)) \o ibv_poll_cq(q, n).wcs = g \o q.wcs
         /\ g \o Polled(q, n) \in Seq(WorkCompletions)
         /\ Len(g \o Polled(q, n)) = Len(g) + n
<1>1. /\ Polled(q, n) \in Seq(WorkCompletions) /\ Len(Polled(q, n)) = n
      /\ ibv_poll_cq(q, n) \in Cqs
      /\ Len(ibv_poll_cq(q, n).wcs) = Len(q.wcs) - n
      /\ \A i \in 1 .. n : Polled(q, n)[i] = q.wcs[i]
      /\ \A i \in 1 .. Len(q.wcs) - n : ibv_poll_cq(q, n).wcs[i] = q.wcs[n + i]
  BY PollType
<1>. DEFINE a == Polled(q, n)
            b == ibv_poll_cq(q, n).wcs
<1>2. /\ a \in Seq(WorkCompletions) /\ Len(a) = n
      /\ b \in Seq(WorkCompletions) /\ Len(b) = Len(q.wcs) - n
      /\ \A i \in 1 .. n : a[i] = q.wcs[i]
      /\ \A i \in 1 .. Len(q.wcs) - n : b[i] = q.wcs[n + i]
  BY <1>1, CqFields
<1>. HIDE DEF a, b
<1>3. q.wcs \in Seq(WorkCompletions) /\ Len(q.wcs) \in Nat /\ n \in Nat
  BY CqFields
<1>4. /\ a \o b \in Seq(WorkCompletions) /\ Len(a \o b) = Len(a) + Len(b)
      /\ \A i \in 1 .. Len(a) : (a \o b)[i] = a[i]
      /\ \A i \in 1 .. Len(b) : (a \o b)[Len(a) + i] = b[i]
      /\ \A i \in 1 .. Len(a) + Len(b) :
           i \in 1 .. Len(a) \/ \E j \in 1 .. Len(b) : i = Len(a) + j
  BY <1>2, Concat
<1>5. ASSUME NEW i \in 1 .. Len(q.wcs) PROVE (a \o b)[i] = q.wcs[i]
  <2>1. CASE i \in 1 .. Len(a)
    BY <1>2, <1>4, <2>1
  <2>2. ASSUME NEW j \in 1 .. Len(b), i = Len(a) + j
        PROVE  (a \o b)[i] = q.wcs[i]
    BY <1>2, <1>4, <2>2
  <2>3. Len(a) + Len(b) = Len(q.wcs)
    BY <1>2, <1>3
  <2>. QED
    BY <1>4, <2>1, <2>2, <2>3
<1>6. a \o b = q.wcs
  <2>1. Len(a \o b) = Len(q.wcs)
    BY <1>2, <1>3, <1>4
  <2>. QED
    BY <1>3, <1>4, <1>5, <2>1, SeqEqual
<1>7. (g \o a) \o b = g \o (a \o b)
  BY <1>2, ConcatAssociative
<1>8. g \o a \in Seq(WorkCompletions) /\ Len(g \o a) = Len(g) + n
  BY <1>2, Concat
<1>. QED
  BY <1>6, <1>7, <1>8 DEF a, b

\* The effect of a turn of the polling loop.
LEMMA PollEffect ==
  ASSUME TypeInv, NEW p \in Procs, PollCq(p)
  PROVE  /\ wait[p] = "poll"
         /\ UNCHANGED <<pc, held, sq, sent, rq, qp, dataVars, cmVars, channel, ub>>
         /\ Completions(p)' = Completions(p)
         /\ got'[p] # <<>>
         /\ cq'[p].armed = cq[p].armed /\ cq'[p].events = cq[p].events
         /\ \/ wait'[p] = "poll" /\ ret'[p] = ret[p]
            \/ wait'[p] = "returned" /\ ret'[p] = -1
            \/ /\ wait'[p] = "returned" /\ ret'[p] = Expected(p)
               /\ Len(got'[p]) = Expected(p)
               /\ \A i \in DOMAIN got'[p] : got'[p][i].ok
<1>1. /\ wait[p] = "poll"
      /\ UNCHANGED <<pc, held, sq, sent, rq, qp, dataVars, cmVars, channel, ub>>
  BY DEF PollCq
<1>2. /\ cq[p] \in Cqs /\ got[p] \in Seq(WorkCompletions) /\ Domains
      /\ cq[p].unacked > 0 /\ Len(got[p]) \in Nat /\ Len(cq[p].wcs) \in Nat
  BY <1>1, TypeParts, DomainsHold, CqFields
  DEF TypeInv, ProcTypes, WorkTypes, WaitsInCall
<1>3. PICK n \in 1 .. Expected(p) - Len(got[p]) :
        LET wcs == got[p] \o Polled(cq[p], n)
            allGood == \A i \in DOMAIN wcs : wcs[i].ok
            rest == ibv_poll_cq(cq[p], n)
        IN  /\ n <= Len(cq[p].wcs)
            /\ got' = [got EXCEPT ![p] = wcs]
            /\ IF Len(wcs) < Expected(p)
               THEN UNCHANGED <<wait, ret>>
               ELSE Returned(p, IF allGood THEN Len(wcs) ELSE -1)
            /\ cq' = [cq EXCEPT ![p] =
                        IF Len(wcs) = Expected(p) /\ allGood
                        THEN ibv_ack_cq_events(rest, 1) ELSE rest]
  BY DEF PollCq
<1>. DEFINE wcs == got[p] \o Polled(cq[p], n)
            allGood == \A i \in DOMAIN wcs : wcs[i].ok
            rest == ibv_poll_cq(cq[p], n)
            q == IF Len(wcs) = Expected(p) /\ allGood
                 THEN ibv_ack_cq_events(rest, 1) ELSE rest
<1>4. n \in 1 .. Len(cq[p].wcs) /\ n \in Nat /\ Expected(p) \in Nat
  BY <1>2, <1>3 DEF Expected
<1>5. /\ wcs \o rest.wcs = Completions(p)
      /\ wcs \in Seq(WorkCompletions) /\ Len(wcs) = Len(got[p]) + n
  BY <1>2, <1>4, PollKeeps DEF Completions
<1>6. /\ rest \in Cqs /\ rest.unacked = cq[p].unacked
      /\ rest.armed = cq[p].armed /\ rest.events = cq[p].events
  <2>1. rest \in Cqs /\ rest.unacked = cq[p].unacked
    BY <1>2, <1>4, PollType
  <2>2. rest.armed = cq[p].armed /\ rest.events = cq[p].events
    BY <1>2 DEF ibv_poll_cq, Cqs, CqType
  <2>. QED
    BY <2>1, <2>2
<1>7. /\ ibv_ack_cq_events(rest, 1).wcs = rest.wcs
      /\ ibv_ack_cq_events(rest, 1).armed = rest.armed
      /\ ibv_ack_cq_events(rest, 1).events = rest.events
  <2>. HIDE DEF rest
  <2>. QED
    BY <1>6 DEF ibv_ack_cq_events, Cqs, CqType
<1>8. /\ got' = [got EXCEPT ![p] = wcs] /\ cq' = [cq EXCEPT ![p] = q]
      /\ Len(wcs) < Expected(p) => UNCHANGED <<wait, ret>>
      /\ ~(Len(wcs) < Expected(p)) =>
           Returned(p, IF allGood THEN Len(wcs) ELSE -1)
  BY <1>3
<1>. HIDE DEF wcs, allGood, rest
<1>9. q.wcs = rest.wcs /\ q.armed = rest.armed /\ q.events = rest.events
  BY <1>7
<1>. HIDE DEF q
<1>10. got'[p] = wcs /\ cq'[p] = q
  BY <1>2, <1>8 DEF Domains
<1>11. Len(wcs) <= Expected(p)
  BY <1>2, <1>3, <1>4, <1>5
<1>12. wcs # <<>>
  <2>1. Len(wcs) # 0 /\ Len(<<>>) = 0
    BY <1>2, <1>4, <1>5
  <2>. QED
    BY <2>1
<1>13. Completions(p)' = Completions(p)
  BY <1>5, <1>9, <1>10 DEF Completions
<1>14. CASE Len(wcs) < Expected(p)
  BY <1>1, <1>6, <1>8, <1>9, <1>10, <1>12, <1>13, <1>14
<1>15. CASE ~(Len(wcs) < Expected(p))
  <2>1. Len(wcs) = Expected(p)
    BY <1>2, <1>4, <1>5, <1>11, <1>15
  <2>2. /\ wait'[p] = "returned"
        /\ ret'[p] = IF allGood THEN Len(wcs) ELSE -1
    BY <1>2, <1>8, <1>15 DEF Returned, Domains
  <2>3. allGood => \A i \in DOMAIN got'[p] : got'[p][i].ok
    BY <1>10 DEF allGood
  <2>. QED
    BY <1>1, <1>6, <1>9, <1>10, <1>12, <1>13, <2>1, <2>2, <2>3
<1>. QED
  BY <1>14, <1>15

\* The other steps inside the call: none takes a completion.
LEMMA CallEffect ==
  ASSUME TypeInv, NEW p \in Procs,
         GetCqEvent(p) \/ ReqNotifyCq(p) \/ WorkCompletionError(p)
  PROVE  /\ UNCHANGED <<pc, got, held, sq, sent, rq, qp, dataVars, cmVars,
                        channel, ub>>
         /\ cq'[p].wcs = cq[p].wcs
         /\ \/ wait'[p] \in {"req_notify", "poll"}
            \/ /\ wait'[p] = "returned"
               /\ \/ ret'[p] = -1
                  \/ "errno" \in Faults /\ ret'[p] = 0
                  \/ ret'[p] \in PollErrors
<1>1. cq[p] \in Cqs /\ Domains
  BY TypeParts, DomainsHold DEF TypeInv, WorkTypes
<1>2. CASE GetCqEvent(p)
  <2>1. cq'[p] = ibv_get_cq_event(cq[p])
    BY <1>1, <1>2 DEF GetCqEvent, Domains
  <2>2. cq'[p].wcs = cq[p].wcs
    BY <1>1, <1>2, <2>1, GetEventType DEF GetCqEvent
  <2>. QED
    BY <1>1, <1>2, <2>2 DEF GetCqEvent, Domains
<1>3. CASE ReqNotifyCq(p)
  <2>1. cq'[p] = ibv_req_notify_cq(cq[p])
    BY <1>1, <1>3 DEF ReqNotifyCq, Domains
  <2>2. cq'[p].wcs = cq[p].wcs
    BY <1>1, <2>1, NotifyType
  <2>. QED
    BY <1>1, <1>3, <2>2 DEF ReqNotifyCq, Domains
<1>4. CASE WorkCompletionError(p)
  BY <1>1, <1>4 DEF WorkCompletionError, Returned, workVars, Domains
<1>. QED
  BY <1>2, <1>3, <1>4

-----------------------------------------------------------------------------
(* The size of the server's buffer: a client that has sent its metadata    *)
(* has sent a length.                                                      *)

\* No client sends the length 0, and the error of a poll is no success.
Sizes == "call" \notin Faults /\ 1 \notin PollErrors /\ \A c \in Clients : MsgLen[c] > 0

NoneReceived ==
  AllBad(Completions(Server)) /\ (wait[Server] = "returned" => ret[Server] # 1)

Sized ==
  /\ pc[Server] \in ServerBeforeSend => sq[Server] = <<>> /\ sent[Server] = <<>>
  /\ (pc[Server] \in ServerBeforeSend /\ meta[Server].length = 0) => NoneReceived
  /\ "leaked_buffer" \notin held[Server]

LEMMA ServerSized ==
  ASSUME TypeInv
  PROVE  /\ Server \in Procs /\ Domains /\ cq[Server] \in Cqs
         /\ got[Server] \in Seq(WorkCompletions)
         /\ cq[Server].wcs \in Seq(WorkCompletions)
         /\ meta[Server].length \in Nat /\ rq[Server] \in Nat
         /\ sq[Server] \in Seq(Opcodes) /\ sent[Server] \in Seq(Opcodes)
<1>1. /\ Server \in Procs /\ Domains /\ cq[Server] \in Cqs
      /\ got[Server] \in Seq(WorkCompletions)
      /\ meta[Server] \in Metadata /\ rq[Server] \in Nat
      /\ sq[Server] \in Seq(Opcodes) /\ sent[Server] \in Seq(Opcodes)
  BY ProcFacts, DomainsHold, TypeParts
  DEF TypeInv, ProcTypes, WorkTypes, DataTypes
<1>. QED
  BY <1>1, CqFields DEF Metadata

\* How the server gets on, until it posts its SEND.
ServerGetsOn ==
  \/ GetCqEvent(Server) \/ ReqNotifyCq(Server)
  \/ WorkCompletionError(Server) \/ PollCq(Server)
  \/ /\ got'[Server] \in {got[Server], <<>>}
     /\ cq'[Server] \in {cq[Server], ibv_req_notify_cq(NewCq)}
     /\ wait'[Server] = "returned" =>
          wait[Server] = "returned" /\ ret'[Server] = ret[Server]

LEMMA ServerBeforeSteps ==
  ASSUME Domains, ServerStep \/ KillServer, pc'[Server] \in ServerBeforeSend
  PROVE  ServerGetsOn
<1>. USE DEF Domains, Goto, Fail, workVars, ServerGetsOn, ServerBeforeSend,
             ServerUnconnected
<1>0. Server \in Procs
  BY ProcFacts
<1>1. CASE \/ SetupServer \/ ConnectRequest \/ setup_communication_resources
  BY <1>0, <1>1
  DEF FailsPartway, FailsUnnoticed, SetupServer, ConnectRequest,
      setup_communication_resources
<1>2. CASE \/ ServerPostsRecv \/ ServerPostsToNoQp
           \/ accept_client_connection \/ ServerEstablished
  BY <1>0, <1>2
  DEF FailsPartway, AwaitCompletions, ServerPostsRecv, ServerPostsToNoQp,
      accept_client_connection, ServerEstablished, ServerDies
<1>3. CASE SendServerMetadata
  BY <1>0, <1>3
  DEF FailsUnnoticed, AwaitCompletions, SendServerMetadata
<1>4. CASE ServerMetadataSent \/ disconnect_from_client
  BY <1>0, <1>4 DEF ServerMetadataSent, disconnect_from_client
<1>5. CASE RdmaEventFails(Server) \/ WorkCompletionEvent(Server)
  BY <1>0, <1>5
  DEF RdmaEventFails, WorkCompletionEvent, AwaitFailed
<1>6. CASE cleanup_server \/ KillServer
  BY <1>0, <1>6
  DEF ServerDies, cleanup_server, FreePlain, DestroyQp, DestroyCq, Releases,
      ServerDestroysClientId, ServerDestroysServerId, ServerDestroysChannel,
      Exit, KillServer
<1>. QED
  BY <1>1, <1>2, <1>3, <1>4, <1>5, <1>6 DEF ServerStep

LEMMA ServerGetsOnSized ==
  ASSUME Sizes, TypeInv, ServerGetsOn, NoneReceived
  PROVE  NoneReceived'
<1>1. /\ Server \in Procs /\ Domains /\ cq[Server] \in Cqs
      /\ got[Server] \in Seq(WorkCompletions)
      /\ cq[Server].wcs \in Seq(WorkCompletions)
  BY ServerSized
<1>2. AllBad(got[Server]) /\ AllBad(cq[Server].wcs) /\ AllBad(<<>>)
  BY <1>1, AllBadParts DEF NoneReceived, Completions
<1>3. CASE GetCqEvent(Server) \/ ReqNotifyCq(Server) \/ WorkCompletionError(Server)
  <2>1. /\ got'[Server] = got[Server] /\ cq'[Server].wcs = cq[Server].wcs
        /\ wait'[Server] = "returned" =>
             ret'[Server] \in {-1, 0} \/ ret'[Server] \in PollErrors
    BY <1>1, <1>3, CallEffect
  <2>. QED
    BY <2>1 DEF Sizes, NoneReceived, Completions
<1>4. CASE PollCq(Server)
  <2>1. /\ Completions(Server)' = Completions(Server) /\ got'[Server] # <<>>
        /\ got'[Server] \in Seq(WorkCompletions)
        /\ cq'[Server].wcs \in Seq(WorkCompletions)
        /\ wait'[Server] = "returned" =>
             \/ ret'[Server] = -1
             \/ \A i \in DOMAIN got'[Server] : got'[Server][i].ok
    <3>1. BaseInv'
      BY <1>4, WorkCompletionEventTypes, <1>1
      DEF WorkCompletionEvent, TypeInv, BaseInv
    <3>2. /\ got'[Server] \in Seq(WorkCompletions)
          /\ cq'[Server] \in Cqs
      BY <1>1, <3>1, TypeParts DEF BaseInv, ProcTypes, WorkTypes
    <3>3. cq'[Server].wcs \in Seq(WorkCompletions)
      BY <3>2, CqFields
    <3>4. /\ Completions(Server)' = Completions(Server) /\ got'[Server] # <<>>
          /\ wait'[Server] = "returned" =>
               \/ ret'[Server] = -1
               \/ \A i \in DOMAIN got'[Server] : got'[Server][i].ok
      BY <1>1, <1>4, PollEffect
    <3>. QED
      BY <3>2, <3>3, <3>4
  <2>2. AllBad(got'[Server])
    <3>1. AllBad(got'[Server] \o cq'[Server].wcs)
      BY <2>1 DEF NoneReceived, Completions
    <3>. QED
      BY <2>1, <3>1, AllBadParts
  <2>3. 1 \in DOMAIN got'[Server]
    BY <2>1
  <2>. QED
    BY <2>1, <2>2, <2>3 DEF NoneReceived, AllBad
<1>5. CASE /\ got'[Server] \in {got[Server], <<>>}
           /\ cq'[Server] \in {cq[Server], ibv_req_notify_cq(NewCq)}
           /\ wait'[Server] = "returned" =>
                wait[Server] = "returned" /\ ret'[Server] = ret[Server]
  <2>1. cq'[Server].wcs \in {cq[Server].wcs, <<>>}
    BY <1>5, NewCqType, NotifyType
  <2>2. got'[Server] \in Seq(WorkCompletions) /\ cq'[Server].wcs \in Seq(WorkCompletions)
    <3>1. <<>> \in Seq(WorkCompletions)
      OBVIOUS
    <3>. QED
      BY <1>1, <1>5, <2>1, <3>1
  <2>3. AllBad(got'[Server]) /\ AllBad(cq'[Server].wcs)
    BY <1>2, <1>5, <2>1
  <2>4. AllBad(got'[Server] \o cq'[Server].wcs)
    BY <2>2, <2>3, AllBadParts
  <2>. QED
    BY <1>5, <2>4 DEF NoneReceived, Completions
<1>. QED
  BY <1>3, <1>4, <1>5 DEF ServerGetsOn

LEMMA ServerLosesNothing ==
  ASSUME TypeInv, "call" \notin Faults, ServerStep \/ KillServer,
         "leaked_buffer" \notin held[Server],
         AwaitSucceeded(Server) /\ pc[Server] = "exchange_metadata_with_client"
           => meta[Server].length # 0
  PROVE  "leaked_buffer" \notin held'[Server]
<1>1. Server \in Procs /\ Domains
  BY ProcFacts, DomainsHold
<1>2. CASE held'[Server] \cap Unreachable \subseteq held[Server]
  BY <1>2 DEF Unreachable
<1>3. CASE Holding(Server, {"leaked_cm_id"})
  BY <1>1, <1>3 DEF Holding, Domains
<1>4. ~(SendServerMetadata /\ NoRdmaBuffer(meta[Server].length))
  BY DEF SendServerMetadata, NoRdmaBuffer
<1>. QED
  BY <1>2, <1>3, <1>4, ServerGains

LEMMA ServerStepSized ==
  ASSUME Sizes, TypeInv, Sized, ServerStep \/ KillServer
  PROVE  Sized'
<1>1. /\ Domains /\ rq[Server] \in Nat /\ UNCHANGED meta
      /\ ServerPostsOnce /\ ServerConnects
  BY ServerSized, ServerSendSteps, ServerElsewhere
<1>2. pc'[Server] \in ServerBeforeSend => sq'[Server] = <<>> /\ sent'[Server] = <<>>
  BY <1>1 DEF Sized, ServerPostsOnce, ServerConnects
<1>3. ASSUME pc'[Server] \in ServerBeforeSend, meta'[Server].length = 0
      PROVE  NoneReceived'
  <2>1. ServerGetsOn
    BY <1>1, <1>3, ServerBeforeSteps
  <2>2. NoneReceived
    BY <1>1, <1>3 DEF Sized, ServerConnects
  <2>. QED
    BY <2>1, <2>2, ServerGetsOnSized
<1>4. AwaitSucceeded(Server) /\ pc[Server] = "exchange_metadata_with_client" =>
        meta[Server].length # 0
  BY DEF Sized, NoneReceived, AwaitSucceeded, Expected, ServerBeforeSend
<1>5. "leaked_buffer" \notin held'[Server]
  BY <1>4, ServerLosesNothing DEF Sized, Sizes
<1>. QED
  BY <1>2, <1>3, <1>5 DEF Sized

LEMMA DeviceSized ==
  ASSUME Sizes, TypeInv, Sized, NEW p \in Procs, Device(p)
  PROVE  Sized'
<1>1. /\ Server \in Procs /\ Domains /\ cq[Server] \in Cqs
      /\ got[Server] \in Seq(WorkCompletions)
      /\ cq[Server].wcs \in Seq(WorkCompletions)
      /\ meta[Server].length \in Nat /\ rq[Server] \in Nat
      /\ sq[Server] \in Seq(Opcodes) /\ sent[Server] \in Seq(Opcodes)
  BY ServerSized
<1>2. UNCHANGED <<pc, wait, got, ret, held>>
  BY DEF Device, procVars
<1>3. (CarryOut(p) /\ CarriesOut(p)) \/ Reports(p) \/ \E ps : Stops(p, ps)
  BY DeviceSteps
<1>4. pc[Server] \in ServerBeforeSend => sq[Server] = <<>> /\ sent[Server] = <<>>
  BY DEF Sized
<1>5. pc[Server] \in ServerBeforeSend => sq'[Server] = <<>> /\ sent'[Server] = <<>>
  BY <1>1, <1>3, <1>4 DEF CarriesOut, Reports, Stops
<1>6. ASSUME pc[Server] \in ServerBeforeSend, meta'[Server].length = 0
      PROVE  NoneReceived'
  <2>1. /\ meta[Server].length = 0 /\ cq'[Server] = cq[Server]
        \/ \E ops \in Seq(Opcodes) :
             /\ meta[Server].length = 0
             /\ cq'[Server] = Arrive(cq[Server], Errors(ops, rq[Server]))
    <3>1. CASE CarryOut(p)
      <4>1. Remote(p) \in Procs /\ p # Server
        BY <1>1, <1>4, <1>6, <3>1, TypeParts, RemoteType
        DEF TypeInv, CarryOut, CanCarryOut
      <4>2. p \in Clients /\ Remote(p) = Server
        BY <4>1 DEF Procs, Remote
      <4>3. CASE CarryOutSend(p)
        <5>1. meta'[Server].length = MsgLen[p]
          BY <1>1, <4>1, <4>2, <4>3 DEF CarryOutSend, MetadataOf, Domains
        <5>. QED
          BY <1>6, <4>2, <5>1, MsgLenAssumption DEF Sizes
      <4>4. CASE CarryOutWrite(p) \/ CarryOutRead(p)
        BY <1>6, <4>4 DEF CarryOutWrite, CarryOutRead
      <4>. QED
        BY <3>1, <4>3, <4>4 DEF CarryOut
    <3>2. CASE ~CarryOut(p)
      <4>1. Completes(p) \/ CannotCarryOut(p) \/ AnswerLost(p)
        BY <3>2 DEF Device
      <4>2. UNCHANGED meta
        BY <4>1 DEF Completes, CannotCarryOut, AnswerLost, dataVars
      <4>3. CASE Reports(p)
        BY <1>1, <1>4, <1>6, <4>2, <4>3 DEF Reports
      <4>4. ASSUME NEW ps, Stops(p, ps)
            PROVE  \/ cq'[Server] = cq[Server]
                   \/ \E ops \in Seq(Opcodes) :
                        cq'[Server] = Arrive(cq[Server], Errors(ops, rq[Server]))
        <5>1. CASE Server \notin ps
          BY <1>1, <4>4, <5>1 DEF Stops
        <5>2. CASE Server \in ps
          <6>1. \/ cq'[Server] = Arrive(cq[Server], Carried(sent[Server])
                                           \o Errors(sq[Server], rq[Server]))
                \/ cq'[Server] = Arrive(cq[Server],
                                   Errors(sent[Server] \o sq[Server], rq[Server]))
            BY <4>4, <5>2 DEF Stops
          <6>2. sq[Server] = <<>> /\ sent[Server] = <<>> /\ <<>> \in Seq(Opcodes)
            BY <1>4, <1>6
          <6>3. /\ Carried(<<>>) \o Errors(<<>>, rq[Server]) = Errors(<<>>, rq[Server])
                /\ <<>> \o <<>> = <<>>
            <7>1. Carried(<<>>) = <<>>
              BY DEF Carried
            <7>2. Errors(<<>>, rq[Server]) \in Seq(WorkCompletions)
              BY <1>1, <6>2, ErrorsType
            <7>3. <<>> \o Errors(<<>>, rq[Server]) = Errors(<<>>, rq[Server])
              BY <7>2, ConcatEmptySeq
            <7>4. <<>> \o <<>> = <<>>
              OBVIOUS
            <7>. QED
              BY <7>1, <7>3, <7>4
          <6>. QED
            BY <6>1, <6>2, <6>3
        <5>. QED
          BY <5>1, <5>2
      <4>. QED
        BY <1>3, <1>6, <3>2, <4>2, <4>3, <4>4
    <3>. QED
      BY <3>1, <3>2
  <2>2. NoneReceived
    BY <1>6, <2>1 DEF Sized
  <2>3. CASE cq'[Server] = cq[Server]
    BY <1>2, <2>2, <2>3 DEF NoneReceived, Completions
  <2>4. ASSUME NEW ops \in Seq(Opcodes),
               cq'[Server] = Arrive(cq[Server], Errors(ops, rq[Server]))
        PROVE  NoneReceived'
    <3>. DEFINE new == Errors(ops, rq[Server])
    <3>1. new \in Seq(WorkCompletions) /\ AllBad(new)
      <4>1. /\ new \in Seq(WorkCompletions) /\ Len(new) = Len(ops) + rq[Server]
            /\ \A i \in 1 .. Len(ops) + rq[Server] : new[i].ok = FALSE
        BY <1>1, ErrorsType
      <4>2. DOMAIN new = 1 .. Len(ops) + rq[Server]
        BY <4>1
      <4>. HIDE DEF new
      <4>. QED
        BY <4>1, <4>2 DEF AllBad
    <3>. HIDE DEF new
    <3>2. cq'[Server].wcs = cq[Server].wcs \o new
      BY <1>1, <2>4, <3>1, ArriveType DEF new
    <3>3. AllBad(got[Server]) /\ AllBad(cq[Server].wcs)
      BY <1>1, <2>2, AllBadParts DEF NoneReceived, Completions
    <3>4. /\ AllBad(cq[Server].wcs \o new)
          /\ cq[Server].wcs \o new \in Seq(WorkCompletions)
      BY <1>1, <3>1, <3>3, AllBadParts, Concat
    <3>5. AllBad(got[Server] \o (cq[Server].wcs \o new))
      BY <1>1, <3>3, <3>4, AllBadParts
    <3>. QED
      BY <1>2, <2>2, <3>2, <3>5 DEF NoneReceived, Completions
  <2>. QED
    BY <2>1, <2>3, <2>4
<1>. QED
  BY <1>2, <1>5, <1>6 DEF Sized


LEMMA NextSized == Sizes /\ TypeInv /\ Sized /\ [Next]_vars => Sized'
<1>. SUFFICES ASSUME Sizes, TypeInv, Sized, [Next]_vars PROVE Sized'
  OBVIOUS
<1>1. Server \in Procs /\ Domains /\ \A c \in Clients : c # Server
  BY ProcFacts, DomainsHold
<1>2. ASSUME NEW c \in Clients, ClientStep(c) \/ KillClient(c) PROVE Sized'
  <2>1. Elsewhere(c) /\ UNCHANGED meta
    BY <1>1, <1>2, ClientElsewhere
  <2>. QED
    BY <1>1, <2>1
    DEF Elsewhere, ProcElsewhere, WorkElsewhere, Sized, NoneReceived,
        Completions
<1>3. ASSUME UNCHANGED <<procVars, workVars, meta>> PROVE Sized'
  BY <1>3 DEF procVars, workVars, Sized, NoneReceived, Completions
<1>4. ASSUME NEW c \in Clients, Cm(c) PROVE Sized'
  BY <1>3, <1>4 DEF Cm, dataVars
<1>5. CASE ServerStep \/ KillServer
  BY <1>5, ServerStepSized
<1>6. ASSUME NEW p \in Procs, Device(p) PROVE Sized'
  BY <1>6, DeviceSized
<1>7. CASE UNCHANGED vars
  BY <1>3, <1>7 DEF vars, dataVars
<1>. QED
  BY <1>2, <1>4, <1>5, <1>6, <1>7 DEF Next, Terminated

LEMMA InitSized == Init => Sized
<1>. SUFFICES ASSUME Init PROVE Sized
  OBVIOUS
<1>1. /\ Server \in Procs /\ sq[Server] = <<>> /\ sent[Server] = <<>>
      /\ got[Server] = <<>> /\ cq[Server] = NewCq /\ wait[Server] = "none"
      /\ held[Server] = {}
  BY ProcFacts DEF Init
<1>2. <<>> \o <<>> = <<>> /\ NewCq.wcs = <<>>
  BY DEF NewCq
<1>3. AllBad(Completions(Server))
  BY <1>1, <1>2, AllBadParts DEF Completions, AllBad
<1>. QED
  BY <1>1, <1>3 DEF Sized, NoneReceived

\* If there is one client, every library call that only starts something
\* succeeds, every message has a byte and no failed poll returns the value of a
\* success, a program that returns from main has released everything: no other
\* client's request can be read by the wrong wait (rdma_common.c:27-33), the
\* buffer that create_rdma_buffer can lose (rdma_common.c:124-129) is lost only
\* when a registration fails, and the server registers no region of no bytes,
\* since it reads a length only after a SEND of the client has arrived.
THEOREM NothingLeakedCorrect ==
  ASSUME Sizes, SingleClient PROVE Spec => []NothingLeaked
<1>1. Sizes
  OBVIOUS
<1>2. TypeInv /\ ResourcesInv /\ NoLostId /\ Sized => NothingLeaked
  <2>. SUFFICES ASSUME ResourcesInv, NoLostId, Sized, NEW p \in Procs,
                       pc[p] = "exited"
                PROVE  held[p] = {}
    BY DEF NothingLeaked
  <2>1. held[p] \subseteq Unreachable
    BY DEF ResourcesInv, Ended
  <2>2. p # Server => held[p] \cap Unreachable = {}
    BY ResourceNames DEF Procs, ResourcesInv, ClientHolds, Unreachable
  <2>3. held[Server] \cap Unreachable = {}
    BY DEF NoLostId, Sized, Unreachable
  <2>. QED
    BY <2>1, <2>2, <2>3
<1>. QED
  BY <1>1, <1>2, InitSized, NextSized, TypeInvCorrect, ResourcesInvCorrect,
     NoLostIdCorrect, PTL DEF Spec

-----------------------------------------------------------------------------
(* The account of a process: each request it has posted for its present    *)
(* step is waiting, or has completed, and nothing else has.                *)

BeforeReceive ==
  {"setup_client", "addr", "route", "setup_protection_domain",
   "create_completion_channel", "create_completion_queue",
   "setup_queue_pairs", "post_metadata_recv_buffer", "setup_server",
   "connect_request", "setup_communication_resources"}

Receiving ==
  {"connect_to_server", "established", "exchange_metadata_with_server",
   "accept_client_connection", "exchange_metadata_with_client"}

Requesting ==
  {"exchange_metadata_with_server", "client_write_message",
   "client_read_message", "send_server_metadata"}

Working == BeforeReceive \cup Receiving \cup Requesting

\* Where the completion queue exists and asks for notifications.
Notified ==
  Receiving \cup Requesting \cup {"setup_queue_pairs", "post_metadata_recv_buffer"}

\* The requests of a step at location l: one receive or none, and one other,
\* of an operation in Ops(l), once the call has been made.
Receives(l) == IF l \in Receiving THEN 1 ELSE 0
Requests(l, w) == IF l \in Requesting /\ w # "none" THEN 1 ELSE 0
Ops(l) ==
  CASE l \in {"exchange_metadata_with_server", "send_server_metadata"} -> {"SEND"}
    [] l = "client_write_message" -> {"WRITE", "STRAY"}
    [] l = "client_read_message" -> {"READ", "STRAY"}
    [] OTHER -> {}

\* o holds the completions of r receives and of s requests of an operation in
\* ops; a STRAY request never succeeds.
Completed(o, r, s, ops) ==
  /\ r \in {0, 1} /\ s \in {0, 1} /\ Len(o) = r + s
  /\ \A i \in 1 .. Len(o) :
       \/ o[i].op = "RECV" /\ r = 1
       \/ o[i].op \in ops /\ s = 1 /\ (o[i].ok => o[i].op # "STRAY")
  /\ r = 1 /\ s = 1 => (o[1].op = "RECV" <=> o[2].op # "RECV")

Account(p) ==
  /\ Completed(Completions(p), Receives(pc[p]) - rq[p],
               Requests(pc[p], wait[p]) - Len(sq[p]) - Len(sent[p]),
               Ops(pc[p]))
  /\ \A i \in 1 .. Len(sq[p]) : sq[p][i] \in Ops(pc[p])
  /\ \A i \in 1 .. Len(sent[p]) : sent[p][i] \in Ops(pc[p]) \ {"STRAY"}

\* The result of a call is right.
Result(p) ==
  /\ wait[p] = "none" => got[p] = <<>>
  /\ wait[p] = "returned" =>
       /\ ret[p] # 0
       /\ ret[p] = Expected(p) =>
            Len(got[p]) = Expected(p) /\ \A i \in 1 .. Len(got[p]) : got[p][i].ok

\* A notification is requested or in the channel, and a thread that sleeps,
\* or will do so next, has missed none.
Token(q, w) ==
  /\ w = "req_notify" => ~q.armed /\ q.events = 0
  /\ w # "req_notify" => (q.armed <=> q.events = 0) /\ q.events \in {0, 1}
  /\ w \in {"none", "get_event"} /\ q.armed => q.wcs = <<>>

Ledger(p) ==
  pc[p] \in Working =>
    /\ Account(p) /\ Result(p)
    /\ "notify" \notin Faults /\ pc[p] \in Notified => Token(cq[p], wait[p])

LedgerInv == \A p \in Procs : Ledger(p)

-----------------------------------------------------------------------------
(* Completions added to an account. *)

LEMMA CompletedNone == ASSUME NEW ops PROVE Completed(<<>>, 0, 0, ops)
<1>1. Len(<<>>) = 0 /\ 1 .. 0 = {}
  OBVIOUS
<1>. QED
  BY <1>1 DEF Completed

LEMMA CompletedOne ==
  ASSUME NEW ops \in SUBSET Opcodes, NEW op, NEW ok \in BOOLEAN
  PROVE  /\ op = "RECV" => Completed(<<Wc(op, ok)>>, 1, 0, ops)
         /\ op \in ops /\ (ok => op # "STRAY") =>
              Completed(<<Wc(op, ok)>>, 0, 1, ops)
<1>. DEFINE w == Wc(op, ok)
<1>1. w.op = op /\ w.ok = ok
  BY DEF Wc
<1>. HIDE DEF w
<1>2. Len(<<w>>) = 1 /\ <<w>>[1] = w /\ 1 .. 1 = {1}
  OBVIOUS
<1>. QED
  BY <1>1, <1>2 DEF Completed, w

LEMMA CompletedMore ==
  ASSUME NEW ops \in SUBSET Opcodes, "RECV" \notin ops,
         NEW o \in Seq(WorkCompletions), NEW new \in Seq(WorkCompletions),
         NEW r, NEW s, NEW r2, NEW s2,
         Completed(o, r, s, ops), Completed(new, r2, s2, ops),
         NEW r3 \in {0, 1}, NEW s3 \in {0, 1}, r3 = r + r2, s3 = s + s2
  PROVE  Completed(o \o new, r3, s3, ops)
<1>1. /\ r \in {0, 1} /\ s \in {0, 1} /\ r2 \in {0, 1} /\ s2 \in {0, 1}
      /\ Len(o) = r + s /\ Len(new) = r2 + s2
  BY DEF Completed
<1>. DEFINE u == o \o new
<1>2. Joins(u, o, new)
  BY ConcatJoins, Zenon
<1>. HIDE DEF u
<1>3. /\ Len(u) = Len(o) + Len(new)
      /\ \A i \in 1 .. Len(o) : u[i] = o[i]
      /\ \A i \in 1 .. Len(new) : u[Len(o) + i] = new[i]
      /\ \A i \in 1 .. Len(o) + Len(new) :
           i \in 1 .. Len(o) \/ \E j \in 1 .. Len(new) : i = Len(o) + j
  BY <1>2, Zenon DEF Joins
<1>4. Len(u) = r3 + s3
  BY <1>1, <1>3
<1>5. ASSUME NEW i \in 1 .. Len(u)
      PROVE  \/ u[i].op = "RECV" /\ r3 = 1
             \/ /\ u[i].op \in ops /\ s3 = 1
                /\ u[i].ok => u[i].op # "STRAY"
  <2>1. CASE i \in 1 .. Len(o)
    BY <1>1, <1>3, <2>1 DEF Completed
  <2>2. ASSUME NEW j \in 1 .. Len(new), i = Len(o) + j
        PROVE  \/ u[i].op = "RECV" /\ r3 = 1
               \/ /\ u[i].op \in ops /\ s3 = 1
                  /\ u[i].ok => u[i].op # "STRAY"
    BY <1>1, <1>3, <2>2 DEF Completed
  <2>. QED
    BY <1>3, <2>1, <2>2
<1>6. ASSUME r3 = 1, s3 = 1
      PROVE  u[1].op = "RECV" <=> u[2].op # "RECV"
  <2>1. CASE r = 1 /\ s = 1
    BY <1>1, <1>3, <1>6, <2>1 DEF Completed
  <2>2. CASE r2 = 1 /\ s2 = 1
    <3>1. Len(o) = 0 /\ Len(new) = 2
      BY <1>1, <1>6, <2>2
    <3>2. u[1] = new[1] /\ u[2] = new[2]
      BY <1>3, <3>1
    <3>. QED
      BY <2>2, <3>2 DEF Completed
  <2>3. CASE (r = 1 /\ s2 = 1) \/ (r2 = 1 /\ s = 1)
    <3>0. ~(r = 1 /\ r2 = 1) /\ ~(s = 1 /\ s2 = 1)
      BY <1>1, <1>6
    <3>1. Len(o) = 1 /\ Len(new) = 1
      BY <1>1, <1>6, <2>3
    <3>2. u[1] = o[1] /\ u[2] = new[1]
      BY <1>3, <3>1
    <3>3. 1 \in 1 .. Len(o) /\ 1 \in 1 .. Len(new)
      BY <3>1
    <3>. QED
      BY <2>3, <3>0, <3>2, <3>3 DEF Completed
  <2>. QED
    BY <1>1, <1>6, <2>1, <2>2, <2>3
<1>. QED
  BY <1>4, <1>5, <1>6 DEF Completed, u

\* What is flushed completes the account.
LEMMA CompletedErrors ==
  ASSUME NEW ops \in SUBSET Opcodes, "RECV" \notin ops,
         NEW a \in Seq(Opcodes), NEW n \in {0, 1}, Len(a) <= 1,
         \A i \in 1 .. Len(a) : a[i] \in ops
  PROVE  Completed(Errors(a, n), n, Len(a), ops)
<1>. DEFINE e == FailedSends(a)
            f == FailedReceives(n)
<1>1. /\ Len(a) \in {0, 1} /\ n \in Nat /\ Errors(a, n) = e \o f
  BY DEF Errors, FailedSends, FailedReceives
<1>2. /\ e \in Seq(WorkCompletions) /\ Len(e) = Len(a)
      /\ f \in Seq(WorkCompletions) /\ Len(f) = n
  BY <1>1, FailedType
<1>3. \A i \in 1 .. Len(a) : e[i] = Wc(a[i], FALSE)
  BY DEF FailedSends
<1>4. \A i \in 1 .. n : f[i] = Wc("RECV", FALSE)
  BY DEF FailedReceives
<1>. HIDE DEF e, f
<1>5. Completed(e, 0, Len(a), ops)
  <2>0. \A op : Wc(op, FALSE).op = op /\ Wc(op, FALSE).ok = FALSE
    BY DEF Wc
  <2>1. ASSUME NEW i \in 1 .. Len(e)
        PROVE  e[i].op = a[i] /\ e[i].ok = FALSE
    <3>1. e[i] = Wc(a[i], FALSE)
      BY <1>2, <1>3
    <3>. QED
      BY <2>0, <3>1
  <2>2. ASSUME NEW i \in 1 .. Len(e)
        PROVE  e[i].op \in ops /\ Len(a) = 1 /\ ~e[i].ok
    <3>1. i \in 1 .. Len(a)
      BY <1>2
    <3>2. Len(a) = 1
      BY <1>1, <3>1
    <3>3. a[i] \in ops
      BY <3>1
    <3>. QED
      BY <2>1, <3>2, <3>3
  <2>3. Len(e) = 0 + Len(a)
    BY <1>1, <1>2
  <2>. QED
    BY <1>1, <2>2, <2>3 DEF Completed
<1>6. Completed(f, n, 0, ops)
  <2>1. \A i \in 1 .. Len(f) : f[i].op = "RECV" /\ n = 1
    BY <1>1, <1>2, <1>4 DEF Wc
  <2>. QED
    BY <1>1, <1>2, <2>1 DEF Completed
<1>7. n = 0 + n /\ Len(a) = Len(a) + 0
  BY <1>1
<1>. QED
  BY <1>1, <1>2, <1>5, <1>6, <1>7, CompletedMore

LEMMA CompletedCarried ==
  ASSUME NEW ops \in SUBSET Opcodes, NEW a \in Seq(Opcodes), Len(a) <= 1,
         \A i \in 1 .. Len(a) : a[i] \in ops \ {"STRAY"}
  PROVE  Completed(Carried(a), 0, Len(a), ops)
<1>1. Len(a) \in {0, 1}
  <2>1. Len(a) \in Nat /\ Len(a) <= 1
    OBVIOUS
  <2>. DEFINE n == Len(a)
  <2>2. n \in Nat /\ n <= 1
    BY <2>1
  <2>. HIDE DEF n
  <2>3. n \in {0, 1}
    BY <2>2
  <2>. QED
    BY <2>3 DEF n
<1>. DEFINE e == Carried(a)
<1>2. /\ e \in Seq(WorkCompletions) /\ Len(e) = Len(a)
      /\ \A i \in 1 .. Len(a) : e[i] = Wc(a[i], TRUE)
  BY CarriedType
<1>. HIDE DEF e
<1>0. \A op : Wc(op, TRUE).op = op
  BY DEF Wc
<1>3. \A i \in 1 .. Len(e) : e[i].op = a[i]
  BY <1>0, <1>2
<1>4. \A i \in 1 .. Len(e) : Len(a) = 1
  BY <1>1, <1>2
<1>. QED
  BY <1>1, <1>2, <1>3, <1>4 DEF Completed, e

-----------------------------------------------------------------------------
(* What a program does to its account. *)

LEMMA AccountTypes ==
  ASSUME TypeInv, NEW p \in Procs
  PROVE  /\ Domains /\ got[p] \in Seq(WorkCompletions) /\ Len(got[p]) \in Nat
         /\ cq[p] \in Cqs /\ cq[p].wcs \in Seq(WorkCompletions)
         /\ Len(cq[p].wcs) \in Nat
         /\ sq[p] \in Seq(Opcodes) /\ sent[p] \in Seq(Opcodes)
         /\ Len(sq[p]) \in Nat /\ Len(sent[p]) \in Nat /\ rq[p] \in Nat
         /\ Completions(p) \in Seq(WorkCompletions)
         /\ Len(Completions(p)) = Len(got[p]) + Len(cq[p].wcs)
<1>1. /\ Domains /\ got[p] \in Seq(WorkCompletions) /\ cq[p] \in Cqs
      /\ sq[p] \in Seq(Opcodes) /\ sent[p] \in Seq(Opcodes) /\ rq[p] \in Nat
  BY DomainsHold, TypeParts DEF TypeInv, ProcTypes, WorkTypes
<1>2. cq[p].wcs \in Seq(WorkCompletions)
  BY <1>1, CqFields
<1>. QED
  BY <1>1, <1>2, Concat DEF Completions

LEMMA OpsFacts ==
  ASSUME NEW l, NEW w
  PROVE  /\ Ops(l) \in SUBSET Opcodes /\ "RECV" \notin Ops(l)
         /\ Receives(l) \in {0, 1} /\ Requests(l, w) \in {0, 1}
         /\ l \in BeforeReceive => Receives(l) = 0 /\ Requests(l, w) = 0
         /\ l \in Receiving => Receives(l) = 1
         /\ w = "none" => Requests(l, w) = 0
<1>1. Ops(l) \in {{"SEND"}, {"WRITE", "STRAY"}, {"READ", "STRAY"}, {}}
  BY DEF Ops
<1>. QED
  BY <1>1
  DEF Opcodes, Receives, Requests, BeforeReceive, Receiving, Requesting

\* No request but the receive: the operations do not matter.
LEMMA CompletedReceive ==
  ASSUME NEW o, NEW r, NEW ops, NEW ops2, Completed(o, r, 0, ops)
  PROVE  Completed(o, r, 0, ops2)
BY DEF Completed

LEMMA EmptyQueue ==
  ASSUME NEW S, NEW s \in Seq(S), NEW t \in Seq(S), 0 - Len(s) - Len(t) \in {0, 1}
  PROVE  s = <<>> /\ t = <<>>
<1>1. Len(s) \in Nat /\ Len(t) \in Nat
  OBVIOUS
<1>2. Len(s) = 0 /\ Len(t) = 0
  BY <1>1
<1>. QED
  BY <1>2

LEMMA NoneLeft == 0 - Len(<<>>) - Len(<<>>) = 0 /\ \A i \in 1 .. Len(<<>>) : FALSE
<1>1. Len(<<>>) = 0
  OBVIOUS
<1>2. 0 - 0 - 0 = 0 /\ \A i \in 1 .. 0 : FALSE
  OBVIOUS
<1>. QED
  BY <1>1, <1>2

\* A process that is not in a call has no request but the receive.
LEMMA NotCalling ==
  ASSUME TypeInv, NEW p \in Procs, Account(p), Requests(pc[p], wait[p]) = 0
  PROVE  /\ sq[p] = <<>> /\ sent[p] = <<>>
         /\ Completed(Completions(p), Receives(pc[p]) - rq[p], 0, {})
         /\ rq[p] <= Receives(pc[p])
<1>1. /\ sq[p] \in Seq(Opcodes) /\ sent[p] \in Seq(Opcodes) /\ rq[p] \in Nat
  BY AccountTypes
<1>2. /\ Receives(pc[p]) - rq[p] \in {0, 1} /\ Receives(pc[p]) \in {0, 1}
      /\ 0 - Len(sq[p]) - Len(sent[p]) \in {0, 1}
  BY OpsFacts DEF Account, Completed
<1>3. sq[p] = <<>> /\ sent[p] = <<>>
  BY <1>1, <1>2, EmptyQueue
<1>4. 0 - Len(sq[p]) - Len(sent[p]) = 0
  BY <1>3, NoneLeft
<1>5. Completed(Completions(p), Receives(pc[p]) - rq[p], 0, Ops(pc[p]))
  BY <1>4 DEF Account
<1>6. Completed(Completions(p), Receives(pc[p]) - rq[p], 0, {})
  BY <1>5, CompletedReceive
<1>. QED
  BY <1>1, <1>2, <1>3, <1>6

LEMMA NoneFirst ==
  ASSUME NEW S, NEW s \in Seq(S)
  PROVE  <<>> \o s = s /\ <<>> \in Seq(S) /\ Len(<<>>) = 0
<1>1. <<>> \o s = s
  BY ConcatEmptySeq
<1>. QED
  BY <1>1

\* An account without requests in another step of the program.
LEMMA AccountAnew ==
  ASSUME NEW p \in Procs, sq'[p] = <<>>, sent'[p] = <<>>,
         Requests(pc'[p], wait'[p]) = 0,
         Completed(Completions(p)', Receives(pc'[p]) - rq'[p], 0, {})
  PROVE  Account(p)'
<1>1. /\ 0 - Len(sq'[p]) - Len(sent'[p]) = 0
      /\ \A i \in 1 .. Len(sq'[p]) : FALSE
      /\ \A i \in 1 .. Len(sent'[p]) : FALSE
  BY NoneLeft
<1>2. Completed(Completions(p)', Receives(pc'[p]) - rq'[p], 0, Ops(pc'[p]))
  BY CompletedReceive
<1>. QED
  BY <1>1, <1>2 DEF Account

NewCqs == {ibv_req_notify_cq(NewCq)} \cup (IF "notify" \in Faults THEN {NewCq} ELSE {})

\* On to a location where no other request is made.
GetsReady(p) ==
  /\ wait[p] = "none" /\ wait'[p] \in {"none", "get_event"}
  /\ pc[p] \in BeforeReceive \cup Receiving
  /\ pc'[p] \in Working /\ Requests(pc'[p], wait'[p]) = 0
  /\ Receives(pc'[p]) = Receives(pc[p])
  /\ got'[p] \in {got[p], <<>>}
  /\ sq'[p] = sq[p] /\ sent'[p] = sent[p] /\ rq'[p] = rq[p]
  /\ \/ cq'[p] = cq[p] /\ (pc'[p] \in Notified => pc[p] \in Notified)
     \/ cq'[p] \in NewCqs /\ pc[p] \in BeforeReceive

LEMMA GetsReadyLedger ==
  ASSUME TypeInv, NEW p \in Procs, Ledger(p), GetsReady(p)
  PROVE  Ledger(p)'
<1>. USE DEF GetsReady
<1>1. Account(p) /\ Result(p) /\ got[p] = <<>>
  BY DEF Ledger, Working, Result
<1>2. Requests(pc[p], wait[p]) = 0
  BY OpsFacts
<1>3. /\ sq[p] = <<>> /\ sent[p] = <<>>
      /\ Completed(Completions(p), Receives(pc[p]) - rq[p], 0, {})
      /\ rq[p] <= Receives(pc[p])
  BY <1>1, <1>2, NotCalling
<1>4. rq[p] \in Nat /\ cq[p].wcs \in Seq(WorkCompletions)
  BY AccountTypes
<1>5. \A q \in NewCqs : q.wcs = <<>>
  BY DEF NewCqs, NewCq, ibv_req_notify_cq
<1>6. Completed(Completions(p)', Receives(pc'[p]) - rq'[p], 0, {})
  <2>1. CASE cq'[p] = cq[p]
    BY <1>1, <1>3, <2>1 DEF Completions
  <2>2. CASE cq'[p] \in NewCqs /\ pc[p] \in BeforeReceive
    <3>1. Receives(pc'[p]) = 0 /\ rq'[p] = 0
      <4>1. Receives(pc[p]) = 0
        BY <2>2, OpsFacts
      <4>. QED
        BY <1>3, <1>4, <4>1
    <3>2. <<>> \o <<>> = <<>> /\ Receives(pc'[p]) - rq'[p] = 0
      BY <3>1
    <3>3. Completions(p)' = <<>>
      BY <1>1, <1>5, <2>2, <3>2 DEF Completions
    <3>. QED
      BY <3>2, <3>3, CompletedNone
  <2>. QED
    BY <2>1, <2>2
<1>7. Account(p)'
  BY <1>3, <1>6, AccountAnew
<1>8. Result(p)'
  BY <1>1 DEF Result
<1>9. ASSUME "notify" \notin Faults, pc'[p] \in Notified
      PROVE  Token(cq'[p], wait'[p])
  <2>1. CASE cq'[p] = cq[p] /\ pc[p] \in Notified
    BY <1>9, <2>1 DEF Ledger, Working, Token
  <2>2. CASE cq'[p] \in NewCqs
    <3>1. cq'[p] = ibv_req_notify_cq(NewCq)
      BY <1>9, <2>2 DEF NewCqs
    <3>. QED
      BY <3>1 DEF ibv_req_notify_cq, NewCq, Token
  <2>. QED
    BY <1>9, <2>1, <2>2
<1>. QED
  BY <1>7, <1>8, <1>9 DEF Ledger

\* The receive is posted.
PostsReceive(p) ==
  /\ wait[p] = "none" /\ wait'[p] = "none"
  /\ pc[p] \in BeforeReceive \cap Notified /\ pc'[p] \in Receiving
  /\ rq'[p] = rq[p] + 1
  /\ got'[p] = got[p] /\ sq'[p] = sq[p] /\ sent'[p] = sent[p] /\ cq'[p] = cq[p]

LEMMA PostsReceiveLedger ==
  ASSUME TypeInv, NEW p \in Procs, Ledger(p), PostsReceive(p)
  PROVE  Ledger(p)'
<1>. USE DEF PostsReceive
<1>1. Account(p) /\ Result(p)
  BY DEF Ledger, Working
<1>2. /\ Requests(pc[p], wait[p]) = 0 /\ Requests(pc'[p], wait'[p]) = 0
      /\ Receives(pc[p]) = 0 /\ Receives(pc'[p]) = 1
  BY OpsFacts
<1>3. /\ sq[p] = <<>> /\ sent[p] = <<>>
      /\ Completed(Completions(p), Receives(pc[p]) - rq[p], 0, {})
      /\ rq[p] <= Receives(pc[p])
  BY <1>1, <1>2, NotCalling
<1>4. rq[p] \in Nat
  BY AccountTypes
<1>5. Receives(pc[p]) - rq[p] = 0 /\ Receives(pc'[p]) - rq'[p] = 0
  BY <1>2, <1>3, <1>4
<1>6. Completed(Completions(p)', Receives(pc'[p]) - rq'[p], 0, {})
  BY <1>3, <1>5 DEF Completions
<1>7. Account(p)'
  BY <1>2, <1>3, <1>6, AccountAnew
<1>8. Result(p)'
  BY <1>1 DEF Result
<1>9. "notify" \notin Faults => Token(cq'[p], wait'[p])
  BY DEF Ledger, Working
<1>. QED
  BY <1>7, <1>8, <1>9 DEF Ledger

\* A call that has succeeded has retrieved all that its step has asked for.
LEMMA Spent ==
  ASSUME TypeInv, NEW p \in Procs, pc[p] \in Working, Ledger(p), AwaitPasses(p)
  PROVE  /\ sq[p] = <<>> /\ sent[p] = <<>> /\ rq[p] = 0 /\ cq[p].wcs = <<>>
         /\ AwaitSucceeded(p)
<1>1. Account(p) /\ Result(p)
  BY DEF Ledger
<1>2. /\ AwaitSucceeded(p) /\ Len(got[p]) = Expected(p) /\ wait[p] = "returned"
  BY <1>1 DEF Result, AwaitPasses, AwaitSucceeded
<1>3. /\ Receives(pc[p]) + Requests(pc[p], wait[p]) <= Expected(p)
      /\ Receives(pc[p]) \in {0, 1} /\ Requests(pc[p], wait[p]) \in {0, 1}
      /\ Expected(p) \in Nat
  <2>1. pc[p] \in Awaiting
    BY <1>2 DEF TypeInv, WaitsInCall
  <2>. QED
    BY <1>2, <2>1
    DEF Awaiting, Expected, Receives, Requests, Receiving, Requesting
<1>4. /\ sq[p] \in Seq(Opcodes) /\ sent[p] \in Seq(Opcodes)
      /\ Len(sq[p]) \in Nat /\ Len(sent[p]) \in Nat /\ rq[p] \in Nat
      /\ cq[p].wcs \in Seq(WorkCompletions) /\ Len(cq[p].wcs) \in Nat
      /\ Len(Completions(p)) = Len(got[p]) + Len(cq[p].wcs)
  BY AccountTypes
<1>5. Len(Completions(p)) = (Receives(pc[p]) - rq[p])
                + (Requests(pc[p], wait[p]) - Len(sq[p]) - Len(sent[p]))
  BY <1>1 DEF Account, Completed
<1>6. Len(sq[p]) = 0 /\ Len(sent[p]) = 0 /\ rq[p] = 0 /\ Len(cq[p].wcs) = 0
  <2>. DEFINE a == Len(sq[p])
              b == Len(sent[p])
              n == rq[p]
              w == Len(cq[p].wcs)
              e == Expected(p)
              x == Receives(pc[p])
              y == Requests(pc[p], wait[p])
  <2>1. /\ a \in Nat /\ b \in Nat /\ n \in Nat /\ w \in Nat /\ e \in Nat
        /\ x \in Nat /\ y \in Nat /\ x + y <= e
    BY <1>3, <1>4
  <2>2. e + w = (x - n) + (y - a - b)
    BY <1>2, <1>4, <1>5
  <2>. HIDE DEF a, b, n, w, e, x, y
  <2>3. a = 0 /\ b = 0 /\ n = 0 /\ w = 0
    BY <2>1, <2>2
  <2>. QED
    BY <2>3 DEF a, b, n, w
<1>. QED
  BY <1>2, <1>4, <1>6

\* One completion more in the queue keeps the promise to a sleeping thread.
LEMMA ArriveToken ==
  ASSUME NEW q \in Cqs, NEW new \in Seq(WorkCompletions), NEW w, Token(q, w)
  PROVE  Token(Arrive(q, new), w)
<1>1. CASE new = <<>>
  BY <1>1 DEF Arrive
<1>2. CASE new # <<>>
  <2>1. /\ Arrive(q, new).armed = FALSE
        /\ Arrive(q, new).events = IF q.armed THEN q.events + 1 ELSE q.events
    BY <1>2 DEF Arrive, Cqs, CqType
  <2>. QED
    BY <2>1, CqFields DEF Token
<1>. QED
  BY <1>1, <1>2

\* A request is posted and its completion waited for.
PostsOp(p, op) ==
  /\ op \in Ops(pc'[p]) /\ pc'[p] \in Requesting /\ wait'[p] = "get_event"
  /\ got'[p] = <<>> /\ sent'[p] = sent[p] /\ rq'[p] = rq[p]
  /\ \/ sq'[p] = Append(sq[p], op) /\ cq'[p] = cq[p]
     \/ sq'[p] = sq[p] /\ cq'[p] = Arrive(cq[p], <<Wc(op, FALSE)>>)
  /\ pc[p] \in Working \cap Notified
  /\ \/ wait[p] = "none" /\ pc'[p] = pc[p]
     \/ AwaitPasses(p) /\ pc'[p] \notin Receiving

\* What such a step finds: the requests of the step before are done.
LEMMA PostsOpFinds ==
  ASSUME TypeInv, NEW p \in Procs, NEW op, Ledger(p), PostsOp(p, op)
  PROVE  /\ sq[p] = <<>> /\ sent[p] = <<>>
         /\ Completed(cq[p].wcs, Receives(pc'[p]) - rq[p], 0, {})
         /\ wait[p] # "none" => cq[p].wcs = <<>>
<1>. USE DEF PostsOp
<1>1. Account(p) /\ Result(p) /\ cq[p].wcs \in Seq(WorkCompletions)
  BY AccountTypes DEF Ledger
<1>2. CASE wait[p] = "none" /\ pc'[p] = pc[p]
  <2>1. Requests(pc[p], wait[p]) = 0
    BY <1>2, OpsFacts
  <2>2. /\ sq[p] = <<>> /\ sent[p] = <<>>
        /\ Completed(Completions(p), Receives(pc'[p]) - rq[p], 0, {})
    BY <1>1, <1>2, <2>1, NotCalling
  <2>3. Completions(p) = cq[p].wcs
    BY <1>1, <1>2, NoneFirst DEF Completions, Result
  <2>. QED
    BY <1>2, <2>2, <2>3
<1>3. CASE AwaitPasses(p) /\ pc'[p] \notin Receiving
  <2>1. sq[p] = <<>> /\ sent[p] = <<>> /\ rq[p] = 0 /\ cq[p].wcs = <<>>
    BY <1>3, Spent
  <2>2. Receives(pc'[p]) - rq[p] = 0
    BY <1>3, <2>1 DEF Receives
  <2>. QED
    BY <2>1, <2>2, CompletedNone
<1>. QED
  BY <1>2, <1>3

LEMMA PostsOpLedger ==
  ASSUME TypeInv, NEW p \in Procs, NEW op, Ledger(p), PostsOp(p, op)
  PROVE  Ledger(p)'
<1>. USE DEF PostsOp
<1>. DEFINE r == Receives(pc'[p]) - rq[p]
<1>1. /\ Account(p) /\ Result(p)
      /\ cq[p] \in Cqs /\ cq[p].wcs \in Seq(WorkCompletions) /\ rq[p] \in Nat
  BY AccountTypes DEF Ledger
<1>2. /\ sq[p] = <<>> /\ sent[p] = <<>>
      /\ Completed(cq[p].wcs, r, 0, {})
      /\ wait[p] # "none" => cq[p].wcs = <<>>
  BY PostsOpFinds
<1>3. /\ Requests(pc'[p], wait'[p]) = 1
      /\ Ops(pc'[p]) \in SUBSET Opcodes /\ "RECV" \notin Ops(pc'[p])
      /\ op \in Opcodes
  BY OpsFacts DEF Requests
<1>4. Completed(cq[p].wcs, r, 0, Ops(pc'[p]))
  BY <1>2, CompletedReceive
<1>5. Completions(p)' = cq'[p].wcs
  <2>1. cq'[p].wcs \in Seq(WorkCompletions)
    BY <1>1, <1>3, WcType, ArriveType, CqFields
  <2>. QED
    BY <2>1, NoneFirst DEF Completions
<1>6. CASE sq'[p] = Append(sq[p], op) /\ cq'[p] = cq[p]
  <2>1. sq'[p] = <<op>> /\ Len(<<op>>) = 1 /\ Len(<<>>) = 0
    BY <1>2, <1>6
  <2>2. 1 - Len(sq'[p]) - Len(sent'[p]) = 0
    BY <1>2, <2>1
  <2>3. Account(p)'
    <3>1. /\ \A i \in 1 .. Len(sq'[p]) : sq'[p][i] \in Ops(pc'[p])
          /\ \A i \in 1 .. Len(sent'[p]) : FALSE
      BY <1>2, <2>1, NoneLeft
    <3>. QED
      BY <1>3, <1>4, <1>5, <1>6, <2>2, <3>1 DEF Account
  <2>4. "notify" \notin Faults => Token(cq'[p], wait'[p])
    BY <1>2, <1>6 DEF Ledger, Token, AwaitPasses, AwaitSucceeded
  <2>. QED
    BY <2>3, <2>4 DEF Ledger, Result
<1>7. CASE sq'[p] = sq[p] /\ cq'[p] = Arrive(cq[p], <<Wc(op, FALSE)>>)
  <2>1. /\ <<Wc(op, FALSE)>> \in Seq(WorkCompletions)
        /\ cq'[p].wcs = cq[p].wcs \o <<Wc(op, FALSE)>>
    BY <1>1, <1>3, <1>7, WcType, ArriveType
  <2>2. Completed(<<Wc(op, FALSE)>>, 0, 1, Ops(pc'[p]))
    BY <1>3, CompletedOne
  <2>3. r \in {0, 1} /\ r = r + 0 /\ 1 = 0 + 1
    BY <1>2 DEF Completed
  <2>. HIDE DEF r
  <2>4. Completed(cq'[p].wcs, r, 1, Ops(pc'[p]))
    BY <1>1, <1>3, <1>4, <2>1, <2>2, <2>3, CompletedMore
  <2>5. 1 - Len(sq'[p]) - Len(sent'[p]) = 1
    <3>1. Len(<<>>) = 0
      OBVIOUS
    <3>. QED
      BY <1>2, <1>7, <3>1
  <2>6. Account(p)'
    <3>1. /\ \A i \in 1 .. Len(sq'[p]) : FALSE
          /\ \A i \in 1 .. Len(sent'[p]) : FALSE
      BY <1>2, <1>7, NoneLeft
    <3>. QED
      BY <1>3, <1>5, <2>4, <2>5, <3>1 DEF Account, r
  <2>7. ASSUME "notify" \notin Faults PROVE Token(cq'[p], wait'[p])
    <3>1. Token(cq[p], "get_event")
      BY <1>2, <2>7 DEF Ledger, Token, AwaitPasses, AwaitSucceeded
    <3>. QED
      BY <1>1, <1>7, <2>1, <3>1, ArriveToken
  <2>. QED
    BY <2>6, <2>7 DEF Ledger, Result
<1>. QED
  BY <1>6, <1>7

\* The steps inside the call.
LEMMA CallLedger ==
  ASSUME "errno" \notin Faults, PollErrors \cap {1, 2} = {}, TypeInv,
         NEW p \in Procs, Ledger(p),
         \/ GetCqEvent(p) \/ ReqNotifyCq(p) \/ PollCq(p)
         \/ WorkCompletionError(p)
  PROVE  Ledger(p)'
<1>1. /\ UNCHANGED <<pc, sq, sent, rq>> /\ Completions(p)' = Completions(p)
      /\ Requests(pc'[p], wait'[p]) = Requests(pc[p], wait[p])
      /\ wait'[p] # "none"
  <2>1. CASE PollCq(p)
    BY <2>1, PollEffect DEF Requests
  <2>2. CASE GetCqEvent(p) \/ ReqNotifyCq(p) \/ WorkCompletionError(p)
    <3>1. wait[p] # "none"
      BY <2>2 DEF GetCqEvent, ReqNotifyCq, WorkCompletionError
    <3>. QED
      BY <2>2, <3>1, CallEffect DEF Requests, Completions
  <2>. QED
    BY <2>1, <2>2
<1>2. Account(p) => Account(p)'
  BY <1>1 DEF Account
<1>3. Expected(p)' = Expected(p) /\ Expected(p) \in {1, 2}
  BY <1>1 DEF Expected
<1>4. Result(p)'
  <2>1. CASE PollCq(p)
    <3>1. \/ wait'[p] = "poll"
          \/ wait'[p] = "returned" /\ ret'[p] = -1
          \/ /\ wait'[p] = "returned" /\ ret'[p] = Expected(p)
             /\ Len(got'[p]) = Expected(p)
             /\ \A i \in DOMAIN got'[p] : got'[p][i].ok
      BY <2>1, PollEffect
    <3>2. got'[p] \in Seq(WorkCompletions)
      <4>1. BaseInv'
        BY <2>1, WorkCompletionEventTypes, AccountTypes
        DEF WorkCompletionEvent, TypeInv, BaseInv
      <4>. QED
        BY <4>1, TypeParts DEF BaseInv, ProcTypes
    <3>3. DOMAIN got'[p] = 1 .. Len(got'[p])
      BY <3>2
    <3>. QED
      BY <1>1, <1>3, <3>1, <3>3 DEF Result
  <2>2. CASE GetCqEvent(p) \/ ReqNotifyCq(p) \/ WorkCompletionError(p)
    <3>1. \/ wait'[p] \in {"req_notify", "poll"}
          \/ wait'[p] = "returned" /\ (ret'[p] = -1 \/ ret'[p] \in PollErrors)
      BY <2>2, CallEffect
    <3>2. 0 \notin PollErrors
      BY PollErrorsAssumption
    <3>. QED
      BY <1>1, <1>3, <3>1, <3>2 DEF Result
  <2>. QED
    BY <2>1, <2>2
<1>5. ASSUME "notify" \notin Faults, Token(cq[p], wait[p])
      PROVE  Token(cq'[p], wait'[p])
  <2>0. Domains /\ cq[p] \in Cqs
    BY AccountTypes
  <2>1. CASE PollCq(p)
    <3>1. /\ wait[p] = "poll" /\ wait'[p] \in {"poll", "returned"}
          /\ cq'[p].armed = cq[p].armed /\ cq'[p].events = cq[p].events
      BY <2>1, PollEffect
    <3>. QED
      BY <1>5, <3>1 DEF Token
  <2>2. CASE GetCqEvent(p)
    <3>1. /\ wait[p] = "get_event" /\ wait'[p] = "req_notify"
          /\ cq'[p] = [cq[p] EXCEPT !.events = cq[p].events - 1,
                                    !.unacked = cq[p].unacked + 1]
          /\ cq[p].events > 0
      BY <2>0, <2>2 DEF GetCqEvent, Domains, ibv_get_cq_event, CanGetCqEvent
    <3>2. /\ cq'[p].events = cq[p].events - 1 /\ cq'[p].armed = cq[p].armed
          /\ cq'[p].wcs = cq[p].wcs
      BY <2>0, <3>1 DEF Cqs, CqType
    <3>. QED
      BY <1>5, <3>1, <3>2 DEF Token
  <2>3. CASE ReqNotifyCq(p)
    <3>1. /\ wait[p] = "req_notify" /\ wait'[p] = "poll"
          /\ cq'[p] = [cq[p] EXCEPT !.armed = TRUE]
      BY <2>0, <2>3 DEF ReqNotifyCq, Domains, ibv_req_notify_cq
    <3>2. cq'[p].events = cq[p].events /\ cq'[p].armed = TRUE
      BY <2>0, <3>1 DEF Cqs, CqType
    <3>. QED
      BY <1>5, <3>1, <3>2 DEF Token
  <2>4. CASE WorkCompletionError(p)
    BY <1>5, <2>0, <2>4
    DEF WorkCompletionError, Returned, workVars, Domains, Token
  <2>. QED
    BY <2>1, <2>2, <2>3, <2>4
<1>. QED
  BY <1>1, <1>2, <1>4, <1>5 DEF Ledger

-----------------------------------------------------------------------------
(* What a device does to an account: what was waiting completes.           *)

\* r2 receives and s2 requests of q complete, as new.
Arrives(q, new, r2, s2) ==
  /\ new \in Seq(WorkCompletions) /\ cq'[q] = Arrive(cq[q], new)
  /\ Completed(new, r2, s2, Ops(pc[q]))
  /\ rq'[q] \in Nat /\ rq'[q] = rq[q] - r2
  /\ Len(sq'[q]) \in Nat /\ Len(sent'[q]) \in Nat
  /\ Len(sq'[q]) + Len(sent'[q]) = Len(sq[q]) + Len(sent[q]) - s2
  /\ \A i \in 1 .. Len(sq'[q]) : sq'[q][i] \in Ops(pc[q])
  /\ \A i \in 1 .. Len(sent'[q]) : sent'[q][i] \in Ops(pc[q]) \ {"STRAY"}

LEMMA ArrivesLedger ==
  ASSUME TypeInv, NEW q \in Procs, Ledger(q), pc[q] \in Working,
         UNCHANGED <<pc, wait, got, ret>>,
         NEW new, NEW r2, NEW s2, Arrives(q, new, r2, s2)
  PROVE  Ledger(q)'
<1>. DEFINE m == Len(sq'[q])
            n == Len(sent'[q])
<1>0. /\ new \in Seq(WorkCompletions) /\ cq'[q] = Arrive(cq[q], new)
      /\ Completed(new, r2, s2, Ops(pc[q]))
      /\ rq'[q] \in Nat /\ rq'[q] = rq[q] - r2
      /\ m \in Nat /\ n \in Nat
      /\ m + n = Len(sq[q]) + Len(sent[q]) - s2
      /\ \A i \in 1 .. m : sq'[q][i] \in Ops(pc[q])
      /\ \A i \in 1 .. n : sent'[q][i] \in Ops(pc[q]) \ {"STRAY"}
  BY DEF Arrives
<1>. DEFINE R == Receives(pc[q])
            S == Requests(pc[q], wait[q])
            s == S - Len(sq[q]) - Len(sent[q])
            a == rq[q]
            b == rq'[q]
            u == Len(sq[q])
            v == Len(sent[q])
<1>1. /\ R \in {0, 1} /\ S \in {0, 1} /\ a \in Nat /\ b \in Nat
      /\ u \in Nat /\ v \in Nat
      /\ Ops(pc[q]) \in SUBSET Opcodes /\ "RECV" \notin Ops(pc[q])
  BY <1>0, OpsFacts, AccountTypes
<1>2. /\ Completed(Completions(q), R - a, s, Ops(pc[q])) /\ Account(q)
      /\ R - a \in {0, 1} /\ s \in {0, 1} /\ r2 \in {0, 1} /\ s2 \in {0, 1}
  BY <1>0 DEF Ledger, Account, Completed
<1>3. /\ cq[q] \in Cqs /\ cq[q].wcs \in Seq(WorkCompletions)
      /\ got[q] \in Seq(WorkCompletions)
      /\ Completions(q) \in Seq(WorkCompletions)
  BY AccountTypes
<1>4. /\ R - b \in {0, 1} /\ R - b = (R - a) + r2
      /\ S - m - n \in {0, 1} /\ S - m - n = s + s2
  <2>1. /\ b = a - r2 /\ m + n = u + v - s2 /\ s = S - u - v
        /\ m \in Nat /\ n \in Nat
    BY <1>0
  <2>. HIDE DEF R, S, a, b, u, v, s, m, n
  <2>2. r2 \in Int /\ s2 \in Int /\ s \in Int /\ R \in Int /\ S \in Int
    BY <1>1, <1>2
  <2>3. R - b = (R - a) + r2
    BY <1>1, <2>1, <2>2
  <2>4. S - m - n = s + s2
    BY <1>1, <2>1, <2>2
  <2>5. R - b \in {0, 1}
    <3>1. R - b <= 1 /\ R - b >= 0 /\ R - b \in Int
      BY <1>1, <1>2, <2>2, <2>3
    <3>. QED
      BY <3>1
  <2>6. S - m - n \in {0, 1}
    <3>1. S - m - n <= 1 /\ S - m - n >= 0 /\ S - m - n \in Int
      BY <1>1, <1>2, <2>1, <2>2, <2>4
    <3>. QED
      BY <3>1
  <2>. QED
    BY <2>3, <2>4, <2>5, <2>6
<1>5. Completions(q)' = Completions(q) \o new
  <2>1. cq'[q].wcs = cq[q].wcs \o new
    BY <1>0, <1>3, ArriveType
  <2>2. (got[q] \o cq[q].wcs) \o new = got[q] \o (cq[q].wcs \o new)
    <3>. DEFINE x == got[q]
                y == cq[q].wcs
    <3>1. /\ x \in Seq(WorkCompletions) /\ y \in Seq(WorkCompletions)
          /\ new \in Seq(WorkCompletions)
      BY <1>0, <1>3
    <3>. HIDE DEF x, y
    <3>2. (x \o y) \o new = x \o (y \o new)
      BY <3>1, ConcatAssociative
    <3>. QED
      BY <3>2 DEF x, y
  <2>. QED
    BY <2>1, <2>2 DEF Completions
<1>. HIDE DEF R, S, a, b, u, v, s, m, n
<1>6. Completed(Completions(q)', R - b, S - m - n, Ops(pc[q]))
  <2>. DEFINE r3 == R - b
              s3 == S - m - n
              r == R - a
              ops == Ops(pc[q])
              o == Completions(q)
  <2>1. /\ r3 \in {0, 1} /\ s3 \in {0, 1} /\ r3 = r + r2 /\ s3 = s + s2
        /\ Completed(o, r, s, ops) /\ Completed(new, r2, s2, ops)
        /\ ops \in SUBSET Opcodes /\ "RECV" \notin ops
        /\ o \in Seq(WorkCompletions)
    BY <1>0, <1>1, <1>2, <1>3, <1>4
  <2>. HIDE DEF r3, s3, r, ops, o
  <2>2. Completed(o \o new, r3, s3, ops)
    BY <1>0, <2>1, CompletedMore
  <2>. QED
    BY <1>5, <2>2 DEF r3, s3, ops, o
<1>7. Account(q)'
  BY <1>0, <1>6 DEF Account, R, S, b, m, n
<1>8. Result(q)'
  BY DEF Ledger, Result, Expected
<1>9. "notify" \notin Faults /\ pc[q] \in Notified => Token(cq'[q], wait[q])
  BY <1>0, <1>3, ArriveToken DEF Ledger
<1>. QED
  BY <1>7, <1>8, <1>9 DEF Ledger

\* Neither a request nor a completion of q is touched, or q is past its calls.
LEMMA SameLedger ==
  ASSUME NEW q \in Procs, Ledger(q), pc'[q] = pc[q], wait'[q] = wait[q],
         got'[q] = got[q], ret'[q] = ret[q], cq'[q] = cq[q], sq'[q] = sq[q],
         sent'[q] = sent[q], rq'[q] = rq[q]
  PROVE  Ledger(q)'
BY DEF Ledger, Account, Completions, Result, Expected

LEMMA TailOf ==
  ASSUME NEW S, NEW s \in Seq(S), s # <<>>
  PROVE  /\ Tail(s) \in Seq(S) /\ Len(Tail(s)) = Len(s) - 1 /\ Len(s) > 0
         /\ \A i \in 1 .. Len(s) - 1 : Tail(s)[i] = s[i + 1]
         /\ Head(s) = s[1] /\ 1 \in 1 .. Len(s)
OBVIOUS

LEMMA CarriesOutLedger ==
  ASSUME TypeInv, NEW p \in Procs, CarriesOut(p),
         UNCHANGED <<pc, wait, got, ret>>, NEW q \in Procs, Ledger(q)
  PROVE  Ledger(q)'
<1>. USE DEF CarriesOut
<1>1. CASE pc[q] \notin Working
  BY <1>1 DEF Ledger
<1>2. ASSUME q = p, pc[q] \in Working PROVE Ledger(q)'
  <2>1. /\ sq[p] \in Seq(Opcodes) /\ sent[p] \in Seq(Opcodes)
        /\ Len(sq[p]) \in Nat /\ Len(sent[p]) \in Nat /\ rq[p] \in Nat
    BY AccountTypes
  <2>2. p # Remote(p)
    <3>1. Linked(p) /\ peer \in Clients \cup {Nobody}
      BY TypeParts DEF CanCarryOut, TypeInv, CmTypes
    <3>. QED
      BY <3>1, ProcFacts DEF Linked, Remote
  <2>3. /\ cq'[p] = Arrive(cq[p], <<>>) /\ rq'[p] = rq[p] - 0
        /\ <<>> \in Seq(WorkCompletions)
    <3>1. cq'[p] = cq[p] /\ rq'[p] = rq[p]
      BY <2>2
    <3>2. <<>> \in Seq(WorkCompletions)
      OBVIOUS
    <3>3. cq[p] = Arrive(cq[p], <<>>)
      BY DEF Arrive
    <3>4. rq[p] = rq[p] - 0
      BY <2>1
    <3>. QED
      BY <3>1, <3>2, <3>3, <3>4
  <2>4. /\ Len(sq'[p]) = Len(sq[p]) - 1 /\ Len(sent'[p]) = Len(sent[p]) + 1
        /\ Len(sq[p]) - 1 \in Nat /\ Len(sent[p]) + 1 \in Nat
    BY <2>1, TailOf
  <2>5. /\ \A i \in 1 .. Len(sq[p]) : sq[p][i] \in Ops(pc[p])
        /\ \A i \in 1 .. Len(sent[p]) : sent[p][i] \in Ops(pc[p]) \ {"STRAY"}
    BY <1>2 DEF Ledger, Account
  <2>6. \A i \in 1 .. Len(sq[p]) - 1 : sq'[p][i] \in Ops(pc[p])
    <3>1. \A i \in 1 .. Len(sq[p]) - 1 :
            Tail(sq[p])[i] = sq[p][i + 1] /\ i + 1 \in 1 .. Len(sq[p])
      BY <2>1, TailOf
    <3>. QED
      BY <2>5, <3>1
  <2>7. \A i \in 1 .. Len(sent[p]) + 1 : sent'[p][i] \in Ops(pc[p]) \ {"STRAY"}
    <3>1. Head(sq[p]) \in Opcodes /\ Head(sq[p]) \in Ops(pc[p])
      BY <2>1, <2>5, TailOf
    <3>2. Head(sq[p]) # "STRAY"
      BY DEF CanCarryOut
    <3>3. \A i \in 1 .. Len(sent[p]) + 1 :
            \/ i \in 1 .. Len(sent[p]) /\ sent'[p][i] = sent[p][i]
            \/ sent'[p][i] = Head(sq[p])
      BY <2>1, <3>1
    <3>. QED
      BY <2>5, <3>1, <3>2, <3>3
  <2>8. (Len(sq[p]) - 1) + (Len(sent[p]) + 1) = Len(sq[p]) + Len(sent[p]) - 0
    <3>1. \A i, j \in Nat : (i - 1) + (j + 1) = i + j - 0
      OBVIOUS
    <3>. QED
      BY <2>1, <3>1
  <2>9. rq'[p] \in Nat
    BY <2>1, <2>3
  <2>10. Arrives(p, <<>>, 0, 0)
    BY <2>3, <2>4, <2>6, <2>7, <2>8, <2>9, CompletedNone DEF Arrives
  <2>. QED
    BY <1>2, <2>10, ArrivesLedger
<1>3. ASSUME Head(sq[p]) = "SEND", q = Remote(p), q # p, pc[q] \in Working
      PROVE  Ledger(q)'
  <2>1. /\ Len(sq[q]) \in Nat /\ Len(sent[q]) \in Nat /\ rq[q] \in Nat
        /\ sq'[q] = sq[q] /\ sent'[q] = sent[q]
    BY <1>3, AccountTypes
  <2>2. /\ rq'[q] = rq[q] - 1 /\ cq'[q] = Arrive(cq[q], <<Wc("RECV", TRUE)>>)
        /\ rq[q] > 0
    BY <1>3 DEF CanCarryOut
  <2>3. rq'[q] \in Nat
    BY <2>1, <2>2
  <2>4. /\ Ops(pc[q]) \in SUBSET Opcodes
        /\ <<Wc("RECV", TRUE)>> \in Seq(WorkCompletions)
    BY OpsFacts, WcType DEF Opcodes
  <2>5. Completed(<<Wc("RECV", TRUE)>>, 1, 0, Ops(pc[q]))
    BY <2>4, CompletedOne
  <2>6. /\ \A i \in 1 .. Len(sq[q]) : sq'[q][i] \in Ops(pc[q])
        /\ \A i \in 1 .. Len(sent[q]) : sent'[q][i] \in Ops(pc[q]) \ {"STRAY"}
    BY <1>3, <2>1 DEF Ledger, Account
  <2>7. Len(sq'[q]) + Len(sent'[q]) = Len(sq[q]) + Len(sent[q]) - 0
    <3>1. \A i, j \in Nat : i + j = i + j - 0
      OBVIOUS
    <3>. QED
      BY <2>1, <3>1
  <2>8. Arrives(q, <<Wc("RECV", TRUE)>>, 1, 0)
    BY <2>1, <2>2, <2>3, <2>4, <2>5, <2>6, <2>7 DEF Arrives
  <2>. QED
    BY <1>3, <2>8, ArrivesLedger
<1>4. CASE q # p /\ ~(Head(sq[p]) = "SEND" /\ q = Remote(p))
  BY <1>4, SameLedger
<1>. QED
  BY <1>1, <1>2, <1>3, <1>4

LEMMA ReportsLedger ==
  ASSUME TypeInv, NEW p \in Procs, Reports(p),
         UNCHANGED <<pc, wait, got, ret>>, NEW q \in Procs, Ledger(q)
  PROVE  Ledger(q)'
<1>. USE DEF Reports
<1>1. CASE pc[q] \notin Working
  BY <1>1 DEF Ledger
<1>2. ASSUME q = p, pc[q] \in Working PROVE Ledger(q)'
  <2>1. /\ sq[p] \in Seq(Opcodes) /\ sent[p] \in Seq(Opcodes)
        /\ Len(sq[p]) \in Nat /\ Len(sent[p]) \in Nat /\ rq[p] \in Nat
    BY AccountTypes
  <2>2. /\ Len(sent'[p]) = Len(sent[p]) - 1 /\ Len(sent[p]) - 1 \in Nat
        /\ Head(sent[p]) = sent[p][1] /\ 1 \in 1 .. Len(sent[p])
    BY <2>1, TailOf
  <2>3. /\ \A i \in 1 .. Len(sq[p]) : sq[p][i] \in Ops(pc[p])
        /\ \A i \in 1 .. Len(sent[p]) : sent[p][i] \in Ops(pc[p]) \ {"STRAY"}
    BY <1>2 DEF Ledger, Account
  <2>4. \A i \in 1 .. Len(sent[p]) - 1 : sent'[p][i] \in Ops(pc[p]) \ {"STRAY"}
    <3>1. \A i \in 1 .. Len(sent[p]) - 1 :
            Tail(sent[p])[i] = sent[p][i + 1] /\ i + 1 \in 1 .. Len(sent[p])
      BY <2>1, TailOf
    <3>. QED
      BY <2>3, <3>1
  <2>. DEFINE op == Head(sent[p])
  <2>5. op \in Ops(pc[p]) /\ op # "STRAY" /\ Ops(pc[p]) \in SUBSET Opcodes
    BY <2>2, <2>3, OpsFacts
  <2>6. /\ cq'[p] = Arrive(cq[p], <<Wc(op, TRUE)>>)
        /\ Len(sq'[p]) = Len(sq[p])
        /\ Len(sq'[p]) + Len(sent'[p]) = Len(sq[p]) + Len(sent[p]) - 1
        /\ rq'[p] \in Nat /\ rq'[p] = rq[p] - 0
    <3>1. \A i, j \in Nat : i + (j - 1) = i + j - 1 /\ i = i - 0
      OBVIOUS
    <3>. QED
      BY <2>1, <2>2, <3>1
  <2>7. /\ \A i \in 1 .. Len(sq'[p]) : sq'[p][i] \in Ops(pc[p])
        /\ \A i \in 1 .. Len(sent'[p]) : sent'[p][i] \in Ops(pc[p]) \ {"STRAY"}
    BY <2>2, <2>3, <2>4
  <2>. HIDE DEF op
  <2>8. /\ Completed(<<Wc(op, TRUE)>>, 0, 1, Ops(pc[p]))
        /\ <<Wc(op, TRUE)>> \in Seq(WorkCompletions)
    BY <2>5, CompletedOne, WcType
  <2>9. Arrives(p, <<Wc(op, TRUE)>>, 0, 1)
    BY <2>1, <2>2, <2>6, <2>7, <2>8 DEF Arrives
  <2>. QED
    BY <1>2, <2>9, ArrivesLedger
<1>3. CASE q # p
  BY <1>3, SameLedger
<1>. QED
  BY <1>1, <1>2, <1>3

LEMMA StopsLedger ==
  ASSUME TypeInv, NEW p \in Procs, NEW ps, Stops(p, ps),
         UNCHANGED <<pc, wait, got, ret>>, NEW q \in Procs, Ledger(q)
  PROVE  Ledger(q)'
<1>1. CASE pc[q] \notin Working
  BY <1>1 DEF Ledger
<1>2. CASE q \notin ps
  BY <1>2, SameLedger DEF Stops
<1>3. ASSUME q \in ps, pc[q] \in Working PROVE Ledger(q)'
  <2>. DEFINE u == Len(sq[q])
              v == Len(sent[q])
              ops == Ops(pc[q])
  <2>1. /\ sq[q] \in Seq(Opcodes) /\ sent[q] \in Seq(Opcodes)
        /\ u \in Nat /\ v \in Nat /\ rq[q] \in Nat
        /\ ops \in SUBSET Opcodes /\ "RECV" \notin ops
    BY AccountTypes, OpsFacts
  <2>2. /\ \A i \in 1 .. u : sq[q][i] \in ops
        /\ \A i \in 1 .. v : sent[q][i] \in ops \ {"STRAY"}
    BY <1>3 DEF Ledger, Account
  <2>3. rq[q] \in {0, 1} /\ u + v \in {0, 1} /\ u <= 1 /\ v <= 1
    <3>1. /\ Receives(pc[q]) - rq[q] \in {0, 1}
          /\ Requests(pc[q], wait[q]) - u - v \in {0, 1}
          /\ Receives(pc[q]) \in {0, 1} /\ Requests(pc[q], wait[q]) \in {0, 1}
      BY <1>3, OpsFacts DEF Ledger, Account, Completed
    <3>. DEFINE n == rq[q]
                R == Receives(pc[q])
                S == Requests(pc[q], wait[q])
    <3>2. /\ R - n \in {0, 1} /\ S - u - v \in {0, 1}
          /\ R \in {0, 1} /\ S \in {0, 1}
      BY <3>1
    <3>3. u \in Nat /\ v \in Nat /\ n \in Nat
      BY <2>1
    <3>. HIDE DEF u, v, n, R, S
    <3>4. n <= 1 /\ u + v <= 1 /\ u <= 1 /\ v <= 1
      BY <3>2, <3>3
    <3>5. n \in {0, 1} /\ u + v \in {0, 1}
      BY <3>3, <3>4
    <3>. QED
      BY <3>4, <3>5 DEF n
  <2>4. /\ sq'[q] = <<>> /\ sent'[q] = <<>> /\ rq'[q] = 0
        /\ \/ cq'[q] = Arrive(cq[q], Carried(sent[q]) \o Errors(sq[q], rq[q]))
           \/ cq'[q] = Arrive(cq[q], Errors(sent[q] \o sq[q], rq[q]))
    BY <1>3 DEF Stops
  <2>5. /\ Carried(sent[q]) \o Errors(sq[q], rq[q]) \in Seq(WorkCompletions)
        /\ Completed(Carried(sent[q]) \o Errors(sq[q], rq[q]), rq[q], u + v, ops)
    <3>1. /\ Completed(Carried(sent[q]), 0, v, ops)
          /\ Completed(Errors(sq[q], rq[q]), rq[q], u, ops)
      BY <2>1, <2>2, <2>3, CompletedCarried, CompletedErrors
    <3>2. /\ Carried(sent[q]) \in Seq(WorkCompletions)
          /\ Errors(sq[q], rq[q]) \in Seq(WorkCompletions)
      BY <2>1, CarriedType, ErrorsType
    <3>3. rq[q] = 0 + rq[q] /\ u + v = v + u
      <4>1. \A i, j \in Nat : i = 0 + i /\ i + j = j + i
        OBVIOUS
      <4>. QED
        BY <2>1, <4>1
    <3>. HIDE DEF u, v, ops
    <3>4. Completed(Carried(sent[q]) \o Errors(sq[q], rq[q]), rq[q], u + v, ops)
      BY <2>1, <2>3, <3>1, <3>2, <3>3, CompletedMore
    <3>. QED
      BY <3>2, <3>4, Concat
  <2>6. /\ Errors(sent[q] \o sq[q], rq[q]) \in Seq(WorkCompletions)
        /\ Completed(Errors(sent[q] \o sq[q], rq[q]), rq[q], u + v, ops)
    <3>. DEFINE a == sent[q] \o sq[q]
    <3>1. /\ a \in Seq(Opcodes) /\ Len(a) = u + v
          /\ \A i \in 1 .. v : a[i] = sent[q][i]
          /\ \A i \in 1 .. u : a[v + i] = sq[q][i]
          /\ \A i \in 1 .. v + u :
               i \in 1 .. v \/ \E j \in 1 .. u : i = v + j
      <4>. DEFINE x == sent[q]
                  y == sq[q]
      <4>1. x \in Seq(Opcodes) /\ y \in Seq(Opcodes)
        BY <2>1
      <4>. HIDE DEF x, y
      <4>2. /\ x \o y \in Seq(Opcodes) /\ Len(x \o y) = Len(x) + Len(y)
            /\ \A i \in 1 .. Len(x) : (x \o y)[i] = x[i]
            /\ \A i \in 1 .. Len(y) : (x \o y)[Len(x) + i] = y[i]
            /\ \A i \in 1 .. Len(x) + Len(y) :
                 i \in 1 .. Len(x) \/ \E j \in 1 .. Len(y) : i = Len(x) + j
        BY <4>1, Concat
      <4>3. Len(x) + Len(y) = Len(y) + Len(x)
        BY <4>1
      <4>. QED
        BY <4>2, <4>3 DEF x, y
    <3>. HIDE DEF a, u, v
    <3>2. \A i \in 1 .. Len(a) : a[i] \in ops
      <4>1. ASSUME NEW i \in 1 .. v + u PROVE a[i] \in ops
        BY <2>2, <3>1
      <4>2. Len(a) = v + u
        BY <2>1, <3>1
      <4>. QED
        BY <4>1, <4>2
    <3>3. Len(a) <= 1
      BY <2>3, <3>1
    <3>4. Completed(Errors(a, rq[q]), rq[q], Len(a), ops)
      BY <2>1, <2>3, <3>1, <3>2, <3>3, CompletedErrors
    <3>. QED
      BY <2>1, <3>1, <3>4, ErrorsType DEF a
  <2>7. PICK new \in Seq(WorkCompletions) :
          /\ cq'[q] = Arrive(cq[q], new)
          /\ Completed(new, rq[q], u + v, ops)
    BY <2>4, <2>5, <2>6
  <2>8. /\ rq'[q] \in Nat /\ rq'[q] = rq[q] - rq[q]
        /\ Len(sq'[q]) = 0 /\ Len(sent'[q]) = 0 /\ 0 \in Nat /\ 1 .. 0 = {}
        /\ Len(sq'[q]) + Len(sent'[q]) = Len(sq[q]) + Len(sent[q]) - (u + v)
    <3>1. Len(<<>>) = 0 /\ 1 .. 0 = {}
      OBVIOUS
    <3>. QED
      BY <2>1, <2>4, <3>1
  <2>. HIDE DEF u, v, ops
  <2>9. Arrives(q, new, rq[q], u + v)
    BY <2>7, <2>8 DEF Arrives, ops
  <2>. QED
    BY <1>3, <2>9, ArrivesLedger
<1>. QED
  BY <1>1, <1>2, <1>3

LEMMA DeviceLedger ==
  ASSUME TypeInv, LedgerInv, NEW p \in Procs, Device(p)
  PROVE  LedgerInv'
<1>1. /\ UNCHANGED <<pc, wait, got, ret>>
      /\ CarriesOut(p) \/ Reports(p) \/ \E ps : Stops(p, ps)
  BY DeviceSteps DEF procVars
<1>2. ASSUME NEW q \in Procs PROVE Ledger(q)'
  <2>1. Ledger(q)
    BY DEF LedgerInv
  <2>. QED
    BY <1>1, <2>1, CarriesOutLedger, ReportsLedger, StopsLedger
<1>. QED
  BY <1>2 DEF LedgerInv

-----------------------------------------------------------------------------
(* The steps of the programs, seen by their accounts.                      *)

\* A step inside process_work_completion_event.
CallStep(p) ==
  GetCqEvent(p) \/ ReqNotifyCq(p) \/ PollCq(p) \/ WorkCompletionError(p)

ProgramStep(p) ==
  \/ pc'[p] \notin Working
  \/ GetsReady(p) \/ PostsReceive(p) \/ CallStep(p)
  \/ \E op \in Opcodes : PostsOp(p, op)

LEMMA Leaves ==
  ASSUME NEW l, l \in {"cleanup", "disconnected", "release", "exited", "killed",
                       "disconnect_from_client"}
  PROVE  l \notin Working
BY DEF Working, BeforeReceive, Receiving, Requesting

LEMMA NotWaiting ==
  ASSUME TypeInv, NEW p \in Procs, pc[p] \notin Awaiting
  PROVE  wait[p] = "none"
BY DEF TypeInv, WaitsInCall

LEMMA PostSendOne ==
  ASSUME Domains, NEW p \in Procs, NEW op, PostSend(p, op)
  PROVE  \/ sq'[p] = Append(sq[p], op) /\ cq'[p] = cq[p]
         \/ sq'[p] = sq[p] /\ cq'[p] = Arrive(cq[p], <<Wc(op, FALSE)>>)
BY DEF PostSend, Domains

LEMMA ClientSetupSteps ==
  ASSUME TypeInv, "errno" \notin Faults, NEW c \in Clients,
         \/ SetupClient(c) \/ AddrResolved(c) \/ RouteResolved(c)
         \/ setup_protection_domain(c) \/ create_completion_channel(c)
         \/ create_completion_queue(c) \/ setup_queue_pairs(c)
         \/ ClientPostsRecv(c) \/ connect_to_server(c) \/ ClientEstablished(c)
  PROVE  ProgramStep(c)
<1>1. c \in Procs /\ Domains /\ c # Server
  BY ProcFacts, DomainsHold
<1>. USE DEF Domains, Goto, Fail, workVars, Holding
<1>2. wait[c] = "none"
  BY <1>1, NotWaiting
  DEF SetupClient, AddrResolved, RouteResolved, setup_protection_domain,
      create_completion_channel, create_completion_queue, setup_queue_pairs,
      ClientPostsRecv, connect_to_server, ClientEstablished, Awaiting
<1>3. Receives("connect_to_server") = 1 /\ Receives("established") = 1
  BY DEF Receives, Receiving
<1>. USE DEF ProgramStep, GetsReady, Working, Receives, Requests, BeforeReceive,
             Receiving, Requesting, Notified
<1>4. CASE SetupClient(c) \/ AddrResolved(c) \/ RouteResolved(c)
  BY <1>1, <1>2, <1>4
  DEF SetupClient, AddrResolved, RouteResolved, FailsPartway
<1>5. CASE \/ setup_protection_domain(c) \/ create_completion_channel(c)
           \/ setup_queue_pairs(c)
  BY <1>1, <1>2, <1>5
  DEF setup_protection_domain, create_completion_channel, setup_queue_pairs,
      AllocatesOrFails
<1>6. CASE create_completion_queue(c)
  BY <1>1, <1>2, <1>6
  DEF create_completion_queue, AllocatesOrFails, NewCqs
<1>7. CASE ClientPostsRecv(c)
  BY <1>1, <1>2, <1>7
  DEF ClientPostsRecv, FailsPartway, FailsUnnoticed, PostsReceive
<1>8. CASE connect_to_server(c) \/ ClientEstablished(c)
  BY <1>1, <1>2, <1>8
  DEF connect_to_server, ClientEstablished, FailsPartway
<1>. QED
  BY <1>4, <1>5, <1>6, <1>7, <1>8

LEMMA ClientCallSteps ==
  ASSUME TypeInv, "errno" \notin Faults, NEW c \in Clients,
         \/ exchange_metadata_with_server(c) \/ client_write_message(c)
         \/ client_read_message(c)
  PROVE  ProgramStep(c)
<1>1. c \in Procs /\ Domains /\ c # Server
  BY ProcFacts, DomainsHold
<1>2. CASE pc'[c] \in {"cleanup"}
  BY <1>2, Leaves DEF ProgramStep
<1>3. CASE pc'[c] # "cleanup"
  <2>1. ASSUME NEW op \in Opcodes, PostSend(c, op), AwaitCompletions(c),
               op \in Ops(pc'[c]), pc'[c] \in Requesting, UNCHANGED <<sent, rq>>,
               pc[c] \in Working \cap Notified,
               \/ wait[c] = "none" /\ pc'[c] = pc[c]
               \/ AwaitPasses(c) /\ pc'[c] \notin Receiving
        PROVE  ProgramStep(c)
    <3>1. wait'[c] = "get_event" /\ got'[c] = <<>>
      BY <1>1, <2>1 DEF AwaitCompletions, Domains
    <3>2. PostsOp(c, op)
      BY <1>1, <2>1, <3>1, PostSendOne DEF PostsOp
    <3>. QED
      BY <3>2 DEF ProgramStep
  <2>2. /\ {"SEND", "WRITE", "READ", "STRAY"} \subseteq Opcodes
        /\ Ops("exchange_metadata_with_server") = {"SEND"}
        /\ Ops("client_write_message") = {"WRITE", "STRAY"}
        /\ Ops("client_read_message") = {"READ", "STRAY"}
        /\ {"client_write_message", "client_read_message",
            "exchange_metadata_with_server"}
             \subseteq Working \cap Notified \cap Requesting
        /\ {"client_write_message", "client_read_message"} \cap Receiving = {}
    BY DEF Opcodes, Ops, Working, Notified, Requesting, Receiving
  <2>3. CASE exchange_metadata_with_server(c)
    <3>1. /\ PostSend(c, "SEND") /\ AwaitCompletions(c) /\ wait[c] = "none"
          /\ pc[c] = "exchange_metadata_with_server" /\ pc' = pc
          /\ UNCHANGED <<sent, rq>>
      BY <1>1, <1>3, <2>3
      DEF exchange_metadata_with_server, FailsPartway, FailsUnnoticed, Fail,
          Goto, Domains
    <3>. QED
      BY <2>1, <2>2, <3>1
  <2>4. CASE client_write_message(c)
    <3>1. /\ PostRdma(c, "WRITE") /\ AwaitCompletions(c)
          /\ Enters(c, "client_write_message", "exchange_metadata_with_server")
          /\ pc'[c] = "client_write_message" /\ UNCHANGED <<sent, rq>>
      BY <1>1, <1>3, <2>4
      DEF client_write_message, FailsPartway, FailsUnnoticed, Fail, Goto, Domains
    <3>2. PICK op \in {"WRITE", "STRAY"} : PostSend(c, op)
      BY <3>1 DEF PostRdma
    <3>. QED
      BY <2>1, <2>2, <3>1, <3>2 DEF Enters
  <2>5. CASE client_read_message(c)
    <3>1. /\ PostRdma(c, "READ") /\ AwaitCompletions(c)
          /\ Enters(c, "client_read_message", "client_write_message")
          /\ pc'[c] = "client_read_message" /\ UNCHANGED <<sent, rq>>
      BY <1>1, <1>3, <2>5
      DEF client_read_message, FailsPartway, FailsUnnoticed, Fail, Goto, Domains
    <3>2. PICK op \in {"READ", "STRAY"} : PostSend(c, op)
      BY <3>1 DEF PostRdma
    <3>. QED
      BY <2>1, <2>2, <3>1, <3>2 DEF Enters
  <2>. QED
    BY <2>3, <2>4, <2>5
<1>. QED
  BY <1>2, <1>3

LEMMA ClientProgramSteps ==
  ASSUME TypeInv, "errno" \notin Faults, NEW c \in Clients,
         ClientStep(c) \/ KillClient(c)
  PROVE  ProgramStep(c)
<1>1. c \in Procs /\ Domains /\ c # Server
  BY ProcFacts, DomainsHold
<1>. USE DEF Domains, Goto, Fail
<1>2. CASE ReadComplete(c) \/ RdmaEventFails(c) \/ AwaitFailed(c)
  <2>1. pc'[c] = "cleanup"
    BY <1>1, <1>2 DEF ReadComplete, RdmaEventFails, AwaitFailed
  <2>. QED
    BY <2>1, Leaves DEF ProgramStep
<1>3. CASE GetCqEvent(c) \/ ReqNotifyCq(c) \/ PollCq(c) \/ WorkCompletionError(c)
  BY <1>3 DEF ProgramStep, CallStep
<1>4. CASE cleanup_client(c) \/ KillClient(c)
  <2>1. pc'[c] \in {"release", "disconnected", "exited", "killed"}
    BY <1>1, <1>4
    DEF cleanup_client, Disconnect, Disconnected, NoDisconnected, FreePlain,
        DestroyQp, DestroyCq, ClientDestroysId, ClientDestroysChannel, Releases,
        Exit, KillClient, ClientDies
  <2>. QED
    BY <2>1, Leaves DEF ProgramStep
<1>. QED
  BY <1>2, <1>3, <1>4, ClientSetupSteps, ClientCallSteps
  DEF ClientStep, WorkCompletionEvent

LEMMA ServerProgramSteps ==
  ASSUME TypeInv, "errno" \notin Faults, ServerStep \/ KillServer
  PROVE  ProgramStep(Server)
<1>1. Server \in Procs /\ Domains
  BY ProcFacts, DomainsHold
<1>. USE DEF Domains, Goto, Fail, workVars, Holding
<1>2. CASE \/ SetupServer \/ ConnectRequest \/ setup_communication_resources
           \/ ServerPostsRecv \/ accept_client_connection \/ ServerEstablished
  <2>1. wait[Server] = "none"
    BY <1>1, <1>2, NotWaiting
    DEF SetupServer, ConnectRequest, setup_communication_resources,
        ServerPostsRecv, accept_client_connection, ServerEstablished, Awaiting
  <2>. USE DEF ProgramStep, GetsReady, Working, Receives, Requests,
               BeforeReceive, Receiving, Requesting, Notified
  <2>2. CASE SetupServer \/ ConnectRequest
    BY <1>1, <2>1, <2>2 DEF SetupServer, ConnectRequest, FailsPartway
  <2>3. CASE setup_communication_resources
    BY <1>1, <2>1, <2>3
    DEF setup_communication_resources, FailsPartway, FailsUnnoticed, NewCqs
  <2>4. CASE ServerPostsRecv
    BY <1>1, <2>1, <2>4 DEF ServerPostsRecv, FailsPartway, PostsReceive
  <2>5. CASE accept_client_connection \/ ServerEstablished
    BY <1>1, <2>1, <2>5
    DEF accept_client_connection, ServerEstablished, FailsPartway,
        AwaitCompletions
  <2>. QED
    BY <1>2, <2>2, <2>3, <2>4, <2>5
<1>3. CASE SendServerMetadata
  <2>1. CASE pc'[Server] = "release"
    BY <2>1, Leaves DEF ProgramStep
  <2>2. CASE pc'[Server] # "release"
    <3>1. /\ PostSend(Server, "SEND") /\ AwaitCompletions(Server)
          /\ AwaitSucceeded(Server) /\ UNCHANGED <<sent, rq>>
          /\ pc[Server] = "exchange_metadata_with_client"
          /\ pc'[Server] = "send_server_metadata"
      BY <1>1, <1>3, <2>2 DEF SendServerMetadata, FailsUnnoticed
    <3>2. wait'[Server] = "get_event" /\ got'[Server] = <<>>
      BY <1>1, <3>1 DEF AwaitCompletions
    <3>3. /\ "SEND" \in Opcodes /\ "SEND" \in Ops("send_server_metadata")
          /\ "send_server_metadata" \in Requesting \ Receiving
          /\ "exchange_metadata_with_client" \in Working \cap Notified
      BY DEF Opcodes, Ops, Requesting, Receiving, Working, Notified
    <3>4. PostsOp(Server, "SEND")
      BY <1>1, <3>1, <3>2, <3>3, PostSendOne DEF PostsOp, AwaitPasses
    <3>. QED
      BY <3>3, <3>4 DEF ProgramStep
  <2>. QED
    BY <2>1, <2>2
<1>4. CASE \/ ServerMetadataSent \/ disconnect_from_client
           \/ RdmaEventFails(Server) \/ AwaitFailed(Server)
  <2>1. pc'[Server] \in {"release", "disconnect_from_client"}
    BY <1>1, <1>4
    DEF ServerMetadataSent, disconnect_from_client, RdmaEventFails, AwaitFailed
  <2>. QED
    BY <2>1, Leaves DEF ProgramStep
<1>5. CASE \/ GetCqEvent(Server) \/ ReqNotifyCq(Server) \/ PollCq(Server)
           \/ WorkCompletionError(Server)
  BY <1>5 DEF ProgramStep, CallStep
<1>6. CASE cleanup_server \/ ServerPostsToNoQp \/ KillServer
  <2>1. pc'[Server] \in {"release", "exited", "killed"}
    BY <1>1, <1>6
    DEF ServerDies, cleanup_server, FreePlain, DestroyQp, DestroyCq, Releases,
        ServerDestroysClientId, ServerDestroysServerId, ServerDestroysChannel,
        Exit, KillServer, ServerPostsToNoQp
  <2>. QED
    BY <2>1, Leaves DEF ProgramStep
<1>. QED
  BY <1>2, <1>3, <1>4, <1>5, <1>6 DEF ServerStep, WorkCompletionEvent

LEMMA ProgramLedger ==
  ASSUME "errno" \notin Faults, PollErrors \cap {1, 2} = {}, TypeInv,
         LedgerInv, NEW p \in Procs, ProgramStep(p), Elsewhere(p)
  PROVE  LedgerInv'
<1>1. Ledger(p)'
  <2>1. Ledger(p)
    BY DEF LedgerInv
  <2>2. CASE pc'[p] \notin Working
    BY <2>2 DEF Ledger
  <2>3. CASE GetsReady(p) \/ PostsReceive(p)
    BY <2>1, <2>3, GetsReadyLedger, PostsReceiveLedger
  <2>4. CASE CallStep(p)
    BY <2>1, <2>4, CallLedger DEF CallStep
  <2>5. ASSUME NEW op \in Opcodes, PostsOp(p, op) PROVE Ledger(p)'
    BY <2>1, <2>5, PostsOpLedger
  <2>. QED
    BY <2>2, <2>3, <2>4, <2>5 DEF ProgramStep
<1>2. ASSUME NEW q \in Procs, q # p PROVE Ledger(q)'
  BY <1>2, SameLedger
  DEF LedgerInv, Elsewhere, ProcElsewhere, WorkElsewhere
<1>. QED
  BY <1>1, <1>2 DEF LedgerInv

\* The assumptions of the two theorems on completions: no call that fails
\* reports a success, as ibv_req_notify_cq and the posts can when they leave
\* errno 0, and ibv_poll_cq when its error is the number that is expected.
Reliable == "errno" \notin Faults /\ PollErrors \cap {1, 2} = {}

LEMMA NextLedgerInv ==
  Reliable /\ TypeInv /\ LedgerInv /\ [Next]_vars => LedgerInv'
<1>. SUFFICES ASSUME Reliable, TypeInv, LedgerInv, [Next]_vars
              PROVE  LedgerInv'
  OBVIOUS
<1>. USE DEF Reliable
<1>1. ASSUME UNCHANGED <<procVars, workVars>> PROVE LedgerInv'
  BY <1>1, SameLedger DEF LedgerInv, procVars, workVars
<1>2. ASSUME NEW c \in Clients, ClientStep(c) \/ KillClient(c)
      PROVE  LedgerInv'
  <2>1. c \in Procs /\ Elsewhere(c) /\ ProgramStep(c)
    BY <1>2, ProcFacts, DomainsHold, ClientElsewhere, ClientProgramSteps
  <2>. QED
    BY <2>1, ProgramLedger
<1>3. CASE ServerStep \/ KillServer
  <2>1. Server \in Procs /\ Elsewhere(Server) /\ ProgramStep(Server)
    BY <1>3, ProcFacts, DomainsHold, ServerElsewhere, ServerProgramSteps
  <2>. QED
    BY <2>1, ProgramLedger
<1>4. ASSUME NEW c \in Clients, Cm(c) PROVE LedgerInv'
  BY <1>1, <1>4 DEF Cm
<1>5. ASSUME NEW p \in Procs, Device(p) PROVE LedgerInv'
  BY <1>5, DeviceLedger
<1>6. CASE UNCHANGED vars
  BY <1>1, <1>6 DEF vars
<1>. QED
  BY <1>2, <1>3, <1>4, <1>5, <1>6 DEF Next, Terminated

LEMMA InitLedgerInv == Init => LedgerInv
<1>. SUFFICES ASSUME Init, NEW p \in Procs PROVE Ledger(p)
  BY DEF LedgerInv
<1>1. /\ pc[p] \in {"setup_server", "setup_client"} /\ wait[p] = "none"
      /\ got[p] = <<>> /\ cq[p] = NewCq /\ sq[p] = <<>> /\ sent[p] = <<>>
      /\ rq[p] = 0
  BY DEF Init
<1>2. /\ Receives(pc[p]) = 0 /\ Requests(pc[p], wait[p]) = 0
      /\ pc[p] \notin Notified
  BY <1>1
  DEF Receives, Requests, Receiving, Requesting, Notified
<1>3. Completions(p) = <<>>
  <2>1. <<>> \o <<>> = <<>> /\ NewCq.wcs = <<>>
    BY DEF NewCq
  <2>. QED
    BY <1>1, <2>1 DEF Completions
<1>4. Account(p)
  <2>1. 0 - 0 = 0
    OBVIOUS
  <2>. QED
    BY <1>1, <1>2, <1>3, <2>1, NoneLeft, CompletedNone DEF Account
<1>. QED
  BY <1>1, <1>2, <1>4 DEF Ledger, Result

\* The account balances in every reachable state.
THEOREM LedgerInvCorrect == ASSUME Reliable PROVE Spec => []LedgerInv
<1>1. TypeInv /\ LedgerInv /\ [Next]_vars => LedgerInv'
  BY NextLedgerInv
<1>. QED
  BY <1>1, InitLedgerInv, TypeInvCorrect, PTL DEF Spec

LEMMA OwnInState == TypeInv /\ LedgerInv => OwnCompletions
<1>. SUFFICES ASSUME TypeInv, LedgerInv, NEW p \in Procs, AwaitSucceeded(p)
              PROVE  LET ops == {got[p][i].op : i \in DOMAIN got[p]}
                     IN  ops = CASE pc[p] = "exchange_metadata_with_server" ->
                                      {"SEND", "RECV"}
                                 [] pc[p] = "client_write_message" -> {"WRITE"}
                                 [] pc[p] = "client_read_message" -> {"READ"}
                                 [] pc[p] = "exchange_metadata_with_client" ->
                                      {"RECV"}
                                 [] pc[p] = "send_server_metadata" -> {"SEND"}
  BY DEF OwnCompletions
<1>1. wait[p] = "returned" /\ ret[p] = Expected(p)
  BY DEF AwaitSucceeded
<1>2. pc[p] \in Awaiting
  BY <1>1 DEF TypeInv, WaitsInCall
<1>3. pc[p] \in Working /\ Account(p) /\ Result(p)
  BY <1>2 DEF Awaiting, LedgerInv, Ledger, Working, Receiving, Requesting
<1>. DEFINE g == got[p]
<1>4. /\ g \in Seq(WorkCompletions) /\ DOMAIN g = 1 .. Len(g)
      /\ Len(g) = Expected(p) /\ \A i \in 1 .. Len(g) : g[i].ok
  <2>1. got[p] \in Seq(WorkCompletions)
    BY AccountTypes
  <2>2. Len(got[p]) = Expected(p) /\ \A i \in 1 .. Len(got[p]) : got[p][i].ok
    BY <1>1, <1>3 DEF Result
  <2>3. DOMAIN got[p] = 1 .. Len(got[p])
    BY <2>1
  <2>. QED
    BY <2>1, <2>2, <2>3
<1>5. /\ rq[p] = 0 /\ sq[p] = <<>> /\ sent[p] = <<>> /\ cq[p].wcs = <<>>
  BY <1>3, Spent DEF AwaitPasses, LedgerInv
<1>6. Completions(p) = g
  BY <1>4, <1>5, ConcatEmptySeq DEF Completions
<1>. DEFINE r == Receives(pc[p])
            s == Requests(pc[p], wait[p])
<1>7. Completed(g, r, s, Ops(pc[p]))
  <2>1. r - rq[p] = r /\ s - Len(sq[p]) - Len(sent[p]) = s
    <3>1. Len(<<>>) = 0 /\ r \in {0, 1} /\ s \in {0, 1}
      BY OpsFacts
    <3>2. r - 0 = r /\ s - 0 - 0 = s
      BY <3>1
    <3>. QED
      BY <1>5, <3>1, <3>2
  <2>. QED
    BY <1>3, <1>6, <2>1 DEF Account
<1>. HIDE DEF g, r, s
<1>8. \A i \in 1 .. Len(g) :
        \/ g[i].op = "RECV" /\ r = 1
        \/ g[i].op \in Ops(pc[p]) /\ s = 1 /\ g[i].op # "STRAY"
  <2>. SUFFICES ASSUME NEW i \in 1 .. Len(g)
                PROVE  \/ g[i].op = "RECV" /\ r = 1
                       \/ g[i].op \in Ops(pc[p]) /\ s = 1 /\ g[i].op # "STRAY"
    OBVIOUS
  <2>1. g[i].ok
    BY <1>4
  <2>2. \/ g[i].op = "RECV" /\ r = 1
        \/ /\ g[i].op \in Ops(pc[p]) /\ s = 1
           /\ g[i].ok => g[i].op # "STRAY"
    BY <1>7 DEF Completed
  <2>. QED
    BY <2>1, <2>2
<1>9. CASE pc[p] = "exchange_metadata_with_server"
  <2>1. r = 1 /\ s = 1 /\ Ops(pc[p]) = {"SEND"} /\ Len(g) = 2
    BY <1>1, <1>4, <1>9
    DEF r, s, Receives, Requests, Receiving, Requesting, Ops, Expected
  <2>2. /\ g[1].op \in {"RECV", "SEND"} /\ g[2].op \in {"RECV", "SEND"}
        /\ g[1].op = "RECV" <=> g[2].op # "RECV"
    BY <1>7, <1>8, <2>1 DEF Completed
  <2>3. DOMAIN g = {1, 2}
    BY <1>4, <2>1
  <2>4. {g[i].op : i \in DOMAIN g} = {"SEND", "RECV"}
    BY <2>2, <2>3
  <2>. QED
    BY <1>9, <2>4 DEF g
<1>10. CASE pc[p] # "exchange_metadata_with_server"
  <2>1. DOMAIN g = {1} /\ Len(g) = 1
    BY <1>4, <1>10 DEF Expected
  <2>2. {g[i].op : i \in DOMAIN g} = {g[1].op}
    BY <2>1
  <2>3. CASE pc[p] = "exchange_metadata_with_client"
    <3>1. Ops(pc[p]) = {}
      BY <2>3 DEF Ops
    <3>. QED
      BY <1>8, <2>1, <2>2, <2>3, <3>1 DEF g
  <2>4. CASE pc[p] # "exchange_metadata_with_client"
    <3>1. r = 0
      BY <1>2, <1>10, <2>4 DEF r, Receives, Receiving, Awaiting
    <3>2. g[1].op \in Ops(pc[p]) /\ g[1].op # "STRAY"
      BY <1>8, <2>1, <3>1
    <3>3. CASE pc[p] = "client_write_message"
      BY <2>2, <3>2, <3>3 DEF Ops, g
    <3>4. CASE pc[p] = "client_read_message"
      BY <2>2, <3>2, <3>4 DEF Ops, g
    <3>5. CASE pc[p] = "send_server_metadata"
      BY <2>2, <3>2, <3>5 DEF Ops, g
    <3>. QED
      BY <1>2, <1>10, <2>4, <3>3, <3>4, <3>5 DEF Awaiting
  <2>. QED
    BY <2>3, <2>4
<1>. QED
  BY <1>9, <1>10

\* A wait that succeeds has retrieved the completions of the requests its own
\* step has posted, all of them and no other, with any number of clients, after
\* any failure that is reported and in any order in which the two sides and
\* the devices get on (process_work_completion_event, rdma_common.c:41-110,
\* and its five callers).
THEOREM OwnCompletionsCorrect == ASSUME Reliable PROVE Spec => []OwnCompletions
<1>. QED
  BY OwnInState, LedgerInvCorrect, TypeInvCorrect, PTL

\* A thread that goes to sleep in ibv_get_cq_event while a completion is there
\* has an event to wake it: none falls between the notification that is used
\* up, the one that is requested anew and the polling loop
\* (rdma_common.c:56-86), unless a request for notification fails.
THEOREM NoLostWakeupCorrect ==
  ASSUME Reliable, "notify" \notin Faults PROVE Spec => []NoLostWakeup
<1>1. TypeInv /\ LedgerInv => NoLostWakeup
  <2>. SUFFICES ASSUME TypeInv, LedgerInv, NEW p \in Procs,
                       wait[p] = "get_event", cq[p].wcs # <<>>
                PROVE  cq[p].events > 0
    BY DEF NoLostWakeup
  <2>1. pc[p] \in Awaiting
    BY DEF TypeInv, WaitsInCall
  <2>2. Token(cq[p], wait[p])
    BY <2>1
    DEF Awaiting, LedgerInv, Ledger, Working, Notified, Receiving, Requesting
  <2>. QED
    BY <2>2 DEF Token
<1>. QED
  BY <1>1, LedgerInvCorrect, TypeInvCorrect, PTL
=============================================================================
