-------------------------- MODULE RdmaTypesProofs ---------------------------
(***************************************************************************)
(* The types of RdmaSession, for any set of clients, any messages, any     *)
(* device and any faults; and what the operators of RdmaCommon preserve.   *)
(***************************************************************************)
EXTENDS RdmaSession, SequenceTheorems, TLAPS

Cqs == CqType(WorkCompletions)

\* The processes are the clients and the server, which is none of them.
LEMMA ProcFacts ==
  /\ Server \in Procs /\ Clients \subseteq Procs
  /\ \A p \in Procs : p # Server => p \in Clients
  /\ \A c \in Clients : c # Server /\ c # Nobody
  /\ Nobody # Server
BY ClientsAssumption DEF Procs

-----------------------------------------------------------------------------
(* Completion queues.                                                      *)

LEMMA WcType ==
  ASSUME NEW op \in Opcodes, NEW ok \in BOOLEAN
  PROVE  Wc(op, ok) \in WorkCompletions /\ <<Wc(op, ok)>> \in Seq(WorkCompletions)
<1>1. Wc(op, ok) \in WorkCompletions
  BY DEF Wc, WorkCompletions
<1>. QED
  BY <1>1

\* A function on 1 .. n is a sequence of that length.
LEMMA FunctionIsSeq ==
  ASSUME NEW S, NEW n \in Nat, NEW f \in [1 .. n -> S]
  PROVE  f \in Seq(S) /\ Len(f) = n
<1>1. f \in Seq(S)
  BY SeqDef
<1>. QED
  BY <1>1

\* The fields of a completion queue, and each of them changed.
LEMMA CqFields ==
  ASSUME NEW q \in Cqs
  PROVE  /\ q.wcs \in Seq(WorkCompletions) /\ Len(q.wcs) \in Nat
         /\ q.armed \in BOOLEAN /\ q.events \in Nat /\ q.unacked \in Nat
BY DEF Cqs, CqType

LEMMA CqCompletions ==
  ASSUME NEW q \in Cqs, NEW w \in Seq(WorkCompletions)
  PROVE  [q EXCEPT !.wcs = w] \in Cqs
BY DEF Cqs, CqType

LEMMA CqCounters ==
  ASSUME NEW q \in Cqs, NEW e \in Nat, NEW u \in Nat
  PROVE  /\ [q EXCEPT !.events = e, !.unacked = u] \in Cqs
         /\ [q EXCEPT !.unacked = u] \in Cqs
<1>1. [q EXCEPT !.events = e, !.unacked = u] \in Cqs
  BY DEF Cqs, CqType
<1>2. [q EXCEPT !.unacked = u] \in Cqs
  BY DEF Cqs, CqType
<1>. QED
  BY <1>1, <1>2

LEMMA NotifyType ==
  ASSUME NEW q \in Cqs
  PROVE  /\ ibv_req_notify_cq(q) \in Cqs
         /\ ibv_req_notify_cq(q).unacked = q.unacked
         /\ ibv_req_notify_cq(q).wcs = q.wcs
<1>1. ibv_req_notify_cq(q) \in Cqs
  BY DEF ibv_req_notify_cq, Cqs, CqType
<1>2. ibv_req_notify_cq(q).unacked = q.unacked
  BY DEF ibv_req_notify_cq, Cqs, CqType
<1>3. ibv_req_notify_cq(q).wcs = q.wcs
  BY DEF ibv_req_notify_cq, Cqs, CqType
<1>. QED
  BY <1>1, <1>2, <1>3

LEMMA NewCqType ==
  /\ NewCq \in Cqs /\ ibv_req_notify_cq(NewCq) \in Cqs
  /\ NewCq.unacked = 0 /\ NewCq.wcs = <<>>
<1>1. NewCq \in Cqs
  BY DEF NewCq, Cqs, CqType
<1>2. NewCq.unacked = 0 /\ NewCq.wcs = <<>>
  BY DEF NewCq
<1>. QED
  BY <1>1, <1>2, NotifyType

LEMMA GetEventType ==
  ASSUME NEW q \in Cqs, CanGetCqEvent(q)
  PROVE  /\ ibv_get_cq_event(q) \in Cqs
         /\ ibv_get_cq_event(q).unacked > 0
         /\ ibv_get_cq_event(q).wcs = q.wcs
<1>1. q.events - 1 \in Nat /\ q.unacked + 1 \in Nat
  BY CqFields DEF CanGetCqEvent
<1>2. ibv_get_cq_event(q) \in Cqs
  BY <1>1, CqCounters DEF ibv_get_cq_event
<1>3. ibv_get_cq_event(q).unacked > 0
  BY DEF ibv_get_cq_event, Cqs, CqType
<1>4. ibv_get_cq_event(q).wcs = q.wcs
  BY DEF ibv_get_cq_event, Cqs, CqType
<1>. QED
  BY <1>2, <1>3, <1>4

LEMMA DropType ==
  ASSUME NEW q \in Cqs
  PROVE  /\ [q EXCEPT !.wcs = <<>>] \in Cqs
         /\ [q EXCEPT !.wcs = <<>>].unacked = q.unacked
<1>1. <<>> \in Seq(WorkCompletions)
  OBVIOUS
<1>2. [q EXCEPT !.wcs = <<>>].unacked = q.unacked
  BY DEF Cqs, CqType
<1>. QED
  BY <1>1, <1>2, CqCompletions

LEMMA AckType ==
  ASSUME NEW q \in Cqs, q.unacked > 0
  PROVE  /\ ibv_ack_cq_events(q, 1) \in Cqs
         /\ ibv_ack_cq_events(q, 1).wcs = q.wcs
<1>1. q.unacked - 1 \in Nat
  BY CqFields
<1>2. ibv_ack_cq_events(q, 1) \in Cqs
  BY <1>1, CqCounters, CqFields DEF ibv_ack_cq_events
<1>3. ibv_ack_cq_events(q, 1).wcs = q.wcs
  BY DEF ibv_ack_cq_events, Cqs, CqType
<1>. QED
  BY <1>2, <1>3

LEMMA ArriveType ==
  ASSUME NEW q \in Cqs, NEW new \in Seq(WorkCompletions)
  PROVE  /\ Arrive(q, new) \in Cqs
         /\ Arrive(q, new).unacked = q.unacked
         /\ Arrive(q, new).wcs = q.wcs \o new
<1>1. /\ q.wcs \in Seq(WorkCompletions) /\ q.armed \in BOOLEAN
      /\ q.events \in Nat /\ q.unacked \in Nat
  BY DEF Cqs, CqType
<1>2. CASE new = <<>>
  <2>1. q.wcs \o new = q.wcs
    BY <1>1, <1>2, ConcatEmptySeq
  <2>. QED
    BY <1>2, <2>1 DEF Arrive
<1>3. CASE new # <<>>
  <2>1. q.wcs \o new \in Seq(WorkCompletions)
    BY <1>1
  <2>2. (IF q.armed THEN q.events + 1 ELSE q.events) \in Nat
    BY <1>1
  <2>3. Arrive(q, new) =
          [q EXCEPT !.wcs = q.wcs \o new, !.armed = FALSE,
                    !.events = IF q.armed THEN q.events + 1 ELSE q.events]
    BY <1>3 DEF Arrive
  <2>. QED
    BY <2>1, <2>2, <2>3 DEF Cqs, CqType
<1>. QED
  BY <1>2, <1>3

LEMMA PollType ==
  ASSUME NEW q \in Cqs, NEW n \in 1 .. Len(q.wcs)
  PROVE  /\ ibv_poll_cq(q, n) \in Cqs
         /\ ibv_poll_cq(q, n).unacked = q.unacked
         /\ Polled(q, n) \in Seq(WorkCompletions)
         /\ Len(Polled(q, n)) = n
         /\ Len(ibv_poll_cq(q, n).wcs) = Len(q.wcs) - n
         /\ \A i \in 1 .. n : Polled(q, n)[i] = q.wcs[i]
         /\ \A i \in 1 .. Len(q.wcs) - n :
              ibv_poll_cq(q, n).wcs[i] = q.wcs[n + i]
<1>1. q.wcs \in Seq(WorkCompletions) /\ Len(q.wcs) \in Nat
  BY DEF Cqs, CqType
<1>2. /\ SubSeq(q.wcs, 1, n) \in Seq(WorkCompletions)
      /\ Len(SubSeq(q.wcs, 1, n)) = n
      /\ \A i \in 1 .. n : SubSeq(q.wcs, 1, n)[i] = q.wcs[i]
  BY <1>1
<1>3. /\ SubSeq(q.wcs, n + 1, Len(q.wcs)) \in Seq(WorkCompletions)
      /\ Len(SubSeq(q.wcs, n + 1, Len(q.wcs))) = Len(q.wcs) - n
      /\ \A i \in 1 .. Len(q.wcs) - n :
           SubSeq(q.wcs, n + 1, Len(q.wcs))[i] = q.wcs[n + i]
  BY <1>1
<1>4. /\ ibv_poll_cq(q, n) = [q EXCEPT !.wcs = SubSeq(q.wcs, n + 1, Len(q.wcs))]
      /\ Polled(q, n) = SubSeq(q.wcs, 1, n)
  BY DEF ibv_poll_cq, Polled
<1>5. ibv_poll_cq(q, n).wcs = SubSeq(q.wcs, n + 1, Len(q.wcs))
  BY <1>4 DEF Cqs, CqType
<1>. QED
  BY <1>2, <1>3, <1>4, <1>5 DEF Cqs, CqType

\* Two sequences put together.
LEMMA Concat ==
  ASSUME NEW S, NEW s \in Seq(S), NEW t \in Seq(S)
  PROVE  /\ s \o t \in Seq(S) /\ Len(s \o t) = Len(s) + Len(t)
         /\ \A i \in 1 .. Len(s) : (s \o t)[i] = s[i]
         /\ \A i \in 1 .. Len(t) : (s \o t)[Len(s) + i] = t[i]
         /\ \A i \in 1 .. Len(s) + Len(t) :
              i \in 1 .. Len(s) \/ \E j \in 1 .. Len(t) : i = Len(s) + j
<1>1. Len(s) \in Nat /\ Len(t) \in Nat
  OBVIOUS
<1>2. s \o t \in Seq(S) /\ Len(s \o t) = Len(s) + Len(t)
  OBVIOUS
<1>3. ASSUME NEW i \in 1 .. Len(s) PROVE (s \o t)[i] = s[i]
  OBVIOUS
<1>4. ASSUME NEW i \in 1 .. Len(t) PROVE (s \o t)[Len(s) + i] = t[i]
  BY <1>1
<1>5. ASSUME NEW i \in 1 .. Len(s) + Len(t), i \notin 1 .. Len(s)
      PROVE  \E j \in 1 .. Len(t) : i = Len(s) + j
  <2>1. i - Len(s) \in 1 .. Len(t) /\ i = Len(s) + (i - Len(s))
    BY <1>1, <1>5
  <2>. QED
    BY <2>1
<1>. QED
  BY <1>1, <1>2, <1>3, <1>4, <1>5

\* What a flushed queue pair reports: the sends, then the receives.
FailedSends(ops) == [i \in 1 .. Len(ops) |-> Wc(ops[i], FALSE)]
FailedReceives(n) == [i \in 1 .. n |-> Wc("RECV", FALSE)]

LEMMA FailedType ==
  ASSUME NEW ops \in Seq(Opcodes), NEW n \in Nat
  PROVE  /\ FailedSends(ops) \in Seq(WorkCompletions)
         /\ Len(FailedSends(ops)) = Len(ops)
         /\ FailedReceives(n) \in Seq(WorkCompletions)
         /\ Len(FailedReceives(n)) = n
<1>1. \A op \in Opcodes : Wc(op, FALSE) \in WorkCompletions
  BY WcType
<1>2. Len(ops) \in Nat /\ \A i \in 1 .. Len(ops) : ops[i] \in Opcodes
  OBVIOUS
<1>3. FailedSends(ops) \in [1 .. Len(ops) -> WorkCompletions]
  BY <1>1, <1>2 DEF FailedSends
<1>4. FailedSends(ops) \in Seq(WorkCompletions)
  BY <1>2, <1>3, FunctionIsSeq
<1>5. Len(FailedSends(ops)) = Len(ops)
  BY <1>2, <1>3, FunctionIsSeq
<1>6. FailedReceives(n) \in [1 .. n -> WorkCompletions]
  BY <1>1 DEF FailedReceives, Opcodes
<1>. QED
  BY <1>4, <1>5, <1>6, FunctionIsSeq

LEMMA ErrorsType ==
  ASSUME NEW ops \in Seq(Opcodes), NEW n \in Nat
  PROVE  /\ Errors(ops, n) \in Seq(WorkCompletions)
         /\ Len(Errors(ops, n)) = Len(ops) + n
         /\ \A i \in 1 .. Len(ops) + n : Errors(ops, n)[i].ok = FALSE
<1>. DEFINE a == FailedSends(ops)
            b == FailedReceives(n)
<1>1. /\ a \in Seq(WorkCompletions) /\ Len(a) = Len(ops)
      /\ b \in Seq(WorkCompletions) /\ Len(b) = n
  BY FailedType
<1>2. Errors(ops, n) = a \o b
  BY DEF Errors, FailedSends, FailedReceives
<1>3. \A i \in 1 .. Len(a) : a[i].ok = FALSE
  BY <1>1 DEF FailedSends, Wc
<1>4. \A i \in 1 .. Len(b) : b[i].ok = FALSE
  BY <1>1 DEF FailedReceives, Wc
<1>. HIDE DEF a, b
<1>5. /\ a \o b \in Seq(WorkCompletions) /\ Len(a \o b) = Len(a) + Len(b)
      /\ \A j \in 1 .. Len(b) : (a \o b)[Len(a) + j] = b[j]
  <2>1. a \in Seq(WorkCompletions) /\ b \in Seq(WorkCompletions)
    BY <1>1
  <2>. QED
    BY <2>1, Concat
<1>6. ASSUME NEW i \in 1 .. Len(a) + Len(b) PROVE (a \o b)[i].ok = FALSE
  <2>1. CASE i \in 1 .. Len(a)
    <3>1. (a \o b)[i] = a[i]
      BY <2>1, <1>1, Concat
    <3>. QED
      BY <2>1, <3>1, <1>3
  <2>2. CASE i \notin 1 .. Len(a)
    <3>1. PICK j \in 1 .. Len(b) : i = Len(a) + j
      BY <2>2, <1>1, Concat
    <3>2. (a \o b)[Len(a) + j] = b[j]
      BY <1>5
    <3>3. (a \o b)[i] = b[j]
      BY <3>1, <3>2
    <3>4. b[j].ok = FALSE
      BY <1>4
    <3>. QED
      BY <3>3, <3>4
  <2>. QED
    BY <2>1, <2>2
<1>. QED
  BY <1>1, <1>2, <1>5, <1>6

\* The completions of what was carried out when a queue pair is flushed.
Carried(ops) == [i \in DOMAIN ops |-> Wc(ops[i], TRUE)]

LEMMA CarriedType ==
  ASSUME NEW ops \in Seq(Opcodes)
  PROVE  /\ Carried(ops) \in Seq(WorkCompletions)
         /\ Len(Carried(ops)) = Len(ops)
         /\ \A i \in 1 .. Len(ops) : Carried(ops)[i] = Wc(ops[i], TRUE)
<1>1. /\ Len(ops) \in Nat /\ DOMAIN ops = 1 .. Len(ops)
      /\ \A i \in 1 .. Len(ops) : ops[i] \in Opcodes
  OBVIOUS
<1>2. \A op \in Opcodes : Wc(op, TRUE) \in WorkCompletions
  BY WcType
<1>3. Carried(ops) \in [1 .. Len(ops) -> WorkCompletions]
  BY <1>1, <1>2 DEF Carried
<1>4. Carried(ops) \in Seq(WorkCompletions) /\ Len(Carried(ops)) = Len(ops)
  BY <1>1, <1>3, FunctionIsSeq
<1>. QED
  BY <1>1, <1>4 DEF Carried

-----------------------------------------------------------------------------
(* Resources.                                                              *)

\* The elements of a short sequence, and those of the beginnings of one.
LEMMA ToSetOfNone == ToSet(<<>>) = {}
BY DEF ToSet

LEMMA ToSetOfThree ==
  ASSUME NEW x, NEW y, NEW z
  PROVE  ToSet(<<x, y, z>>) = {x, y, z}
BY DEF ToSet

LEMMA Beginning ==
  ASSUME NEW S, NEW s \in Seq(S), NEW n \in 0 .. Len(s)
  PROVE  ToSet(SubSeq(s, 1, n)) = {s[i] : i \in 1 .. n}
<1>1. /\ SubSeq(s, 1, n) \in Seq(S) /\ Len(SubSeq(s, 1, n)) = n
      /\ \A i \in 1 .. n : SubSeq(s, 1, n)[i] = s[i]
  OBVIOUS
<1>2. DOMAIN SubSeq(s, 1, n) = 1 .. n
  BY <1>1
<1>. QED
  BY <1>1, <1>2 DEF ToSet

LEMMA BeginningsOfOne ==
  ASSUME NEW x, NEW n \in 0 .. Len(<<x>>)
  PROVE  ToSet(SubSeq(<<x>>, 1, n)) \in {{}, {x}}
<1>. DEFINE s == <<x>>
<1>1. s \in Seq({x}) /\ Len(s) = 1 /\ s[1] = x
  OBVIOUS
<1>. HIDE DEF s
<1>2. ToSet(SubSeq(s, 1, n)) = {s[i] : i \in 1 .. n}
  BY <1>1, Beginning DEF s
<1>3. n \in {0, 1}
  BY DEF s
<1>4. {s[i] : i \in 1 .. n} \in {{}, {x}}
  BY <1>1, <1>3
<1>. QED
  BY <1>2, <1>4 DEF s

LEMMA BeginningsOfTwo ==
  ASSUME NEW x, NEW y, NEW n \in 0 .. Len(<<x, y>>)
  PROVE  ToSet(SubSeq(<<x, y>>, 1, n)) \in {{}, {x}, {x, y}}
<1>. DEFINE s == <<x, y>>
<1>1. s \in Seq({x, y}) /\ Len(s) = 2 /\ s[1] = x /\ s[2] = y
  OBVIOUS
<1>. HIDE DEF s
<1>2. ToSet(SubSeq(s, 1, n)) = {s[i] : i \in 1 .. n}
  BY <1>1, Beginning DEF s
<1>3. n \in {0, 1, 2}
  BY DEF s
<1>4. {s[i] : i \in 1 .. n} \in {{}, {x}, {x, y}}
  <2>1. CASE n = 0
    BY <2>1
  <2>2. CASE n = 1
    BY <1>1, <2>2
  <2>3. CASE n = 2
    BY <1>1, <2>3
  <2>. QED
    BY <1>3, <2>1, <2>2, <2>3
<1>. QED
  BY <1>2, <1>4 DEF s

LEMMA BeginningsOfThree ==
  ASSUME NEW x, NEW y, NEW z, NEW n \in 0 .. Len(<<x, y, z>>)
  PROVE  ToSet(SubSeq(<<x, y, z>>, 1, n)) \in {{}, {x}, {x, y}, {x, y, z}}
<1>. DEFINE s == <<x, y, z>>
<1>1. /\ s \in Seq({x, y, z}) /\ Len(s) = 3
      /\ s[1] = x /\ s[2] = y /\ s[3] = z
  OBVIOUS
<1>. HIDE DEF s
<1>2. ToSet(SubSeq(s, 1, n)) = {s[i] : i \in 1 .. n}
  BY <1>1, Beginning DEF s
<1>3. n \in {0, 1, 2, 3}
  BY DEF s
<1>4. {s[i] : i \in 1 .. n} \in {{}, {x}, {x, y}, {x, y, z}}
  <2>1. CASE n = 0
    BY <2>1
  <2>2. CASE n = 1
    BY <1>1, <2>2
  <2>3. CASE n = 2
    BY <1>1, <2>3
  <2>4. CASE n = 3
    BY <1>1, <2>4
  <2>. QED
    BY <1>3, <2>1, <2>2, <2>3, <2>4
<1>. QED
  BY <1>2, <1>4 DEF s

\* A function that fails partway holds some of the resources it allocates, in
\* their order.
LEMMA FailsWithNone ==
  ASSUME NEW p, FailsPartway(p, <<>>)
  PROVE  Holding(p, {}) /\ Fail(p, -1) /\ UNCHANGED got
<1>1. SUFFICES ASSUME NEW n \in 0 .. 0
               PROVE  ToSet(SubSeq(<<>>, 1, n)) = {}
  BY EmptySeq DEF FailsPartway
<1>2. <<>> \in Seq({}) /\ n \in 0 .. Len(<<>>)
  OBVIOUS
<1>3. ToSet(SubSeq(<<>>, 1, n)) = {<<>>[i] : i \in 1 .. n}
  BY <1>2, Beginning
<1>. QED
  BY <1>3

LEMMA FailsWithOne ==
  ASSUME NEW p, NEW x, FailsPartway(p, <<x>>)
  PROVE  /\ \E X \in {{}, {x}} : Holding(p, X)
         /\ Fail(p, -1) /\ UNCHANGED got
BY BeginningsOfOne DEF FailsPartway

LEMMA FailsWithTwo ==
  ASSUME NEW p, NEW x, NEW y, FailsPartway(p, <<x, y>>)
  PROVE  /\ \E X \in {{}, {x}, {x, y}} : Holding(p, X)
         /\ Fail(p, -1) /\ UNCHANGED got
BY BeginningsOfTwo DEF FailsPartway

LEMMA FailsWithThree ==
  ASSUME NEW p, NEW x, NEW y, NEW z, FailsPartway(p, <<x, y, z>>)
  PROVE  /\ \E X \in {{}, {x}, {x, y}, {x, y, z}} : Holding(p, X)
         /\ Fail(p, -1) /\ UNCHANGED got
BY BeginningsOfThree DEF FailsPartway

\* The names of all resources.
LEMMA ResourceNames ==
  /\ ToSet(ClientRelease) =
       {"src_buffer", "dst_buffer", "client_metadata_mr", "client_src_mr",
        "client_dst_mr", "server_metadata_mr", "queue_pair",
        "completion_queue", "completion_channel", "protection_domain", "rai",
        "cm_client_id", "cm_event_channel"}
  /\ ToSet(ServerRelease) =
       {"server_buffer", "server_buffer_mr", "server_metadata_mr",
        "client_metadata_mr", "queue_pair", "completion_queue",
        "completion_channel", "protection_domain", "cm_client_id",
        "cm_server_id", "rai", "cm_event_channel"}
  /\ Resources =
       {"src_buffer", "dst_buffer", "client_metadata_mr", "client_src_mr",
        "client_dst_mr", "server_metadata_mr", "queue_pair",
        "completion_queue", "completion_channel", "protection_domain", "rai",
        "cm_client_id", "cm_event_channel", "server_buffer",
        "server_buffer_mr", "cm_server_id", "leaked_buffer",
        "leaked_cm_id"}
<1>1. ToSet(ClientRelease) =
       {"src_buffer", "dst_buffer", "client_metadata_mr", "client_src_mr",
        "client_dst_mr", "server_metadata_mr", "queue_pair",
        "completion_queue", "completion_channel", "protection_domain", "rai",
        "cm_client_id", "cm_event_channel"}
  BY DEF ToSet, ClientRelease
<1>2. ToSet(ServerRelease) =
       {"server_buffer", "server_buffer_mr", "server_metadata_mr",
        "client_metadata_mr", "queue_pair", "completion_queue",
        "completion_channel", "protection_domain", "cm_client_id",
        "cm_server_id", "rai", "cm_event_channel"}
  BY DEF ToSet, ServerRelease
<1>. QED
  BY <1>1, <1>2 DEF Resources, Unreachable

-----------------------------------------------------------------------------
(* TypeOK, part by part; and what makes it inductive.                      *)

ProcTypes ==
  /\ pc \in [Procs -> Locations]
  /\ wait \in [Procs -> {"none", "get_event", "req_notify", "poll",
                          "returned"}]
  /\ got \in [Procs -> Seq(WorkCompletions)]
  /\ ret \in [Procs -> Int]
  /\ held \in [Procs -> SUBSET Resources]

WorkTypes ==
  /\ cq \in [Procs -> Cqs]
  /\ sq \in [Procs -> Seq(Opcodes)]
  /\ sent \in [Procs -> Seq(Opcodes)]
  /\ rq \in [Procs -> Nat]
  /\ qp \in [Procs -> {"none", "reset", "up", "error"}]

DataTypes ==
  /\ meta \in [Procs -> Metadata]
  /\ buf \in [data : Contents, len : Nat]
  /\ dst \in [Clients -> Contents]
  /\ printed \in [Procs -> Contents]

CmTypes ==
  /\ channel \in [Procs -> Seq(CmEvents)]
  /\ cl \in [Clients -> {"idle", "resolving_addr", "resolving_route", "quiet",
                         "connecting", "replied", "connected",
                         "disconnecting", "disconnected", "left", "gone"}]
  /\ sv \in [Clients -> {"none", "requested", "accepted", "connected",
                         "parted", "lost", "closed"}]
  /\ listening \in BOOLEAN
  /\ peer \in Clients \cup {Nobody}
  /\ ub \subseteq {"event_freed_twice", "freed_buffer"}

LEMMA TypeParts ==
  /\ TypeOK <=> ProcTypes /\ WorkTypes /\ DataTypes /\ CmTypes
  /\ TypeOK' <=> ProcTypes' /\ WorkTypes' /\ DataTypes' /\ CmTypes'
<1>1. TypeOK <=> ProcTypes /\ WorkTypes /\ DataTypes /\ CmTypes
  BY DEF TypeOK, ProcTypes, WorkTypes, DataTypes, CmTypes, Cqs
<1>2. TypeOK' <=> ProcTypes' /\ WorkTypes' /\ DataTypes' /\ CmTypes'
  BY DEF TypeOK, ProcTypes, WorkTypes, DataTypes, CmTypes, Cqs
<1>. QED
  BY <1>1, <1>2

\* Where a program waits for completions.  An event that was read there and
\* not acknowledged can be acknowledged.
Awaiting ==
  {"exchange_metadata_with_server", "client_write_message",
   "client_read_message", "exchange_metadata_with_client",
   "send_server_metadata"}

WaitsInCall ==
  \A p \in Procs :
    /\ wait[p] # "none" => pc[p] \in Awaiting
    /\ wait[p] \in {"req_notify", "poll"} => cq[p].unacked > 0

\* The server posts no other request than its SEND: the WRITEs and READs are
\* those of clients.
ServerOnlySends ==
  sq[Server] \in Seq({"SEND"}) /\ sent[Server] \in Seq({"SEND"})

BaseInv == TypeOK /\ WaitsInCall /\ ServerOnlySends

LEMMA InitBaseInv == Init => BaseInv
<1>. SUFFICES ASSUME Init PROVE BaseInv
  OBVIOUS
<1>. USE DEF Init
<1>1. ProcTypes
  <2>1. {"src_buffer"} \subseteq Resources
    BY ResourceNames
  <2>2. pc \in [Procs -> Locations]
    BY DEF Locations
  <2>. QED
    BY <2>1, <2>2 DEF ProcTypes
<1>2. WorkTypes
  <2>1. <<>> \in Seq(Opcodes) /\ 0 \in Nat
    OBVIOUS
  <2>2. NewCq \in Cqs
    BY NewCqType
  <2>3. cq \in [Procs -> Cqs]
    BY <2>2
  <2>. QED
    BY <2>1, <2>3 DEF WorkTypes
<1>3. DataTypes
  BY DEF DataTypes, Contents, Metadata, NoMetadata
<1>4. CmTypes
  <2>1. <<>> \in Seq(CmEvents)
    OBVIOUS
  <2>2. channel \in [Procs -> Seq(CmEvents)]
    BY <2>1
  <2>. QED
    BY <2>2 DEF CmTypes
<1>5. WaitsInCall
  BY DEF WaitsInCall
<1>6. ServerOnlySends
  BY ProcFacts DEF ServerOnlySends
<1>. QED
  BY <1>1, <1>2, <1>3, <1>4, <1>5, <1>6, TypeParts DEF BaseInv


-----------------------------------------------------------------------------
(* What the steps of one process do to its types.                          *)

LEMMA GotoTypes ==
  ASSUME ProcTypes, NEW p \in Procs, NEW l \in Locations, Goto(p, l)
  PROVE  /\ pc' \in [Procs -> Locations] /\ pc'[p] = l
         /\ \A q \in Procs : q # p => pc'[q] = pc[q]
BY DEF ProcTypes, Goto

LEMMA FailTypes ==
  ASSUME ProcTypes, NEW p \in Procs, NEW r \in Int, Fail(p, r)
  PROVE  /\ pc' \in [Procs -> Locations]
         /\ wait' \in [Procs -> {"none", "get_event", "req_notify", "poll",
                                 "returned"}]
         /\ ret' \in [Procs -> Int]
         /\ pc'[p] = IF p = Server THEN "release" ELSE "cleanup"
         /\ wait'[p] = "none" /\ ret'[p] = r
         /\ \A q \in Procs : q # p =>
              pc'[q] = pc[q] /\ wait'[q] = wait[q] /\ ret'[q] = ret[q]
<1>1. "release" \in Locations /\ "cleanup" \in Locations
  BY DEF Locations
<1>. QED
  BY <1>1 DEF ProcTypes, Fail, Goto

LEMMA HoldingTypes ==
  ASSUME ProcTypes, NEW p \in Procs, NEW X \in SUBSET Resources, Holding(p, X)
  PROVE  /\ held' \in [Procs -> SUBSET Resources]
         /\ held'[p] = held[p] \cup X
         /\ \A q \in Procs : q # p => held'[q] = held[q]
BY DEF ProcTypes, Holding

LEMMA AwaitTypes ==
  ASSUME ProcTypes, NEW p \in Procs, AwaitCompletions(p)
  PROVE  /\ wait' \in [Procs -> {"none", "get_event", "req_notify", "poll",
                                 "returned"}]
         /\ got' \in [Procs -> Seq(WorkCompletions)]
         /\ wait'[p] = "get_event" /\ got'[p] = <<>>
         /\ \A q \in Procs : q # p => wait'[q] = wait[q] /\ got'[q] = got[q]
<1>1. <<>> \in Seq(WorkCompletions)
  OBVIOUS
<1>. QED
  BY <1>1 DEF ProcTypes, AwaitCompletions

LEMMA FailsPartwayTypes ==
  ASSUME ProcTypes, NEW p \in Procs, NEW s \in Seq(Resources),
         FailsPartway(p, s)
  PROVE  /\ ProcTypes'
         /\ pc'[p] = IF p = Server THEN "release" ELSE "cleanup"
         /\ wait'[p] = "none" /\ ret'[p] = -1 /\ got' = got
         /\ held[p] \subseteq held'[p]
         /\ \A q \in Procs : q # p =>
              /\ pc'[q] = pc[q] /\ wait'[q] = wait[q] /\ ret'[q] = ret[q]
              /\ held'[q] = held[q]
<1>1. Fail(p, -1) /\ got' = got
  BY DEF FailsPartway
<1>2. PICK n \in 0 .. Len(s) : Holding(p, ToSet(SubSeq(s, 1, n)))
  BY DEF FailsPartway
<1>3. ToSet(SubSeq(s, 1, n)) \in SUBSET Resources
  <2>1. ToSet(SubSeq(s, 1, n)) = {s[i] : i \in 1 .. n}
    BY Beginning
  <2>2. ASSUME NEW i \in 1 .. n PROVE s[i] \in Resources
    <3>1. i \in 1 .. Len(s)
      OBVIOUS
    <3>. QED
      BY <3>1
  <2>. QED
    BY <2>1, <2>2
<1>4. /\ held' \in [Procs -> SUBSET Resources]
      /\ held[p] \subseteq held'[p]
      /\ \A q \in Procs : q # p => held'[q] = held[q]
  BY <1>2, <1>3, HoldingTypes
<1>5. -1 \in Int
  OBVIOUS
<1>6. /\ pc' \in [Procs -> Locations]
      /\ wait' \in [Procs -> {"none", "get_event", "req_notify", "poll",
                              "returned"}]
      /\ ret' \in [Procs -> Int]
      /\ pc'[p] = IF p = Server THEN "release" ELSE "cleanup"
      /\ wait'[p] = "none" /\ ret'[p] = -1
      /\ \A q \in Procs : q # p =>
           pc'[q] = pc[q] /\ wait'[q] = wait[q] /\ ret'[q] = ret[q]
  BY <1>1, <1>5, FailTypes
<1>. QED
  BY <1>1, <1>4, <1>6 DEF ProcTypes

\* A wait of another process, or one that p is not in.
LEMMA WaitsElsewhere ==
  ASSUME WaitsInCall, NEW p \in Procs,
         \A q \in Procs : q # p => pc'[q] = pc[q] /\ wait'[q] = wait[q],
         \A q \in Procs : q # p => cq'[q].unacked = cq[q].unacked,
         \/ wait'[p] = "none"
         \/ wait'[p] = "get_event" /\ pc'[p] \in Awaiting
  PROVE  WaitsInCall'
BY DEF WaitsInCall

\* The posted requests and the queues of the server.
LEMMA OnlySendsUnchanged ==
  ASSUME ServerOnlySends, UNCHANGED <<sq, sent>>
  PROVE  ServerOnlySends'
BY DEF ServerOnlySends

\* ibv_post_send.
LEMMA PostSendTypes ==
  ASSUME WorkTypes, NEW p \in Procs, NEW op \in Opcodes, PostSend(p, op),
         UNCHANGED <<sent, rq, qp>>
  PROVE  /\ WorkTypes'
         /\ \A q \in Procs : cq'[q].unacked = cq[q].unacked
         /\ ServerOnlySends /\ (p = Server => op = "SEND") => ServerOnlySends'
<1>1. <<Wc(op, FALSE)>> \in Seq(WorkCompletions)
  BY WcType
<1>2. CASE qp[p] = "up"
  <2>1. Append(sq[p], op) \in Seq(Opcodes)
    BY DEF WorkTypes
  <2>2. sq' = [sq EXCEPT ![p] = Append(@, op)] /\ cq' = cq
    BY <1>2 DEF PostSend
  <2>3. WorkTypes'
    BY <2>1, <2>2 DEF WorkTypes
  <2>4. ASSUME ServerOnlySends, p = Server => op = "SEND"
        PROVE  ServerOnlySends'
    <3>1. CASE p = Server
      <4>1. Append(sq[Server], "SEND") \in Seq({"SEND"})
        BY <2>4 DEF ServerOnlySends
      <4>. QED
        BY <2>2, <2>4, <3>1, <4>1 DEF ServerOnlySends, WorkTypes
    <3>2. CASE p # Server
      BY <2>2, <2>4, <3>2, ProcFacts DEF ServerOnlySends, WorkTypes
    <3>. QED
      BY <3>1, <3>2
  <2>. QED
    BY <2>2, <2>3, <2>4
<1>3. CASE qp[p] # "up"
  <2>1. /\ cq' = [cq EXCEPT ![p] = Arrive(@, <<Wc(op, FALSE)>>)]
        /\ sq' = sq
    BY <1>3 DEF PostSend
  <2>2. /\ Arrive(cq[p], <<Wc(op, FALSE)>>) \in Cqs
        /\ Arrive(cq[p], <<Wc(op, FALSE)>>).unacked = cq[p].unacked
    BY <1>1, ArriveType DEF WorkTypes
  <2>3. WorkTypes'
    BY <2>1, <2>2 DEF WorkTypes
  <2>. QED
    BY <2>1, <2>2, <2>3 DEF WorkTypes, ServerOnlySends
<1>. QED
  BY <1>2, <1>3

\* Queue pairs that go to the error state.
LEMMA QpsToErrorTypes ==
  ASSUME WorkTypes, NEW ps \in SUBSET Procs, QpsToError(ps)
  PROVE  /\ WorkTypes'
         /\ \A q \in Procs : cq'[q].unacked = cq[q].unacked
         /\ ServerOnlySends => ServerOnlySends'
<1>. DEFINE flushed(q) == Carried(sent[q]) \o Errors(sq[q], rq[q])
<1>1. /\ qp' = [p \in Procs |-> IF p \in ps THEN "error" ELSE qp[p]]
      /\ cq' = [p \in Procs |->
                  IF p \in ps THEN Arrive(cq[p], flushed(p)) ELSE cq[p]]
      /\ sq' = [p \in Procs |-> IF p \in ps THEN <<>> ELSE sq[p]]
      /\ sent' = [p \in Procs |-> IF p \in ps THEN <<>> ELSE sent[p]]
      /\ rq' = [p \in Procs |-> IF p \in ps THEN 0 ELSE rq[p]]
  BY DEF QpsToError, Carried
<1>2. ASSUME NEW q \in Procs
      PROVE  /\ Arrive(cq[q], flushed(q)) \in Cqs
             /\ Arrive(cq[q], flushed(q)).unacked = cq[q].unacked
  <2>1. cq[q] \in Cqs /\ sent[q] \in Seq(Opcodes) /\ sq[q] \in Seq(Opcodes)
        /\ rq[q] \in Nat
    BY DEF WorkTypes
  <2>2. /\ Carried(sent[q]) \in Seq(WorkCompletions)
        /\ Errors(sq[q], rq[q]) \in Seq(WorkCompletions)
    BY <2>1, CarriedType, ErrorsType
  <2>3. flushed(q) \in Seq(WorkCompletions)
    BY <2>2
  <2>. HIDE DEF flushed
  <2>. QED
    BY <2>1, <2>3, ArriveType
<1>. HIDE DEF flushed
<1>3. cq' \in [Procs -> Cqs] /\ \A q \in Procs : cq'[q].unacked = cq[q].unacked
  BY <1>1, <1>2 DEF WorkTypes
<1>4. <<>> \in Seq(Opcodes) /\ <<>> \in Seq({"SEND"}) /\ 0 \in Nat
  OBVIOUS
<1>5. WorkTypes'
  BY <1>1, <1>3, <1>4 DEF WorkTypes
<1>6. ServerOnlySends => ServerOnlySends'
  BY <1>1, <1>4, ProcFacts DEF ServerOnlySends
<1>. QED
  BY <1>3, <1>5, <1>6


LEMMA UnnoticedTypes ==
  ASSUME ProcTypes, NEW p \in Procs, NEW X \in SUBSET Resources,
         NEW l \in Locations, FailsUnnoticed(p, X, l)
  PROVE  /\ ProcTypes' /\ pc'[p] = l /\ wait'[p] = "none"
         /\ held'[p] = held[p] \cup X
         /\ \A q \in Procs : q # p =>
              pc'[q] = pc[q] /\ wait'[q] = wait[q] /\ held'[q] = held[q]
<1>1. Holding(p, X) /\ Goto(p, l)
  BY DEF FailsUnnoticed
<1>2. /\ pc' \in [Procs -> Locations] /\ pc'[p] = l
      /\ \A q \in Procs : q # p => pc'[q] = pc[q]
  BY <1>1, GotoTypes
<1>3. /\ held' \in [Procs -> SUBSET Resources]
      /\ held'[p] = held[p] \cup X
      /\ \A q \in Procs : q # p => held'[q] = held[q]
  BY <1>1, HoldingTypes
<1>. QED
  BY <1>2, <1>3 DEF ProcTypes, FailsUnnoticed

\* Events of the connection manager.
LEMMA TakeEventTypes ==
  ASSUME channel \in [Procs -> Seq(CmEvents)], NEW p \in Procs,
         channel[p] # <<>>, TakeEvent(p)
  PROVE  /\ channel' \in [Procs -> Seq(CmEvents)]
         /\ \A q \in Procs : q # p => channel'[q] = channel[q]
         /\ channel'[p] = Tail(channel[p])
         /\ Head(channel[p]) \in CmEvents
<1>1. channel[p] \in Seq(CmEvents)
  OBVIOUS
<1>2. Tail(channel[p]) \in Seq(CmEvents) /\ Head(channel[p]) \in CmEvents
  BY <1>1
<1>. QED
  BY <1>2 DEF TakeEvent

LEMMA EventTypes ==
  ASSUME NEW c \in Clients,
         NEW t \in {"ADDR_RESOLVED", "ROUTE_RESOLVED", "CONNECT_REQUEST",
                    "ESTABLISHED", "DISCONNECTED", "FAILURE"}
  PROVE  Ok(t, c) \in CmEvents /\ Bad(t, c) \in CmEvents
BY DEF Ok, Bad, CmEvents

LEMMA DeliverTypes ==
  ASSUME channel \in [Procs -> Seq(CmEvents)], NEW p \in Procs,
         NEW e \in CmEvents, Deliver(p, e)
  PROVE  /\ channel' \in [Procs -> Seq(CmEvents)]
         /\ \A q \in Procs : q # p => channel'[q] = channel[q]
         /\ channel'[p] = Append(channel[p], e)
<1>1. Append(channel[p], e) \in Seq(CmEvents)
  OBVIOUS
<1>. QED
  BY <1>1 DEF Deliver

\* One step of process p.
LEMMA StepTypes ==
  ASSUME BaseInv, NEW p \in Procs,
         ProcTypes', WorkTypes', DataTypes', CmTypes', ServerOnlySends',
         \A q \in Procs : q # p =>
           /\ pc'[q] = pc[q] /\ wait'[q] = wait[q]
           /\ cq'[q].unacked = cq[q].unacked,
         \/ wait'[p] = "none"
         \/ wait'[p] = "get_event" /\ pc'[p] \in Awaiting
  PROVE  BaseInv'
<1>1. WaitsInCall'
  BY WaitsElsewhere DEF BaseInv
<1>. QED
  BY <1>1, TypeParts DEF BaseInv

-----------------------------------------------------------------------------
(* The client.                                                             *)

LEMMA ClientSetupTypes ==
  ASSUME BaseInv, NEW c \in Clients,
         \/ setup_protection_domain(c) \/ create_completion_channel(c)
         \/ create_completion_queue(c) \/ setup_queue_pairs(c)
  PROVE  BaseInv'
<1>. USE DEF BaseInv
<1>1. ProcTypes /\ WorkTypes /\ DataTypes /\ CmTypes /\ c \in Procs /\ c # Server
  BY TypeParts, ProcFacts
<1>2. PICK r \in Resources, next \in Locations : AllocatesOrFails(c, r, next)
  BY ResourceNames
  DEF Locations, setup_protection_domain, create_completion_channel,
      create_completion_queue, setup_queue_pairs
<1>3. /\ ProcTypes' /\ wait'[c] \in {wait[c], "none"}
      /\ \A q \in Procs : q # c => pc'[q] = pc[q] /\ wait'[q] = wait[q]
  <2>1. CASE Fail(c, -1) /\ UNCHANGED <<held, got>>
    BY <2>1, <1>1, FailTypes DEF ProcTypes
  <2>2. CASE Holding(c, {r}) /\ Goto(c, next) /\ UNCHANGED <<ret, wait, got>>
    BY <2>2, <1>1, GotoTypes, HoldingTypes DEF ProcTypes
  <2>. QED
    BY <1>2, <2>1, <2>2 DEF AllocatesOrFails
<1>4. pc[c] \notin Awaiting /\ wait[c] = "none"
  BY <1>1
  DEF Awaiting, WaitsInCall, setup_protection_domain,
      create_completion_channel, create_completion_queue, setup_queue_pairs
<1>5. WorkTypes' /\ \A q \in Procs : q # c => cq'[q] = cq[q]
  BY <1>1, NewCqType
  DEF WorkTypes, workVars, setup_protection_domain,
      create_completion_channel, create_completion_queue, setup_queue_pairs
<1>6. UNCHANGED <<dataVars, cmVars, channel, ub, sq, sent>>
  BY DEF workVars, setup_protection_domain, create_completion_channel,
         create_completion_queue, setup_queue_pairs
<1>7. DataTypes' /\ CmTypes'
  BY <1>1, <1>6 DEF DataTypes, CmTypes, dataVars, cmVars
<1>8. WaitsInCall'
  BY <1>1, <1>3, <1>4, <1>5, WaitsElsewhere
<1>. QED
  BY <1>3, <1>5, <1>6, <1>7, <1>8, OnlySendsUnchanged, TypeParts


LEMMA ClientRouteTypes ==
  ASSUME BaseInv, NEW c \in Clients,
         SetupClient(c) \/ AddrResolved(c) \/ RouteResolved(c)
  PROVE  BaseInv'
<1>. USE DEF BaseInv
<1>1. ProcTypes /\ WorkTypes /\ DataTypes /\ CmTypes /\ c \in Procs
  BY TypeParts, ProcFacts
<1>2. pc[c] \notin Awaiting /\ wait[c] = "none"
  BY <1>1 DEF Awaiting, WaitsInCall, SetupClient, AddrResolved, RouteResolved
<1>3. UNCHANGED <<workVars, dataVars, sv, listening, peer, ub>>
  BY DEF SetupClient, AddrResolved, RouteResolved, cmVars
<1>4. WorkTypes' /\ DataTypes' /\ ServerOnlySends'
  BY <1>1, <1>3 DEF WorkTypes, DataTypes, ServerOnlySends, workVars, dataVars
<1>5. channel' \in [Procs -> Seq(CmEvents)]
  <2>1. CASE SetupClient(c)
    BY <1>1, <2>1 DEF CmTypes, SetupClient
  <2>2. CASE AddrResolved(c) \/ RouteResolved(c)
    BY <1>1, <2>2, TakeEventTypes
    DEF CmTypes, AddrResolved, RouteResolved, process_rdma_event
  <2>. QED
    BY <2>1, <2>2
<1>6. CmTypes'
  BY <1>1, <1>3, <1>5
  DEF CmTypes, SetupClient, AddrResolved, RouteResolved, cmVars
<1>7. CASE Fail(c, -1) /\ UNCHANGED <<got, held>>
  <2>1. /\ ProcTypes' /\ wait'[c] = "none"
        /\ \A q \in Procs : q # c => pc'[q] = pc[q] /\ wait'[q] = wait[q]
    <3>1. -1 \in Int
      OBVIOUS
    <3>. QED
      BY <1>1, <1>7, <3>1, FailTypes DEF ProcTypes
  <2>. QED
    BY <1>1, <1>3, <1>4, <1>6, <2>1, StepTypes DEF workVars
<1>8. CASE FailsPartway(c, <<"cm_event_channel", "cm_client_id", "rai">>)
  <2>1. /\ ProcTypes' /\ wait'[c] = "none"
        /\ \A q \in Procs : q # c => pc'[q] = pc[q] /\ wait'[q] = wait[q]
    <3>1. <<"cm_event_channel", "cm_client_id", "rai">> \in Seq(Resources)
      BY ResourceNames
    <3>. QED
      BY <1>1, <1>8, <3>1, FailsPartwayTypes
  <2>. QED
    BY <1>1, <1>3, <1>4, <1>6, <2>1, StepTypes DEF workVars
<1>9. ASSUME NEW X \in SUBSET Resources, NEW l \in Locations, Holding(c, X),
             Goto(c, l), UNCHANGED <<ret, wait, got>>
      PROVE  BaseInv'
  BY <1>1, <1>2, <1>3, <1>4, <1>6, <1>9, GotoTypes, HoldingTypes, StepTypes
  DEF ProcTypes, workVars
<1>10. ASSUME NEW l \in Locations, Goto(c, l), UNCHANGED <<ret, wait, got, held>>
       PROVE  BaseInv'
  BY <1>1, <1>2, <1>3, <1>4, <1>6, <1>10, GotoTypes, StepTypes
  DEF ProcTypes, workVars
<1>11. CASE SetupClient(c)
  <2>1. ToSet(<<"cm_event_channel", "cm_client_id", "rai">>) \in SUBSET Resources
    BY ToSetOfThree, ResourceNames
  <2>2. "addr" \in Locations
    BY DEF Locations
  <2>. QED
    BY <1>8, <1>9, <1>11, <2>1, <2>2 DEF SetupClient
<1>12. CASE AddrResolved(c) \/ RouteResolved(c)
  <2>1. "route" \in Locations /\ "setup_protection_domain" \in Locations
    BY DEF Locations
  <2>. QED
    BY <1>7, <1>10, <1>12, <2>1 DEF AddrResolved, RouteResolved
<1>. QED
  BY <1>11, <1>12

LEMMA ClientConnectTypes ==
  ASSUME BaseInv, NEW c \in Clients,
         ClientPostsRecv(c) \/ connect_to_server(c) \/ ClientEstablished(c)
  PROVE  BaseInv'
<1>. USE DEF BaseInv
<1>1. ProcTypes /\ WorkTypes /\ DataTypes /\ CmTypes /\ c \in Procs
  BY TypeParts, ProcFacts
<1>2. pc[c] \notin Awaiting /\ wait[c] = "none"
  BY <1>1
  DEF Awaiting, WaitsInCall, ClientPostsRecv, connect_to_server,
      ClientEstablished
<1>3. UNCHANGED <<cq, sq, sent, dataVars, sv, listening, peer, ub>>
  BY DEF ClientPostsRecv, connect_to_server, ClientEstablished, cmVars, workVars
<1>4. WorkTypes' /\ DataTypes' /\ ServerOnlySends'
  <2>1. rq' \in [Procs -> Nat]
    <3>1. rq' \in {rq, [rq EXCEPT ![c] = @ + 1]}
      BY DEF workVars, ClientPostsRecv, connect_to_server, ClientEstablished
    <3>2. rq \in [Procs -> Nat] /\ rq[c] + 1 \in Nat
      BY <1>1 DEF WorkTypes
    <3>. QED
      BY <3>1, <3>2
  <2>2. qp' \in [Procs -> {"none", "reset", "up", "error"}]
    BY <1>1
    DEF WorkTypes, workVars, ClientPostsRecv, connect_to_server,
        ClientEstablished
  <2>. QED
    BY <1>1, <1>3, <2>1, <2>2
    DEF WorkTypes, DataTypes, ServerOnlySends, dataVars
<1>5. channel' \in [Procs -> Seq(CmEvents)]
  <2>1. CASE ClientPostsRecv(c) \/ connect_to_server(c)
    BY <1>1, <2>1 DEF CmTypes, ClientPostsRecv, connect_to_server
  <2>2. CASE ClientEstablished(c)
    BY <1>1, <2>2, TakeEventTypes
    DEF CmTypes, ClientEstablished, process_rdma_event
  <2>. QED
    BY <2>1, <2>2
<1>6. CmTypes'
  BY <1>1, <1>3, <1>5
  DEF CmTypes, ClientPostsRecv, connect_to_server, ClientEstablished, cmVars
<1>7. /\ ProcTypes' /\ wait'[c] = "none"
      /\ \A q \in Procs : q # c => pc'[q] = pc[q] /\ wait'[q] = wait[q]
  <2>1. /\ "connect_to_server" \in Locations /\ "established" \in Locations
        /\ "exchange_metadata_with_server" \in Locations
        /\ {"server_metadata_mr"} \in SUBSET Resources
    BY ResourceNames DEF Locations
  <2>2. CASE FailsPartway(c, <<>>) \/ FailsPartway(c, <<"server_metadata_mr">>)
    <3>1. <<>> \in Seq(Resources) /\ <<"server_metadata_mr">> \in Seq(Resources)
      BY ResourceNames
    <3>. QED
      BY <1>1, <2>2, <3>1, FailsPartwayTypes
  <2>3. CASE FailsUnnoticed(c, {"server_metadata_mr"}, "connect_to_server")
    BY <1>1, <2>1, <2>3, UnnoticedTypes
  <2>4. CASE /\ Holding(c, {"server_metadata_mr"})
             /\ Goto(c, "connect_to_server") /\ UNCHANGED <<ret, wait, got>>
    BY <1>1, <1>2, <2>1, <2>4, GotoTypes, HoldingTypes DEF ProcTypes
  <2>5. ASSUME NEW l \in Locations, Goto(c, l),
               UNCHANGED <<ret, wait, got, held>>
        PROVE  /\ ProcTypes' /\ wait'[c] = "none"
               /\ \A q \in Procs : q # c => pc'[q] = pc[q] /\ wait'[q] = wait[q]
    BY <1>1, <1>2, <2>5, GotoTypes DEF ProcTypes
  <2>. QED
    BY <2>1, <2>2, <2>3, <2>4, <2>5
    DEF ClientPostsRecv, connect_to_server, ClientEstablished
<1>. QED
  BY <1>1, <1>3, <1>4, <1>6, <1>7, StepTypes


LEMMA ClientExchangeTypes ==
  ASSUME BaseInv, NEW c \in Clients, exchange_metadata_with_server(c)
  PROVE  BaseInv'
<1>. USE DEF BaseInv
<1>1. /\ ProcTypes /\ WorkTypes /\ DataTypes /\ CmTypes
      /\ c \in Procs /\ c # Server
  BY TypeParts, ProcFacts
<1>2. UNCHANGED <<sent, rq, qp, dataVars, cmVars, channel, ub>>
  BY DEF exchange_metadata_with_server
<1>3. DataTypes' /\ CmTypes'
  BY <1>1, <1>2 DEF DataTypes, CmTypes, dataVars, cmVars
<1>4. {"client_src_mr", "client_metadata_mr"} \in SUBSET Resources
  BY ResourceNames
<1>5. CASE /\ Holding(c, {"client_src_mr", "client_metadata_mr"})
           /\ PostSend(c, "SEND") /\ AwaitCompletions(c) /\ UNCHANGED <<pc, ret>>
  <2>1. pc[c] \in Awaiting
    BY DEF exchange_metadata_with_server, Awaiting
  <2>2. "SEND" \in Opcodes
    BY DEF Opcodes
  <2>3. /\ WorkTypes' /\ ServerOnlySends'
        /\ \A q \in Procs : cq'[q].unacked = cq[q].unacked
    BY <1>1, <1>2, <1>5, <2>2, PostSendTypes
  <2>4. /\ ProcTypes' /\ wait'[c] = "get_event" /\ pc'[c] = pc[c]
        /\ \A q \in Procs : q # c => pc'[q] = pc[q] /\ wait'[q] = wait[q]
    BY <1>1, <1>4, <1>5, AwaitTypes, HoldingTypes DEF ProcTypes
  <2>. QED
    BY <1>1, <1>3, <2>1, <2>3, <2>4, StepTypes
<1>6. ASSUME UNCHANGED <<cq, sq>>, ProcTypes', wait'[c] = "none",
             \A q \in Procs : q # c => pc'[q] = pc[q] /\ wait'[q] = wait[q]
      PROVE  BaseInv'
  <2>1. WorkTypes' /\ ServerOnlySends'
    BY <1>1, <1>2, <1>6 DEF WorkTypes, ServerOnlySends
  <2>. QED
    BY <1>1, <1>3, <1>6, <2>1, StepTypes
<1>7. CASE /\ FailsPartway(c, <<"client_src_mr", "client_metadata_mr">>)
           /\ UNCHANGED <<cq, sq>>
  <2>1. <<"client_src_mr", "client_metadata_mr">> \in Seq(Resources)
    BY ResourceNames
  <2>. QED
    BY <1>1, <1>6, <1>7, <2>1, FailsPartwayTypes
<1>8. CASE Fail(c, -1) /\ UNCHANGED <<got, held, cq, sq>>
  <2>1. -1 \in Int
    OBVIOUS
  <2>. QED
    BY <1>1, <1>6, <1>8, <2>1, FailTypes DEF ProcTypes
<1>9. CASE /\ FailsUnnoticed(c, {"client_src_mr", "client_metadata_mr"},
                             "client_write_message")
           /\ UNCHANGED <<cq, sq>>
  <2>1. "client_write_message" \in Locations
    BY DEF Locations
  <2>. QED
    BY <1>1, <1>4, <1>6, <1>9, <2>1, UnnoticedTypes
<1>. QED
  BY <1>5, <1>7, <1>8, <1>9 DEF exchange_metadata_with_server

\* A WRITE or READ of a client.
LEMMA PostRdmaTypes ==
  ASSUME WorkTypes, ServerOnlySends, NEW c \in Clients,
         NEW op \in {"WRITE", "READ"}, PostRdma(c, op), UNCHANGED <<sent, rq, qp>>
  PROVE  /\ WorkTypes' /\ ServerOnlySends'
         /\ \A q \in Procs : cq'[q].unacked = cq[q].unacked
<1>1. c \in Procs /\ c # Server
  BY ProcFacts
<1>2. PICK o \in Opcodes : PostSend(c, o)
  BY DEF PostRdma, Opcodes
<1>. QED
  BY <1>1, <1>2, PostSendTypes

LEMMA ClientWriteTypes ==
  ASSUME BaseInv, NEW c \in Clients, client_write_message(c)
  PROVE  BaseInv'
<1>. USE DEF BaseInv
<1>1. ProcTypes /\ WorkTypes /\ DataTypes /\ CmTypes /\ c \in Procs
  BY TypeParts, ProcFacts
<1>2. UNCHANGED <<sent, rq, qp, dataVars, cmVars, channel, ub>>
  BY DEF client_write_message
<1>3. DataTypes' /\ CmTypes'
  BY <1>1, <1>2 DEF DataTypes, CmTypes, dataVars, cmVars
<1>4. CASE /\ PostRdma(c, "WRITE") /\ AwaitCompletions(c)
           /\ Goto(c, "client_write_message") /\ UNCHANGED <<ret, held>>
  <2>1. "client_write_message" \in Locations /\ "client_write_message" \in Awaiting
    BY DEF Locations, Awaiting
  <2>2. /\ WorkTypes' /\ ServerOnlySends'
        /\ \A q \in Procs : cq'[q].unacked = cq[q].unacked
    BY <1>1, <1>2, <1>4, PostRdmaTypes
  <2>3. /\ ProcTypes' /\ wait'[c] = "get_event"
        /\ pc'[c] = "client_write_message"
        /\ \A q \in Procs : q # c => pc'[q] = pc[q] /\ wait'[q] = wait[q]
    BY <1>1, <1>4, <2>1, AwaitTypes, GotoTypes DEF ProcTypes
  <2>. QED
    BY <1>1, <1>3, <2>1, <2>2, <2>3, StepTypes
<1>5. ASSUME UNCHANGED <<cq, sq>>, ProcTypes', wait'[c] = "none",
             \A q \in Procs : q # c => pc'[q] = pc[q] /\ wait'[q] = wait[q]
      PROVE  BaseInv'
  <2>1. WorkTypes' /\ ServerOnlySends'
    BY <1>1, <1>2, <1>5 DEF WorkTypes, ServerOnlySends
  <2>. QED
    BY <1>1, <1>3, <1>5, <2>1, StepTypes
<1>6. CASE FailsPartway(c, <<>>) /\ UNCHANGED <<cq, sq>>
  <2>1. <<>> \in Seq(Resources)
    OBVIOUS
  <2>. QED
    BY <1>1, <1>5, <1>6, <2>1, FailsPartwayTypes
<1>7. CASE FailsUnnoticed(c, {}, "client_read_message") /\ UNCHANGED <<cq, sq>>
  <2>1. "client_read_message" \in Locations /\ {} \in SUBSET Resources
    BY DEF Locations
  <2>. QED
    BY <1>1, <1>5, <1>7, <2>1, UnnoticedTypes
<1>. QED
  BY <1>4, <1>6, <1>7 DEF client_write_message

LEMMA ClientReadTypes ==
  ASSUME BaseInv, NEW c \in Clients, client_read_message(c)
  PROVE  BaseInv'
<1>. USE DEF BaseInv
<1>1. ProcTypes /\ WorkTypes /\ DataTypes /\ CmTypes /\ c \in Procs
  BY TypeParts, ProcFacts
<1>2. UNCHANGED <<sent, rq, qp, meta, buf, printed, cmVars, channel, ub>>
  BY DEF client_read_message
<1>3. DataTypes' /\ CmTypes'
  <2>1. dst' \in {dst, [dst EXCEPT ![c] = Zeros]}
    BY DEF client_read_message
  <2>. QED
    BY <1>1, <1>2, <2>1 DEF DataTypes, CmTypes, cmVars, Contents
<1>4. {"dst_buffer", "client_dst_mr"} \in SUBSET Resources
  BY ResourceNames
<1>5. CASE /\ Holding(c, {"dst_buffer", "client_dst_mr"})
           /\ PostRdma(c, "READ") /\ AwaitCompletions(c)
           /\ Goto(c, "client_read_message") /\ UNCHANGED ret
  <2>1. "client_read_message" \in Locations /\ "client_read_message" \in Awaiting
    BY DEF Locations, Awaiting
  <2>2. /\ WorkTypes' /\ ServerOnlySends'
        /\ \A q \in Procs : cq'[q].unacked = cq[q].unacked
    BY <1>1, <1>2, <1>5, PostRdmaTypes
  <2>3. /\ ProcTypes' /\ wait'[c] = "get_event"
        /\ pc'[c] = "client_read_message"
        /\ \A q \in Procs : q # c => pc'[q] = pc[q] /\ wait'[q] = wait[q]
    <3>1. /\ pc' \in [Procs -> Locations] /\ pc'[c] = "client_read_message"
          /\ \A q \in Procs : q # c => pc'[q] = pc[q]
      BY <1>1, <1>5, <2>1, GotoTypes
    <3>2. held' \in [Procs -> SUBSET Resources]
      BY <1>1, <1>4, <1>5, HoldingTypes
    <3>. QED
      BY <1>1, <1>5, <3>1, <3>2, AwaitTypes DEF ProcTypes
  <2>. QED
    BY <1>1, <1>3, <2>1, <2>2, <2>3, StepTypes
<1>6. ASSUME UNCHANGED <<cq, sq>>, ProcTypes', wait'[c] = "none",
             \A q \in Procs : q # c => pc'[q] = pc[q] /\ wait'[q] = wait[q]
      PROVE  BaseInv'
  <2>1. WorkTypes' /\ ServerOnlySends'
    BY <1>1, <1>2, <1>6 DEF WorkTypes, ServerOnlySends
  <2>. QED
    BY <1>1, <1>3, <1>6, <2>1, StepTypes
<1>7. CASE FailsPartway(c, <<"dst_buffer", "client_dst_mr">>)
           /\ UNCHANGED <<cq, sq>>
  <2>1. <<"dst_buffer", "client_dst_mr">> \in Seq(Resources)
    BY ResourceNames
  <2>. QED
    BY <1>1, <1>6, <1>7, <2>1, FailsPartwayTypes
<1>8. ASSUME NEW X \in {{"dst_buffer"}, {"dst_buffer", "client_dst_mr"}},
             NEW r \in Int, Holding(c, X), Fail(c, r), UNCHANGED <<got, cq, sq>>
      PROVE  BaseInv'
  <2>1. X \in SUBSET Resources
    BY ResourceNames
  <2>2. /\ ProcTypes' /\ wait'[c] = "none"
        /\ \A q \in Procs : q # c => pc'[q] = pc[q] /\ wait'[q] = wait[q]
    BY <1>1, <1>8, <2>1, FailTypes, HoldingTypes DEF ProcTypes
  <2>. QED
    BY <1>6, <1>8, <2>2
<1>. QED
  BY <1>5, <1>7, <1>8 DEF client_read_message

LEMMA ReadCompleteTypes ==
  ASSUME BaseInv, NEW c \in Clients, ReadComplete(c)
  PROVE  BaseInv'
<1>. USE DEF BaseInv
<1>1. ProcTypes /\ WorkTypes /\ DataTypes /\ CmTypes /\ c \in Procs
  BY TypeParts, ProcFacts
<1>2. UNCHANGED <<got, held, workVars, meta, buf, dst, cmVars, channel, ub>>
  BY DEF ReadComplete
<1>3. WorkTypes' /\ CmTypes' /\ ServerOnlySends'
  BY <1>1, <1>2 DEF WorkTypes, CmTypes, ServerOnlySends, workVars, cmVars
<1>4. DataTypes'
  BY <1>1, <1>2 DEF DataTypes, ReadComplete
<1>5. ret[c] \in Int /\ Fail(c, ret[c])
  BY <1>1 DEF ProcTypes, ReadComplete
<1>6. /\ ProcTypes' /\ wait'[c] = "none"
      /\ \A q \in Procs : q # c => pc'[q] = pc[q] /\ wait'[q] = wait[q]
  BY <1>1, <1>2, <1>5, FailTypes DEF ProcTypes
<1>. QED
  BY <1>1, <1>2, <1>3, <1>4, <1>6, StepTypes DEF workVars


-----------------------------------------------------------------------------
(* The waits of both programs.                                             *)

\* What such a wait can lose with the event it does not expect.
LEMMA EventFailsHolding ==
  ASSUME ProcTypes, NEW p \in Procs, RdmaEventFails(p)
  PROVE  \/ UNCHANGED held
         \/ /\ channel[p] # <<>> /\ Head(channel[p]).type = "CONNECT_REQUEST"
            /\ Holding(p, {"leaked_cm_id"})
<1>1. CASE UNCHANGED held
  BY <1>1
<1>2. CASE channel[p] # <<>> /\ Holding(p, LostWith(Head(channel[p])))
  <2>1. CASE Head(channel[p]).type = "CONNECT_REQUEST"
    BY <1>2, <2>1 DEF LostWith
  <2>2. CASE Head(channel[p]).type # "CONNECT_REQUEST"
    BY <1>2, <2>2 DEF LostWith, Holding, ProcTypes
  <2>. QED
    BY <2>1, <2>2
<1>. QED
  BY <1>1, <1>2 DEF RdmaEventFails

LEMMA RdmaEventFailsTypes ==
  ASSUME BaseInv, NEW p \in Procs, RdmaEventFails(p)
  PROVE  BaseInv'
<1>. USE DEF BaseInv
<1>1. ProcTypes /\ WorkTypes /\ DataTypes /\ CmTypes
  BY TypeParts
<1>2. UNCHANGED <<got, workVars, dataVars, cmVars, ub>>
  BY DEF RdmaEventFails
<1>7. held' \in [Procs -> SUBSET Resources]
  <2>1. {"leaked_cm_id"} \in SUBSET Resources
    BY ResourceNames
  <2>. QED
    BY <1>1, <2>1, EventFailsHolding, HoldingTypes DEF ProcTypes
<1>3. channel' \in [Procs -> Seq(CmEvents)]
  BY <1>1, TakeEventTypes DEF CmTypes, RdmaEventFails
<1>4. WorkTypes' /\ DataTypes' /\ CmTypes' /\ ServerOnlySends'
  BY <1>1, <1>2, <1>3
  DEF WorkTypes, DataTypes, CmTypes, ServerOnlySends, workVars, dataVars, cmVars
<1>5. -1 \in Int /\ Fail(p, -1)
  BY DEF RdmaEventFails
<1>6. /\ ProcTypes' /\ wait'[p] = "none"
      /\ \A q \in Procs : q # p => pc'[q] = pc[q] /\ wait'[q] = wait[q]
  BY <1>1, <1>2, <1>5, <1>7, FailTypes DEF ProcTypes
<1>. QED
  BY <1>1, <1>2, <1>4, <1>6, StepTypes DEF workVars

\* The steps inside process_work_completion_event.
LEMMA CallTypes ==
  ASSUME BaseInv, NEW p \in Procs, wait[p] # "none",
         UNCHANGED <<pc, held, sq, sent, rq, qp, dataVars, cmVars, channel, ub>>,
         NEW w \in {"get_event", "req_notify", "poll", "returned"},
         NEW g \in Seq(WorkCompletions), NEW r \in Int, NEW q \in Cqs,
         wait' = [wait EXCEPT ![p] = w], got' = [got EXCEPT ![p] = g],
         ret' = [ret EXCEPT ![p] = r], cq' = [cq EXCEPT ![p] = q],
         w \in {"req_notify", "poll"} => q.unacked > 0
  PROVE  BaseInv'
<1>. USE DEF BaseInv
<1>1. ProcTypes /\ WorkTypes /\ DataTypes /\ CmTypes
  BY TypeParts
<1>2. ProcTypes'
  BY <1>1 DEF ProcTypes
<1>3. WorkTypes' /\ DataTypes' /\ CmTypes' /\ ServerOnlySends'
  BY <1>1 DEF WorkTypes, DataTypes, CmTypes, ServerOnlySends, dataVars, cmVars
<1>4. WaitsInCall'
  BY <1>1 DEF WaitsInCall, ProcTypes, WorkTypes
<1>. QED
  BY <1>2, <1>3, <1>4, TypeParts

LEMMA WorkCompletionEventTypes ==
  ASSUME BaseInv, NEW p \in Procs, WorkCompletionEvent(p)
  PROVE  BaseInv'
<1>. USE DEF BaseInv
<1>1. ProcTypes /\ WorkTypes /\ DataTypes /\ CmTypes
  BY TypeParts
<1>2. /\ cq[p] \in Cqs /\ got[p] \in Seq(WorkCompletions) /\ ret[p] \in Int
      /\ wait \in [Procs -> {"none", "get_event", "req_notify", "poll", "returned"}]
      /\ cq = [cq EXCEPT ![p] = cq[p]] /\ got = [got EXCEPT ![p] = got[p]]
      /\ ret = [ret EXCEPT ![p] = ret[p]]
      /\ wait = [wait EXCEPT ![p] = wait[p]]
  BY <1>1 DEF ProcTypes, WorkTypes
<1>3. CASE GetCqEvent(p)
  <2>1. CanGetCqEvent(cq[p])
    BY <1>3 DEF GetCqEvent
  <2>2. /\ ibv_get_cq_event(cq[p]) \in Cqs
        /\ ibv_get_cq_event(cq[p]).unacked > 0
    BY <1>2, <2>1, GetEventType
  <2>3. wait[p] # "none" /\ wait' = [wait EXCEPT ![p] = "req_notify"]
        /\ cq' = [cq EXCEPT ![p] = ibv_get_cq_event(cq[p])]
        /\ UNCHANGED <<pc, got, ret, held, sq, sent, rq, qp, dataVars, cmVars,
                       channel, ub>>
    BY <1>3 DEF GetCqEvent
  <2>. QED
    BY <1>2, <2>2, <2>3, CallTypes
<1>4. CASE ReqNotifyCq(p)
  <2>1. cq[p].unacked > 0
    BY <1>4 DEF WaitsInCall, ReqNotifyCq
  <2>2. /\ ibv_req_notify_cq(cq[p]) \in Cqs
        /\ ibv_req_notify_cq(cq[p]).unacked > 0
    BY <1>2, <2>1, NotifyType
  <2>3. wait[p] # "none" /\ wait' = [wait EXCEPT ![p] = "poll"]
        /\ cq' = [cq EXCEPT ![p] = ibv_req_notify_cq(cq[p])]
        /\ UNCHANGED <<pc, got, ret, held, sq, sent, rq, qp, dataVars, cmVars,
                       channel, ub>>
    BY <1>4 DEF ReqNotifyCq
  <2>. QED
    BY <1>2, <2>2, <2>3, CallTypes
<1>5. CASE PollCq(p)
  <2>1. cq[p].unacked > 0 /\ wait[p] = "poll"
    BY <1>5 DEF WaitsInCall, PollCq
  <2>2. PICK n \in 1 .. Expected(p) - Len(got[p]) :
          LET wcs == got[p] \o Polled(cq[p], n)
              allGood == \A i \in DOMAIN wcs : wcs[i].ok
              rest == ibv_poll_cq(cq[p], n)
          IN  /\ n <= Len(cq[p].wcs)
              /\ got' = [got EXCEPT ![p] = wcs]
              /\ IF Len(wcs) < Expected(p)
                 THEN UNCHANGED <<wait, ret>>
                 ELSE Returned(p, IF allGood THEN Len(wcs) ELSE -1)
              /\ cq' = [cq EXCEPT ![p] =
                          IF Len(wcs) = Expected(p) /\ allGood
                          THEN ibv_ack_cq_events(rest, 1) ELSE rest]
    BY <1>5 DEF PollCq
  <2>. DEFINE wcs == got[p] \o Polled(cq[p], n)
              allGood == \A i \in DOMAIN wcs : wcs[i].ok
              rest == ibv_poll_cq(cq[p], n)
              more == Len(wcs) < Expected(p)
              q == IF Len(wcs) = Expected(p) /\ allGood
                   THEN ibv_ack_cq_events(rest, 1) ELSE rest
              r == IF more THEN ret[p] ELSE IF allGood THEN Len(wcs) ELSE -1
              w == IF more THEN "poll" ELSE "returned"
  <2>3. n \in 1 .. Len(cq[p].wcs) /\ Len(cq[p].wcs) \in Nat
    BY <1>2, <2>2, CqFields
  <2>4. /\ rest \in Cqs /\ rest.unacked = cq[p].unacked
        /\ Polled(cq[p], n) \in Seq(WorkCompletions)
    BY <1>2, <2>3, PollType
  <2>5. wcs \in Seq(WorkCompletions) /\ Len(wcs) \in Nat
    <3>1. /\ got[p] \in Seq(WorkCompletions)
          /\ Polled(cq[p], n) \in Seq(WorkCompletions)
      BY <1>2, <2>4
    <3>2. wcs \in Seq(WorkCompletions)
      BY <3>1, Concat
    <3>. HIDE DEF wcs
    <3>. QED
      BY <3>2
  <2>6. /\ got' = [got EXCEPT ![p] = wcs] /\ cq' = [cq EXCEPT ![p] = q]
        /\ more => UNCHANGED <<wait, ret>>
        /\ ~more => Returned(p, IF allGood THEN Len(wcs) ELSE -1)
    BY <2>2
  <2>7. ibv_ack_cq_events(rest, 1) \in Cqs
    BY <2>1, <2>4, AckType
  <2>8. q \in Cqs /\ r \in Int /\ w \in {"poll", "returned"}
    <3>. HIDE DEF wcs, allGood, rest
    <3>. QED
      BY <1>2, <2>4, <2>5, <2>7
  <2>9. w = "poll" => q.unacked > 0
    <3>1. Expected(p) \in Nat
      BY DEF Expected
    <3>. HIDE DEF wcs, allGood, rest
    <3>. QED
      BY <2>1, <2>4, <2>5, <3>1
  <2>. HIDE DEF wcs, allGood, rest, q
  <2>10. wait' = [wait EXCEPT ![p] = w] /\ ret' = [ret EXCEPT ![p] = r]
    BY <1>2, <2>1, <2>6 DEF Returned
  <2>11. UNCHANGED <<pc, held, sq, sent, rq, qp, dataVars, cmVars, channel, ub>>
    BY <1>5 DEF PollCq
  <2>. HIDE DEF w, r, more
  <2>. QED
    BY <2>1, <2>5, <2>6, <2>8, <2>9, <2>10, <2>11, CallTypes
<1>6. CASE WorkCompletionError(p)
  <2>1. PICK r \in Int : Returned(p, r) /\ wait[p] # "none"
    BY <1>6, PollErrorsAssumption DEF WorkCompletionError
  <2>2. /\ UNCHANGED <<pc, held, sq, sent, rq, qp, dataVars, cmVars, channel, ub>>
        /\ got' = [got EXCEPT ![p] = got[p]] /\ cq' = [cq EXCEPT ![p] = cq[p]]
    BY <1>2, <1>6 DEF WorkCompletionError, workVars
  <2>3. /\ wait' = [wait EXCEPT ![p] = "returned"]
        /\ ret' = [ret EXCEPT ![p] = r]
    BY <2>1 DEF Returned
  <2>4. cq[p] \in Cqs /\ got[p] \in Seq(WorkCompletions)
    BY <1>2
  <2>. QED
    BY <2>1, <2>2, <2>3, <2>4, CallTypes
<1>7. CASE AwaitFailed(p)
  <2>1. /\ UNCHANGED <<got, held, workVars, dataVars, cmVars, channel, ub>>
        /\ Fail(p, ret[p])
    BY <1>7 DEF AwaitFailed
  <2>2. WorkTypes' /\ DataTypes' /\ CmTypes' /\ ServerOnlySends'
    BY <1>1, <2>1
    DEF WorkTypes, DataTypes, CmTypes, ServerOnlySends, workVars, dataVars, cmVars
  <2>3. /\ ProcTypes' /\ wait'[p] = "none"
        /\ \A q \in Procs : q # p => pc'[q] = pc[q] /\ wait'[q] = wait[q]
    BY <1>1, <1>2, <2>1, FailTypes DEF ProcTypes
  <2>. QED
    BY <1>1, <2>1, <2>2, <2>3, StepTypes DEF workVars
<1>. QED
  BY <1>3, <1>4, <1>5, <1>6, <1>7 DEF WorkCompletionEvent

-----------------------------------------------------------------------------
(* Cleanup.                                                                *)

LEMMA ReleasesTypes ==
  ASSUME BaseInv, NEW p \in Procs, NEW r, Releases(p, r), WorkTypes', CmTypes',
         ServerOnlySends',
         \A q \in Procs : q # p => cq'[q].unacked = cq[q].unacked
  PROVE  BaseInv'
<1>. USE DEF BaseInv
<1>1. ProcTypes /\ DataTypes
  BY TypeParts
<1>2. /\ pc[p] = "release" /\ held' = [held EXCEPT ![p] = @ \ {r}]
      /\ UNCHANGED <<pc, wait, got, ret, dataVars>>
  BY DEF Releases
<1>3. wait[p] = "none"
  BY <1>2 DEF WaitsInCall, Awaiting
<1>4. ProcTypes' /\ DataTypes'
  BY <1>1, <1>2 DEF ProcTypes, DataTypes, dataVars
<1>. QED
  BY <1>2, <1>3, <1>4, StepTypes

LEMMA ReleaseStepTypes ==
  ASSUME BaseInv, NEW p \in Procs,
         FreePlain(p) \/ DestroyQp(p) \/ DestroyCq(p) \/ Exit(p)
  PROVE  BaseInv'
<1>. USE DEF BaseInv
<1>1. ProcTypes /\ WorkTypes /\ DataTypes /\ CmTypes
  BY TypeParts
<1>2. UNCHANGED <<cmVars, channel, ub>>
  BY DEF FreePlain, DestroyQp, DestroyCq, Exit, Releases
<1>3. CmTypes'
  BY <1>1, <1>2 DEF CmTypes, cmVars
<1>4. <<>> \in Seq(Opcodes) /\ <<>> \in Seq({"SEND"}) /\ 0 \in Nat
  OBVIOUS
<1>5. CASE FreePlain(p)
  <2>1. PICK r : Releases(p, r)
    BY <1>5 DEF FreePlain
  <2>2. UNCHANGED workVars
    BY <1>5 DEF FreePlain
  <2>3. WorkTypes' /\ ServerOnlySends'
    BY <1>1, <2>2 DEF WorkTypes, ServerOnlySends, workVars
  <2>. QED
    BY <1>3, <2>1, <2>2, <2>3, ReleasesTypes DEF workVars
<1>6. CASE DestroyQp(p)
  <2>1. /\ Releases(p, "queue_pair")
        /\ qp' = [qp EXCEPT ![p] = "none"]
        /\ sq' = [sq EXCEPT ![p] = <<>>] /\ sent' = [sent EXCEPT ![p] = <<>>]
        /\ rq' = [rq EXCEPT ![p] = 0] /\ cq' = [cq EXCEPT ![p].wcs = <<>>]
    BY <1>6 DEF DestroyQp
  <2>2. cq' \in [Procs -> Cqs] /\ \A q \in Procs : q # p => cq'[q] = cq[q]
    <3>1. cq[p] \in Cqs
      BY <1>1 DEF WorkTypes
    <3>2. [cq[p] EXCEPT !.wcs = <<>>] \in Cqs
      BY <3>1, DropType
    <3>3. cq' = [cq EXCEPT ![p] = [cq[p] EXCEPT !.wcs = <<>>]]
      BY <2>1
    <3>. QED
      BY <1>1, <3>2, <3>3 DEF WorkTypes
  <2>3. WorkTypes'
    BY <1>1, <1>4, <2>1, <2>2 DEF WorkTypes
  <2>4. ServerOnlySends'
    BY <1>1, <1>4, <2>1, ProcFacts DEF ServerOnlySends, WorkTypes
  <2>. QED
    BY <1>3, <2>1, <2>2, <2>3, <2>4, ReleasesTypes
<1>7. CASE DestroyCq(p)
  <2>1. /\ Releases(p, "completion_queue") /\ UNCHANGED <<sq, sent, rq, qp>>
        /\ cq' = [cq EXCEPT ![p] = NewCq]
    BY <1>7 DEF DestroyCq
  <2>2. WorkTypes' /\ ServerOnlySends'
    BY <1>1, <2>1, NewCqType DEF WorkTypes, ServerOnlySends
  <2>. QED
    BY <1>1, <1>3, <2>1, <2>2, ReleasesTypes DEF WorkTypes
<1>8. CASE Exit(p)
  <2>1. /\ pc[p] = "release" /\ Goto(p, "exited")
        /\ UNCHANGED <<wait, got, ret, held, workVars, dataVars>>
    BY <1>8 DEF Exit
  <2>2. WorkTypes' /\ ServerOnlySends' /\ DataTypes'
    BY <1>1, <2>1 DEF WorkTypes, ServerOnlySends, DataTypes, workVars, dataVars
  <2>3. wait[p] = "none"
    BY <2>1 DEF WaitsInCall, Awaiting
  <2>4. "exited" \in Locations
    BY DEF Locations
  <2>5. ProcTypes' /\ \A q \in Procs : q # p => pc'[q] = pc[q]
    BY <1>1, <2>1, <2>4, GotoTypes DEF ProcTypes
  <2>. QED
    BY <1>3, <2>1, <2>2, <2>3, <2>5, StepTypes DEF workVars
<1>. QED
  BY <1>5, <1>6, <1>7, <1>8

\* A process that dies.
LEMMA DiesTypes ==
  ASSUME BaseInv, NEW p \in Procs, Goto(p, "killed"), UNCHANGED <<got, ret>>,
         wait' = [wait EXCEPT ![p] = "none"],
         held' = [held EXCEPT ![p] = {}], cq' = [cq EXCEPT ![p] = NewCq],
         sq' = [sq EXCEPT ![p] = <<>>], sent' = [sent EXCEPT ![p] = <<>>],
         rq' = [rq EXCEPT ![p] = 0], qp' = [qp EXCEPT ![p] = "none"],
         DataTypes', CmTypes'
  PROVE  BaseInv'
<1>. USE DEF BaseInv
<1>1. ProcTypes /\ WorkTypes
  BY TypeParts
<1>2. <<>> \in Seq(Opcodes) /\ <<>> \in Seq({"SEND"}) /\ 0 \in Nat
  OBVIOUS
<1>3. WorkTypes' /\ \A q \in Procs : q # p => cq'[q] = cq[q]
  BY <1>1, <1>2, NewCqType DEF WorkTypes
<1>4. ServerOnlySends'
  BY <1>1, <1>2, ProcFacts DEF ServerOnlySends, WorkTypes
<1>5. "killed" \in Locations
  BY DEF Locations
<1>6. pc' \in [Procs -> Locations] /\ \A q \in Procs : q # p => pc'[q] = pc[q]
  BY <1>1, <1>5, GotoTypes
<1>7. /\ ProcTypes' /\ wait'[p] = "none"
      /\ \A q \in Procs : q # p => wait'[q] = wait[q]
  BY <1>1, <1>6 DEF ProcTypes
<1>. QED
  BY <1>3, <1>4, <1>6, <1>7, StepTypes

\* The side of a connection that a process closes.
LEMMA ClosedType ==
  ASSUME CmTypes, NEW c \in Clients, cl' = [cl EXCEPT ![c] = Closed(@)],
         channel' \in [Procs -> Seq(CmEvents)], UNCHANGED <<sv, listening, peer>>,
         ub' \subseteq {"event_freed_twice", "freed_buffer"}
  PROVE  CmTypes'
BY DEF CmTypes, Closed

LEMMA ClientDiesTypes ==
  ASSUME BaseInv, NEW c \in Clients, ClientDies(c), UNCHANGED dataVars,
         ub' \subseteq {"event_freed_twice", "freed_buffer"}
  PROVE  BaseInv'
<1>. USE DEF BaseInv
<1>1. ProcTypes /\ WorkTypes /\ DataTypes /\ CmTypes /\ c \in Procs
  BY TypeParts, ProcFacts
<1>2. DataTypes'
  BY <1>1 DEF DataTypes, dataVars
<1>3. <<>> \in Seq(CmEvents)
  OBVIOUS
<1>4. channel' \in [Procs -> Seq(CmEvents)]
  BY <1>1, <1>3 DEF ClientDies, CmTypes
<1>5. CmTypes'
  BY <1>1, <1>4, ClosedType DEF ClientDies
<1>. QED
  BY <1>1, <1>2, <1>5, DiesTypes DEF ClientDies

LEMMA KillClientTypes ==
  ASSUME BaseInv, NEW c \in Clients, KillClient(c)
  PROVE  BaseInv'
<1>1. ub \subseteq {"event_freed_twice", "freed_buffer"}
  BY TypeParts DEF BaseInv, CmTypes
<1>. QED
  BY <1>1, ClientDiesTypes DEF KillClient

LEMMA DisconnectTypes ==
  ASSUME BaseInv, NEW c \in Clients, Disconnect(c)
  PROVE  BaseInv'
<1>. USE DEF BaseInv
<1>1. ProcTypes /\ WorkTypes /\ DataTypes /\ CmTypes /\ c \in Procs
  BY TypeParts, ProcFacts
<1>2. /\ pc[c] = "cleanup"
      /\ UNCHANGED <<wait, got, ret, held, dataVars, sv, listening, peer,
                     channel, ub>>
  BY DEF Disconnect
<1>3. wait[c] = "none"
  BY <1>1, <1>2 DEF WaitsInCall, Awaiting
<1>4. QpsToError({c}) \/ UNCHANGED workVars
  BY DEF Disconnect
<1>5. /\ WorkTypes' /\ ServerOnlySends'
      /\ \A q \in Procs : cq'[q].unacked = cq[q].unacked
  <2>1. CASE UNCHANGED workVars
    BY <1>1, <2>1 DEF WorkTypes, ServerOnlySends, workVars
  <2>2. CASE QpsToError({c})
    <3>1. {c} \in SUBSET Procs
      BY <1>1
    <3>. QED
      BY <1>1, <2>2, <3>1, QpsToErrorTypes
  <2>. QED
    BY <1>4, <2>1, <2>2
<1>6. CmTypes' /\ DataTypes'
  <2>1. cl' = cl \/ cl' = [cl EXCEPT ![c] =
                             IF @ = "connected" THEN "disconnecting" ELSE @]
    BY DEF Disconnect
  <2>. QED
    BY <1>1, <1>2, <2>1 DEF CmTypes, DataTypes, dataVars
<1>7. PICK l \in Locations : Goto(c, l)
  BY DEF Disconnect, Locations
<1>8. ProcTypes' /\ \A q \in Procs : q # c => pc'[q] = pc[q]
  BY <1>1, <1>2, <1>7, GotoTypes DEF ProcTypes
<1>. QED
  BY <1>1, <1>2, <1>3, <1>5, <1>6, <1>8, StepTypes

LEMMA DisconnectedTypes ==
  ASSUME BaseInv, NEW c \in Clients, Disconnected(c) \/ NoDisconnected(c)
  PROVE  BaseInv'
<1>. USE DEF BaseInv
<1>1. ProcTypes /\ WorkTypes /\ DataTypes /\ CmTypes /\ c \in Procs
  BY TypeParts, ProcFacts
<1>2. UNCHANGED dataVars /\ pc[c] = "disconnected"
  BY DEF Disconnected, NoDisconnected
<1>3. ub' \subseteq {"event_freed_twice", "freed_buffer"}
  BY <1>1 DEF CmTypes, Disconnected, NoDisconnected
<1>4. CASE /\ Goto(c, "release")
           /\ UNCHANGED <<wait, got, ret, held, workVars, sv, listening, peer>>
           /\ \/ UNCHANGED <<channel, cl>>
              \/ /\ channel[c] # <<>> /\ TakeEvent(c)
                 /\ cl' = [cl EXCEPT ![c] = IF @ = "replied" THEN "quiet" ELSE @]
  <2>1. wait[c] = "none"
    BY <1>1, <1>2 DEF WaitsInCall, Awaiting
  <2>2. WorkTypes' /\ ServerOnlySends' /\ DataTypes'
    BY <1>1, <1>2, <1>4
    DEF WorkTypes, ServerOnlySends, DataTypes, workVars, dataVars
  <2>3. channel' \in [Procs -> Seq(CmEvents)]
    BY <1>1, <1>4, TakeEventTypes DEF CmTypes
  <2>4. CmTypes'
    BY <1>1, <1>3, <1>4, <2>3 DEF CmTypes
  <2>5. "release" \in Locations
    BY DEF Locations
  <2>6. ProcTypes' /\ \A q \in Procs : q # c => pc'[q] = pc[q]
    BY <1>1, <1>4, <2>5, GotoTypes DEF ProcTypes
  <2>. QED
    BY <1>1, <1>4, <2>1, <2>2, <2>4, <2>6, StepTypes DEF workVars
<1>5. CASE ClientDies(c)
  BY <1>2, <1>3, <1>5, ClientDiesTypes
<1>. QED
  BY <1>4, <1>5 DEF Disconnected, NoDisconnected, cmVars

LEMMA ClientDestroysTypes ==
  ASSUME BaseInv, NEW c \in Clients,
         ClientDestroysId(c) \/ ClientDestroysChannel(c)
  PROVE  BaseInv'
<1>. USE DEF BaseInv
<1>1. ProcTypes /\ WorkTypes /\ DataTypes /\ CmTypes /\ c \in Procs
  BY TypeParts, ProcFacts
<1>2. PICK r : Releases(c, r)
  BY DEF ClientDestroysId, ClientDestroysChannel
<1>3. UNCHANGED <<workVars, ub, sv, listening, peer>>
  BY <1>2 DEF ClientDestroysId, ClientDestroysChannel, Releases, cmVars
<1>4. WorkTypes' /\ ServerOnlySends'
  BY <1>1, <1>3 DEF WorkTypes, ServerOnlySends, workVars
<1>5. <<>> \in Seq(CmEvents)
  OBVIOUS
<1>6. channel' \in [Procs -> Seq(CmEvents)]
  BY <1>1, <1>5 DEF CmTypes, ClientDestroysId, ClientDestroysChannel
<1>7. CmTypes'
  <2>1. CASE UNCHANGED cl
    BY <1>1, <1>3, <1>6, <2>1 DEF CmTypes
  <2>2. CASE cl' = [cl EXCEPT ![c] = Closed(@)]
    BY <1>1, <1>3, <1>6, <2>2, ClosedType DEF CmTypes
  <2>. QED
    BY <2>1, <2>2 DEF ClientDestroysId, ClientDestroysChannel, cmVars
<1>. QED
  BY <1>1, <1>2, <1>3, <1>4, <1>7, ReleasesTypes DEF workVars

LEMMA ClientStepTypes ==
  ASSUME BaseInv, NEW c \in Clients, ClientStep(c)
  PROVE  BaseInv'
<1>1. c \in Procs
  BY ProcFacts
<1>2. CASE \/ SetupClient(c) \/ AddrResolved(c) \/ RouteResolved(c)
           \/ setup_protection_domain(c) \/ create_completion_channel(c)
           \/ create_completion_queue(c) \/ setup_queue_pairs(c)
           \/ ClientPostsRecv(c) \/ connect_to_server(c) \/ ClientEstablished(c)
  BY <1>2, ClientSetupTypes, ClientRouteTypes, ClientConnectTypes
<1>3. CASE \/ exchange_metadata_with_server(c) \/ client_write_message(c)
           \/ client_read_message(c) \/ ReadComplete(c)
           \/ RdmaEventFails(c) \/ WorkCompletionEvent(c)
  BY <1>1, <1>3, ClientExchangeTypes, ClientWriteTypes, ClientReadTypes,
     ReadCompleteTypes, RdmaEventFailsTypes, WorkCompletionEventTypes
<1>4. CASE cleanup_client(c)
  BY <1>1, <1>4, DisconnectTypes, DisconnectedTypes, ReleaseStepTypes,
     ClientDestroysTypes DEF cleanup_client
<1>. QED
  BY <1>2, <1>3, <1>4 DEF ClientStep

-----------------------------------------------------------------------------
(* The connection manager and the device.                                  *)

LEMMA CmStepTypes ==
  ASSUME BaseInv, NEW c \in Clients, Cm(c)
  PROVE  BaseInv'
<1>. USE DEF BaseInv
<1>1. /\ ProcTypes /\ WorkTypes /\ DataTypes /\ CmTypes
      /\ c \in Procs /\ Server \in Procs
  BY TypeParts, ProcFacts
<1>2. UNCHANGED <<procVars, workVars, dataVars, listening, peer, ub>>
  BY DEF Cm
<1>3. ProcTypes' /\ WorkTypes' /\ DataTypes' /\ WaitsInCall' /\ ServerOnlySends'
  BY <1>1, <1>2
  DEF ProcTypes, WorkTypes, DataTypes, WaitsInCall, ServerOnlySends, procVars,
      workVars, dataVars
<1>4. PICK p \in Procs, e \in CmEvents : Deliver(p, e)
  <2>1. /\ Ok("ADDR_RESOLVED", c) \in CmEvents
        /\ Ok("ROUTE_RESOLVED", c) \in CmEvents
        /\ Ok("CONNECT_REQUEST", c) \in CmEvents
        /\ Ok("ESTABLISHED", c) \in CmEvents
        /\ Ok("DISCONNECTED", c) \in CmEvents
        /\ Bad("FAILURE", c) \in CmEvents
    BY EventTypes
  <2>2. CASE \/ Resolve(c) \/ Refused(c) \/ ReplyArrives(c)
             \/ DisconnectAnswered(c)
    BY <1>1, <2>1, <2>2
    DEF Resolve, Refused, ReplyArrives, DisconnectAnswered
  <2>3. CASE \/ RequestArrives(c) \/ ReadyArrives(c) \/ ReadyNeverArrives(c)
             \/ DisconnectArrives(c)
    BY <1>1, <2>1, <2>3
    DEF RequestArrives, ReadyArrives, ReadyNeverArrives, DisconnectArrives
  <2>. QED
    BY <2>2, <2>3 DEF Cm
<1>5. channel' \in [Procs -> Seq(CmEvents)]
  BY <1>1, <1>4, DeliverTypes DEF CmTypes
<1>6. \/ \E l \in {"quiet", "replied", "disconnected"} : Client(c, l)
      \/ \E l \in {"requested", "connected", "lost", "parted"} : Peer(c, l)
  BY DEF Cm, Resolve, RequestArrives, Refused, ReplyArrives, ReadyArrives,
         ReadyNeverArrives, DisconnectArrives, DisconnectAnswered
<1>7. CmTypes'
  BY <1>1, <1>2, <1>5, <1>6 DEF CmTypes, Client, Peer
<1>. QED
  BY <1>3, <1>7, TypeParts

\* Whose request is the oldest that a process has posted.
LEMMA HeadOfPosted ==
  ASSUME WorkTypes, ServerOnlySends, NEW p \in Procs, sq[p] # <<>>
  PROVE  /\ Head(sq[p]) \in Opcodes /\ Tail(sq[p]) \in Seq(Opcodes)
         /\ p = Server => Head(sq[p]) = "SEND" /\ Tail(sq[p]) \in Seq({"SEND"})
<1>1. sq[p] \in Seq(Opcodes)
  BY DEF WorkTypes
<1>2. Head(sq[p]) \in Opcodes /\ Tail(sq[p]) \in Seq(Opcodes)
  BY <1>1
<1>3. ASSUME p = Server
      PROVE  Head(sq[p]) = "SEND" /\ Tail(sq[p]) \in Seq({"SEND"})
  BY <1>3 DEF ServerOnlySends
<1>. QED
  BY <1>2, <1>3

\* The process at the other end.
LEMMA RemoteType ==
  ASSUME CmTypes, NEW p \in Procs, Linked(p)
  PROVE  /\ Remote(p) \in Procs /\ Remote(p) # p /\ Remote(Remote(p)) = p
         /\ peer \in Clients /\ Linked(Remote(p)) /\ p \in {Server, peer}
         /\ Remote(p) \in {Server, peer}
<1>1. CASE p = Server
  BY <1>1, ProcFacts DEF CmTypes, Linked, Remote
<1>2. CASE p # Server
  BY <1>2, ProcFacts DEF CmTypes, Linked, Remote
<1>. QED
  BY <1>1, <1>2

LEMMA CarryOutTypes ==
  ASSUME BaseInv, NEW p \in Procs, CarryOut(p),
         UNCHANGED <<procVars, cmVars, channel>>
  PROVE  BaseInv'
<1>. USE DEF BaseInv
<1>1. ProcTypes /\ WorkTypes /\ DataTypes /\ CmTypes
  BY TypeParts
<1>2. /\ sq[p] # <<>> /\ Linked(p) /\ UNCHANGED <<qp, printed>>
      /\ sent' = [sent EXCEPT ![p] = Append(@, Head(sq[p]))]
      /\ sq' = [sq EXCEPT ![p] = Tail(@)]
  BY DEF CarryOut, CanCarryOut
<1>3. Remote(p) \in Procs
  BY <1>1, <1>2, RemoteType
<1>4. /\ Head(sq[p]) \in Opcodes /\ Tail(sq[p]) \in Seq(Opcodes)
      /\ p = Server => Head(sq[p]) = "SEND" /\ Tail(sq[p]) \in Seq({"SEND"})
  BY <1>1, <1>2, HeadOfPosted
<1>5. /\ sq' \in [Procs -> Seq(Opcodes)]
      /\ sent' \in [Procs -> Seq(Opcodes)]
  <2>1. Append(sent[p], Head(sq[p])) \in Seq(Opcodes)
    BY <1>1, <1>4 DEF WorkTypes
  <2>. QED
    BY <1>1, <1>2, <1>4, <2>1 DEF WorkTypes
<1>6. ServerOnlySends'
  <2>1. CASE p = Server
    <3>1. Append(sent[Server], "SEND") \in Seq({"SEND"})
      BY DEF ServerOnlySends
    <3>2. /\ sent'[Server] = Append(sent[Server], "SEND")
          /\ sq'[Server] = Tail(sq[Server])
      BY <1>1, <1>2, <1>4, <2>1 DEF WorkTypes
    <3>. QED
      BY <1>4, <2>1, <3>1, <3>2 DEF ServerOnlySends
  <2>2. CASE p # Server
    BY <1>1, <1>2, <2>2, ProcFacts DEF ServerOnlySends, WorkTypes
  <2>. QED
    BY <2>1, <2>2
<1>7. ProcTypes' /\ UNCHANGED <<pc, wait>>
  BY <1>1 DEF ProcTypes, procVars
<1>8. CASE CarryOutSend(p)
  <2>1. /\ meta' = [meta EXCEPT ![Remote(p)] = MetadataOf(p)]
        /\ rq' = [rq EXCEPT ![Remote(p)] = @ - 1]
        /\ cq' = [cq EXCEPT ![Remote(p)] = Arrive(@, <<Wc("RECV", TRUE)>>)]
        /\ UNCHANGED <<buf, dst, ub>>
    BY <1>8 DEF CarryOutSend
  <2>2. rq[Remote(p)] - 1 \in Nat
    BY <1>1, <1>3, <1>8 DEF CarryOut, CanCarryOut, CarryOutSend, WorkTypes
  <2>3. /\ cq' \in [Procs -> Cqs]
        /\ \A q \in Procs : cq'[q].unacked = cq[q].unacked
    <3>1. <<Wc("RECV", TRUE)>> \in Seq(WorkCompletions)
      BY WcType DEF Opcodes
    <3>2. cq[Remote(p)] \in Cqs
      BY <1>1, <1>3 DEF WorkTypes
    <3>3. /\ Arrive(cq[Remote(p)], <<Wc("RECV", TRUE)>>) \in Cqs
          /\ Arrive(cq[Remote(p)], <<Wc("RECV", TRUE)>>).unacked
               = cq[Remote(p)].unacked
      BY <3>1, <3>2, ArriveType
    <3>. QED
      BY <1>1, <1>3, <2>1, <3>3 DEF WorkTypes
  <2>4. WorkTypes'
    BY <1>1, <1>2, <1>3, <1>5, <2>1, <2>2, <2>3 DEF WorkTypes
  <2>5. MetadataOf(p) \in Metadata
    <3>1. buf.len \in Nat
      BY <1>1 DEF DataTypes
    <3>2. p # Server => MsgLen[p] \in Nat
      BY MsgLenAssumption, ProcFacts
    <3>. QED
      BY <3>1, <3>2 DEF MetadataOf, Metadata
  <2>6. DataTypes' /\ CmTypes'
    BY <1>1, <1>2, <1>3, <2>1, <2>5 DEF DataTypes, CmTypes, cmVars
  <2>7. WaitsInCall'
    BY <1>7, <2>3 DEF WaitsInCall
  <2>. QED
    BY <1>6, <1>7, <2>4, <2>6, <2>7, TypeParts
<1>9. CASE CarryOutWrite(p) \/ CarryOutRead(p)
  <2>1. UNCHANGED <<meta, rq, cq>>
    BY <1>9 DEF CarryOutWrite, CarryOutRead
  <2>2. p \in Clients
    BY <1>4, <1>9, ProcFacts DEF CarryOutWrite, CarryOutRead
  <2>3. WorkTypes' /\ WaitsInCall'
    BY <1>1, <1>2, <1>5, <1>7, <2>1 DEF WorkTypes, WaitsInCall
  <2>4. CmTypes'
    BY <1>1, <1>9
    DEF CmTypes, cmVars, CarryOutWrite, CarryOutRead, NoteFreedAccess
  <2>5. DataTypes'
    <3>1. CASE CarryOutWrite(p)
      BY <1>1, <1>2, <2>2, <3>1 DEF DataTypes, CarryOutWrite, Contents
    <3>2. CASE CarryOutRead(p)
      <4>1. PICK data \in Contents : dst' = [dst EXCEPT ![p] = data]
        BY <1>1, <3>2 DEF DataTypes, CarryOutRead, Contents
      <4>. QED
        BY <1>1, <1>2, <2>1, <3>2, <4>1 DEF DataTypes, CarryOutRead
    <3>. QED
      BY <1>9, <3>1, <3>2
  <2>. QED
    BY <1>6, <1>7, <2>3, <2>4, <2>5, TypeParts
<1>. QED
  BY <1>8, <1>9 DEF CarryOut

LEMMA DeviceTypes ==
  ASSUME BaseInv, NEW p \in Procs, Device(p)
  PROVE  BaseInv'
<1>. USE DEF BaseInv
<1>1. ProcTypes /\ WorkTypes /\ DataTypes /\ CmTypes
  BY TypeParts
<1>2. UNCHANGED <<procVars, cmVars, channel>>
  BY DEF Device
<1>3. ProcTypes' /\ UNCHANGED <<pc, wait>>
  BY <1>1, <1>2 DEF ProcTypes, procVars
<1>4. ASSUME UNCHANGED <<dataVars, ub>>, WorkTypes', ServerOnlySends',
             \A q \in Procs : cq'[q].unacked = cq[q].unacked
      PROVE  BaseInv'
  <2>1. DataTypes' /\ CmTypes'
    BY <1>1, <1>2, <1>4 DEF DataTypes, CmTypes, dataVars, cmVars
  <2>2. WaitsInCall'
    BY <1>3, <1>4 DEF WaitsInCall
  <2>. QED
    BY <1>3, <1>4, <2>1, <2>2, TypeParts
<1>5. CASE CarryOut(p)
  BY <1>2, <1>5, CarryOutTypes
<1>6. CASE Completes(p)
  <2>1. /\ sent[p] # <<>> /\ UNCHANGED <<sq, rq, qp, dataVars, ub>>
        /\ cq' = [cq EXCEPT ![p] = Arrive(@, <<Wc(Head(sent[p]), TRUE)>>)]
        /\ sent' = [sent EXCEPT ![p] = Tail(@)]
    BY <1>6 DEF Completes
  <2>2. sent[p] \in Seq(Opcodes) /\ cq[p] \in Cqs
    BY <1>1 DEF WorkTypes
  <2>3. Head(sent[p]) \in Opcodes /\ Tail(sent[p]) \in Seq(Opcodes)
    BY <2>1, <2>2
  <2>4. <<Wc(Head(sent[p]), TRUE)>> \in Seq(WorkCompletions)
    BY <2>3, WcType
  <2>5. /\ Arrive(cq[p], <<Wc(Head(sent[p]), TRUE)>>) \in Cqs
        /\ Arrive(cq[p], <<Wc(Head(sent[p]), TRUE)>>).unacked = cq[p].unacked
    BY <2>2, <2>4, ArriveType
  <2>6. /\ WorkTypes'
        /\ \A q \in Procs : cq'[q].unacked = cq[q].unacked
    BY <1>1, <2>1, <2>3, <2>5 DEF WorkTypes
  <2>7. ServerOnlySends'
    <3>1. p = Server => Tail(sent[p]) \in Seq({"SEND"})
      BY <2>1 DEF ServerOnlySends
    <3>. QED
      BY <1>1, <2>1, <3>1, ProcFacts DEF ServerOnlySends, WorkTypes
  <2>. QED
    BY <1>4, <2>1, <2>6, <2>7
<1>7. CASE CannotCarryOut(p)
  <2>1. sq[p] # <<>> /\ UNCHANGED <<dataVars, ub>>
    BY <1>7 DEF CannotCarryOut
  <2>2. PICK ps \in {{p}, {p, Remote(p)}} :
          QpsToError(ps) /\ (ps = {p} \/ Linked(p))
    BY <1>7 DEF CannotCarryOut
  <2>3. ps \in SUBSET Procs
    BY <1>1, <2>2, RemoteType
  <2>4. /\ WorkTypes' /\ ServerOnlySends'
        /\ \A q \in Procs : cq'[q].unacked = cq[q].unacked
    BY <1>1, <2>2, <2>3, QpsToErrorTypes
  <2>. QED
    BY <1>4, <2>1, <2>4
<1>8. CASE AnswerLost(p)
  <2>1. /\ qp' = [qp EXCEPT ![p] = "error"] /\ UNCHANGED <<dataVars, ub>>
        /\ cq' = [cq EXCEPT ![p] = Arrive(@, Errors(sent[p] \o sq[p], rq[p]))]
        /\ sq' = [sq EXCEPT ![p] = <<>>] /\ sent' = [sent EXCEPT ![p] = <<>>]
        /\ rq' = [rq EXCEPT ![p] = 0]
    BY <1>8 DEF AnswerLost
  <2>2. /\ sent[p] \in Seq(Opcodes) /\ sq[p] \in Seq(Opcodes) /\ cq[p] \in Cqs
        /\ rq[p] \in Nat
    BY <1>1 DEF WorkTypes
  <2>3. sent[p] \o sq[p] \in Seq(Opcodes)
    BY <2>2
  <2>4. Errors(sent[p] \o sq[p], rq[p]) \in Seq(WorkCompletions)
    BY <2>2, <2>3, ErrorsType
  <2>5. /\ Arrive(cq[p], Errors(sent[p] \o sq[p], rq[p])) \in Cqs
        /\ Arrive(cq[p], Errors(sent[p] \o sq[p], rq[p])).unacked
             = cq[p].unacked
    BY <2>2, <2>4, ArriveType
  <2>6. <<>> \in Seq(Opcodes) /\ <<>> \in Seq({"SEND"}) /\ 0 \in Nat
    OBVIOUS
  <2>7. /\ WorkTypes'
        /\ \A q \in Procs : cq'[q].unacked = cq[q].unacked
    BY <1>1, <2>1, <2>5, <2>6 DEF WorkTypes
  <2>8. ServerOnlySends'
    BY <1>1, <2>1, <2>6, ProcFacts DEF ServerOnlySends, WorkTypes
  <2>. QED
    BY <1>4, <2>1, <2>7, <2>8
<1>. QED
  BY <1>5, <1>6, <1>7, <1>8 DEF Device

-----------------------------------------------------------------------------
(* The server.                                                             *)

LEMMA ServerSetupTypes ==
  ASSUME BaseInv,
         SetupServer \/ ConnectRequest \/ ServerPostsRecv
           \/ accept_client_connection
  PROVE  BaseInv'
<1>. USE DEF BaseInv
<1>1. ProcTypes /\ WorkTypes /\ DataTypes /\ CmTypes /\ Server \in Procs
  BY TypeParts, ProcFacts
<1>2. pc[Server] \notin Awaiting /\ wait[Server] = "none"
  BY <1>1
  DEF Awaiting, WaitsInCall, SetupServer, ConnectRequest, ServerPostsRecv,
      accept_client_connection
<1>3. UNCHANGED <<cq, sq, sent, dataVars, cl, ub>>
  BY DEF SetupServer, ConnectRequest, ServerPostsRecv,
         accept_client_connection, workVars, cmVars
<1>4. WorkTypes' /\ DataTypes' /\ ServerOnlySends'
  <2>1. rq' \in [Procs -> Nat]
    <3>1. rq' \in {rq, [rq EXCEPT ![Server] = @ + 1]}
      BY DEF SetupServer, ConnectRequest, ServerPostsRecv,
             accept_client_connection, workVars
    <3>2. rq \in [Procs -> Nat] /\ rq[Server] + 1 \in Nat
      BY <1>1 DEF WorkTypes
    <3>. QED
      BY <3>1, <3>2
  <2>2. qp' \in [Procs -> {"none", "reset", "up", "error"}]
    BY <1>1
    DEF WorkTypes, SetupServer, ConnectRequest, ServerPostsRecv,
        accept_client_connection, workVars
  <2>. QED
    BY <1>1, <1>3, <2>1, <2>2 DEF WorkTypes, DataTypes, ServerOnlySends, dataVars
<1>5. CmTypes'
  <2>1. CASE SetupServer
    BY <1>1, <2>1 DEF CmTypes, SetupServer
  <2>2. CASE ConnectRequest
    <3>1. /\ channel' \in [Procs -> Seq(CmEvents)]
          /\ Head(channel[Server]) \in CmEvents
      BY <1>1, <2>2, TakeEventTypes DEF CmTypes, ConnectRequest, process_rdma_event
    <3>2. peer' \in Clients
      BY <2>2, <3>1 DEF ConnectRequest, CmEvents
    <3>. QED
      BY <1>1, <2>2, <3>1, <3>2 DEF CmTypes, ConnectRequest
  <2>3. CASE ServerPostsRecv
    BY <1>1, <2>3 DEF CmTypes, ServerPostsRecv, cmVars
  <2>4. CASE accept_client_connection
    BY <1>1, <2>4 DEF CmTypes, accept_client_connection
  <2>. QED
    BY <2>1, <2>2, <2>3, <2>4
<1>6. /\ ProcTypes' /\ wait'[Server] = "none"
      /\ \A q \in Procs : q # Server => pc'[q] = pc[q] /\ wait'[q] = wait[q]
  <2>1. /\ "connect_request" \in Locations
        /\ "setup_communication_resources" \in Locations
        /\ "accept_client_connection" \in Locations
        /\ "established" \in Locations
        /\ {"cm_client_id"} \in SUBSET Resources
        /\ {"client_metadata_mr"} \in SUBSET Resources
        /\ ToSet(<<"cm_event_channel", "cm_server_id", "rai">>)
             \in SUBSET Resources
    BY ToSetOfThree, ResourceNames DEF Locations
  <2>2. CASE \/ FailsPartway(Server, <<"cm_event_channel", "cm_server_id", "rai">>)
             \/ FailsPartway(Server, <<"client_metadata_mr">>)
             \/ FailsPartway(Server, <<>>)
    <3>1. /\ <<"cm_event_channel", "cm_server_id", "rai">> \in Seq(Resources)
          /\ <<"client_metadata_mr">> \in Seq(Resources)
      BY ResourceNames
    <3>2. <<>> \in Seq(Resources)
      OBVIOUS
    <3>. QED
      BY <1>1, <2>2, <3>1, <3>2, FailsPartwayTypes
  <2>3. ASSUME NEW l \in Locations, Goto(Server, l),
               UNCHANGED <<ret, wait, got>>,
               \/ UNCHANGED held
               \/ \E X \in SUBSET Resources : Holding(Server, X)
        PROVE  /\ ProcTypes' /\ wait'[Server] = "none"
               /\ \A q \in Procs : q # Server =>
                    pc'[q] = pc[q] /\ wait'[q] = wait[q]
    BY <1>1, <1>2, <2>3, GotoTypes, HoldingTypes DEF ProcTypes
  <2>4. CASE SetupServer
    BY <2>1, <2>2, <2>3, <2>4 DEF SetupServer
  <2>5. CASE ConnectRequest
    BY <2>1, <2>3, <2>5 DEF ConnectRequest
  <2>6. CASE ServerPostsRecv
    BY <2>1, <2>2, <2>3, <2>6 DEF ServerPostsRecv
  <2>7. CASE accept_client_connection
    BY <2>1, <2>2, <2>3, <2>7 DEF accept_client_connection
  <2>. QED
    BY <2>4, <2>5, <2>6, <2>7
<1>. QED
  BY <1>1, <1>3, <1>4, <1>5, <1>6, StepTypes

LEMMA ServerResourcesTypes ==
  ASSUME BaseInv, setup_communication_resources
  PROVE  BaseInv'
<1>. USE DEF BaseInv
<1>. DEFINE resources ==
              <<"protection_domain", "completion_channel", "completion_queue">>
<1>1. ProcTypes /\ WorkTypes /\ DataTypes /\ CmTypes /\ Server \in Procs
  BY TypeParts, ProcFacts
<1>2. /\ pc[Server] = "setup_communication_resources"
      /\ UNCHANGED <<sq, sent, rq, dataVars, cmVars, channel, ub>>
  BY DEF setup_communication_resources
<1>3. wait[Server] = "none"
  BY <1>1, <1>2 DEF Awaiting, WaitsInCall
<1>4. /\ cq' \in {cq, [cq EXCEPT ![Server] = ibv_req_notify_cq(NewCq)]}
      /\ qp' \in {qp, [qp EXCEPT ![Server] = "reset"]}
  BY DEF setup_communication_resources
<1>5. WorkTypes' /\ \A q \in Procs : q # Server => cq'[q] = cq[q]
  BY <1>1, <1>2, <1>4, NewCqType DEF WorkTypes
<1>6. DataTypes' /\ CmTypes' /\ ServerOnlySends'
  BY <1>1, <1>2 DEF DataTypes, CmTypes, ServerOnlySends, dataVars, cmVars
<1>7. /\ "post_metadata_recv_buffer" \in Locations
      /\ ToSet(resources) \in SUBSET Resources
      /\ ToSet(resources) \cup {"queue_pair"} \in SUBSET Resources
      /\ resources \in Seq(Resources)
  BY ToSetOfThree, ResourceNames DEF Locations
<1>8. /\ ProcTypes' /\ wait'[Server] = "none"
      /\ \A q \in Procs : q # Server => pc'[q] = pc[q] /\ wait'[q] = wait[q]
  <2>1. CASE /\ Holding(Server, ToSet(resources) \cup {"queue_pair"})
             /\ Goto(Server, "post_metadata_recv_buffer")
             /\ UNCHANGED <<ret, wait, got>>
    <3>1. held' \in [Procs -> SUBSET Resources]
      BY <1>1, <1>7, <2>1, HoldingTypes
    <3>2. /\ pc' \in [Procs -> Locations]
          /\ \A q \in Procs : q # Server => pc'[q] = pc[q]
      BY <1>1, <1>7, <2>1, GotoTypes
    <3>. QED
      BY <1>1, <1>3, <2>1, <3>1, <3>2 DEF ProcTypes
  <2>2. CASE FailsPartway(Server, resources)
    BY <1>1, <1>7, <2>2, FailsPartwayTypes
  <2>3. CASE FailsUnnoticed(Server, ToSet(resources),
                            "post_metadata_recv_buffer")
    BY <1>1, <1>7, <2>3, UnnoticedTypes
  <2>. QED
    BY <2>1, <2>2, <2>3 DEF setup_communication_resources
<1>. QED
  BY <1>1, <1>5, <1>6, <1>8, StepTypes

LEMMA ServerDiesTypes ==
  ASSUME BaseInv, ServerDies
  PROVE  BaseInv'
<1>. USE DEF BaseInv
<1>1. ProcTypes /\ WorkTypes /\ DataTypes /\ CmTypes /\ Server \in Procs
  BY TypeParts, ProcFacts
<1>2. DataTypes'
  BY <1>1 DEF DataTypes, dataVars, ServerDies
<1>3. <<>> \in Seq(CmEvents)
  OBVIOUS
<1>4. CmTypes'
  BY <1>1, <1>3 DEF CmTypes, ServerDies
<1>. QED
  BY <1>1, <1>2, <1>4, DiesTypes DEF ServerDies

LEMMA ServerNoQpTypes ==
  ASSUME BaseInv, ServerPostsToNoQp
  PROVE  BaseInv'
<1>. USE DEF BaseInv
<1>1. ProcTypes /\ WorkTypes /\ DataTypes /\ CmTypes /\ Server \in Procs
  BY TypeParts, ProcFacts
<1>2. CASE ServerDies
  BY <1>2, ServerDiesTypes
<1>3. CASE /\ Fail(Server, -1)
           /\ UNCHANGED <<got, held, workVars, dataVars, cmVars, channel, ub>>
  <2>1. WorkTypes' /\ DataTypes' /\ CmTypes' /\ ServerOnlySends'
    BY <1>1, <1>3
    DEF WorkTypes, DataTypes, CmTypes, ServerOnlySends, workVars, dataVars,
        cmVars
  <2>2. -1 \in Int
    OBVIOUS
  <2>3. /\ ProcTypes' /\ wait'[Server] = "none"
        /\ \A q \in Procs : q # Server => pc'[q] = pc[q] /\ wait'[q] = wait[q]
    BY <1>1, <1>3, <2>2, FailTypes DEF ProcTypes
  <2>. QED
    BY <1>1, <1>3, <2>1, <2>3, StepTypes DEF workVars
<1>. QED
  BY <1>2, <1>3 DEF ServerPostsToNoQp

LEMMA ServerEstablishedTypes ==
  ASSUME BaseInv, ServerEstablished
  PROVE  BaseInv'
<1>. USE DEF BaseInv
<1>1. ProcTypes /\ WorkTypes /\ DataTypes /\ CmTypes /\ Server \in Procs
  BY TypeParts, ProcFacts
<1>2. /\ process_rdma_event(Server)
      /\ Goto(Server, "exchange_metadata_with_client")
      /\ AwaitCompletions(Server)
      /\ UNCHANGED <<ret, held, workVars, dataVars, cmVars, ub>>
  BY DEF ServerEstablished
<1>3. channel' \in [Procs -> Seq(CmEvents)]
  BY <1>1, <1>2, TakeEventTypes DEF CmTypes, process_rdma_event
<1>4. WorkTypes' /\ DataTypes' /\ CmTypes' /\ ServerOnlySends'
  BY <1>1, <1>2, <1>3
  DEF WorkTypes, DataTypes, CmTypes, ServerOnlySends, workVars, dataVars, cmVars
<1>5. /\ "exchange_metadata_with_client" \in Locations
      /\ "exchange_metadata_with_client" \in Awaiting
  BY DEF Locations, Awaiting
<1>6. /\ ProcTypes' /\ wait'[Server] = "get_event"
      /\ pc'[Server] = "exchange_metadata_with_client"
      /\ \A q \in Procs : q # Server => pc'[q] = pc[q] /\ wait'[q] = wait[q]
  BY <1>1, <1>2, <1>5, AwaitTypes, GotoTypes DEF ProcTypes
<1>. QED
  BY <1>1, <1>2, <1>4, <1>5, <1>6, StepTypes DEF workVars

LEMMA SendMetadataTypes ==
  ASSUME BaseInv, SendServerMetadata
  PROVE  BaseInv'
<1>. USE DEF BaseInv
<1>. DEFINE all == {"server_buffer", "server_buffer_mr", "server_metadata_mr"}
<1>1. ProcTypes /\ WorkTypes /\ DataTypes /\ CmTypes /\ Server \in Procs
  BY TypeParts, ProcFacts
<1>2. UNCHANGED <<sent, rq, qp, meta, dst, printed, cmVars, channel, ub>>
  BY DEF SendServerMetadata
<1>3. CmTypes'
  BY <1>1, <1>2 DEF CmTypes, cmVars
<1>4. DataTypes'
  <2>1. meta[Server].length \in Nat
    BY <1>1 DEF DataTypes, Metadata
  <2>2. buf' \in {buf, [data |-> Zeros, len |-> meta[Server].length]}
    BY DEF SendServerMetadata, NoRdmaBuffer, create_rdma_buffer
  <2>. QED
    BY <1>1, <1>2, <2>1, <2>2 DEF DataTypes, Contents
<1>5. \A X \in SUBSET (all \cup {"leaked_buffer"}) : X \in SUBSET Resources
  BY ResourceNames
<1>6. CASE /\ Holding(Server, all) /\ PostSend(Server, "SEND")
           /\ AwaitCompletions(Server) /\ Goto(Server, "send_server_metadata")
           /\ UNCHANGED ret
  <2>1. /\ "send_server_metadata" \in Locations
        /\ "send_server_metadata" \in Awaiting /\ "SEND" \in Opcodes
    BY DEF Locations, Awaiting, Opcodes
  <2>2. /\ WorkTypes' /\ ServerOnlySends'
        /\ \A q \in Procs : cq'[q].unacked = cq[q].unacked
    BY <1>1, <1>2, <1>6, <2>1, PostSendTypes
  <2>3. /\ pc' \in [Procs -> Locations] /\ pc'[Server] = "send_server_metadata"
        /\ \A q \in Procs : q # Server => pc'[q] = pc[q]
    BY <1>1, <1>6, <2>1, GotoTypes
  <2>4. held' \in [Procs -> SUBSET Resources]
    BY <1>1, <1>5, <1>6, HoldingTypes
  <2>5. /\ ProcTypes' /\ wait'[Server] = "get_event"
        /\ \A q \in Procs : q # Server => wait'[q] = wait[q]
    BY <1>1, <1>6, <2>3, <2>4, AwaitTypes DEF ProcTypes
  <2>. QED
    BY <1>1, <1>3, <1>4, <2>1, <2>2, <2>3, <2>5, StepTypes
<1>7. ASSUME UNCHANGED <<cq, sq>>, ProcTypes', wait'[Server] = "none",
             \A q \in Procs : q # Server =>
               pc'[q] = pc[q] /\ wait'[q] = wait[q]
      PROVE  BaseInv'
  <2>1. WorkTypes' /\ ServerOnlySends'
    BY <1>1, <1>2, <1>7 DEF WorkTypes, ServerOnlySends
  <2>. QED
    BY <1>1, <1>3, <1>4, <1>7, <2>1, StepTypes
<1>8. ASSUME NEW X \in SUBSET (all \cup {"leaked_buffer"}), Holding(Server, X),
             Fail(Server, -1), UNCHANGED <<got, cq, sq>>
      PROVE  BaseInv'
  <2>1. -1 \in Int /\ X \in SUBSET Resources
    BY <1>5
  <2>2. /\ ProcTypes' /\ wait'[Server] = "none"
        /\ \A q \in Procs : q # Server => pc'[q] = pc[q] /\ wait'[q] = wait[q]
    BY <1>1, <1>8, <2>1, FailTypes, HoldingTypes DEF ProcTypes
  <2>. QED
    BY <1>7, <1>8, <2>2
<1>9. CASE /\ FailsUnnoticed(Server, all, "disconnect_from_client")
           /\ UNCHANGED <<cq, sq>>
  <2>1. "disconnect_from_client" \in Locations /\ all \in SUBSET Resources
    BY <1>5 DEF Locations
  <2>. QED
    BY <1>1, <1>7, <1>9, <2>1, UnnoticedTypes
<1>10. CASE /\ NoRdmaBuffer(meta[Server].length) /\ Fail(Server, -1)
            /\ UNCHANGED <<got, cq, sq>>
  <2>1. PICK lost \in {{}, {"leaked_buffer"}} : Holding(Server, lost)
    BY <1>10 DEF NoRdmaBuffer
  <2>. QED
    BY <1>8, <1>10, <2>1
<1>11. CASE \E region \in {{}, {"server_metadata_mr"}} :
              /\ Holding(Server, {"server_buffer", "server_buffer_mr"} \cup region)
              /\ Fail(Server, -1)
              /\ UNCHANGED <<got, cq, sq>>
  <2>1. PICK region \in {{}, {"server_metadata_mr"}} :
          /\ Holding(Server, {"server_buffer", "server_buffer_mr"} \cup region)
          /\ Fail(Server, -1)
          /\ UNCHANGED <<got, cq, sq>>
    BY <1>11
  <2>2. {"server_buffer", "server_buffer_mr"} \cup region
          \in SUBSET (all \cup {"leaked_buffer"})
    OBVIOUS
  <2>. QED
    BY <1>8, <2>1, <2>2
<1>. QED
  BY <1>6, <1>9, <1>10, <1>11 DEF SendServerMetadata

LEMMA ServerWaitsTypes ==
  ASSUME BaseInv, ServerMetadataSent \/ disconnect_from_client
  PROVE  BaseInv'
<1>. USE DEF BaseInv
<1>1. ProcTypes /\ WorkTypes /\ DataTypes /\ CmTypes /\ Server \in Procs
  BY TypeParts, ProcFacts
<1>2. UNCHANGED <<got, held, workVars, meta, buf, dst, cmVars, ub>>
  BY DEF ServerMetadataSent, disconnect_from_client, dataVars
<1>3. WorkTypes' /\ ServerOnlySends'
  BY <1>1, <1>2 DEF WorkTypes, ServerOnlySends, workVars
<1>4. CASE ServerMetadataSent
  <2>1. DataTypes' /\ CmTypes'
    BY <1>1, <1>2, <1>4
    DEF DataTypes, CmTypes, ServerMetadataSent, dataVars, cmVars
  <2>2. "disconnect_from_client" \in Locations
    BY DEF Locations
  <2>3. /\ ProcTypes' /\ wait'[Server] = "none"
        /\ \A q \in Procs : q # Server => pc'[q] = pc[q] /\ wait'[q] = wait[q]
    BY <1>1, <1>4, <2>2, GotoTypes DEF ProcTypes, ServerMetadataSent
  <2>. QED
    BY <1>1, <1>2, <1>3, <2>1, <2>3, StepTypes DEF workVars
<1>5. CASE disconnect_from_client
  <2>1. channel' \in [Procs -> Seq(CmEvents)]
    BY <1>1, <1>5, TakeEventTypes
    DEF CmTypes, disconnect_from_client, process_rdma_event
  <2>2. DataTypes' /\ CmTypes'
    BY <1>1, <1>2, <1>5, <2>1 DEF DataTypes, CmTypes, disconnect_from_client, cmVars
  <2>3. "release" \in Locations
    BY DEF Locations
  <2>4. wait[Server] = "none"
    BY <1>1, <1>5 DEF WaitsInCall, Awaiting, disconnect_from_client
  <2>5. /\ ProcTypes' /\ wait'[Server] = "none"
        /\ \A q \in Procs : q # Server => pc'[q] = pc[q] /\ wait'[q] = wait[q]
    BY <1>1, <1>5, <2>3, <2>4, GotoTypes DEF ProcTypes, disconnect_from_client
  <2>. QED
    BY <1>1, <1>2, <1>3, <2>2, <2>5, StepTypes DEF workVars
<1>. QED
  BY <1>4, <1>5

LEMMA ServerDestroysTypes ==
  ASSUME BaseInv,
         ServerDestroysClientId \/ ServerDestroysServerId
           \/ ServerDestroysChannel
  PROVE  BaseInv'
<1>. USE DEF BaseInv
<1>1. ProcTypes /\ WorkTypes /\ DataTypes /\ CmTypes /\ Server \in Procs
  BY TypeParts, ProcFacts
<1>2. PICK r : Releases(Server, r)
  BY DEF ServerDestroysClientId, ServerDestroysServerId, ServerDestroysChannel
<1>3. UNCHANGED <<workVars, ub, cl, peer>>
  BY <1>2
  DEF ServerDestroysClientId, ServerDestroysServerId, ServerDestroysChannel,
      Releases
<1>4. WorkTypes' /\ ServerOnlySends'
  BY <1>1, <1>3 DEF WorkTypes, ServerOnlySends, workVars
<1>5. <<>> \in Seq(CmEvents)
  OBVIOUS
<1>6. CmTypes'
  BY <1>1, <1>3, <1>5
  DEF CmTypes, ServerDestroysClientId, ServerDestroysServerId,
      ServerDestroysChannel, RefuseRequests
<1>. QED
  BY <1>1, <1>2, <1>3, <1>4, <1>6, ReleasesTypes DEF workVars

LEMMA ServerStepTypes ==
  ASSUME BaseInv, ServerStep \/ KillServer
  PROVE  BaseInv'
<1>1. Server \in Procs
  BY ProcFacts
<1>2. CASE \/ SetupServer \/ ConnectRequest \/ setup_communication_resources
           \/ ServerPostsRecv \/ ServerPostsToNoQp \/ accept_client_connection
           \/ KillServer
  BY <1>2, ServerSetupTypes, ServerResourcesTypes, ServerNoQpTypes,
     ServerDiesTypes
  DEF KillServer
<1>3. CASE \/ ServerEstablished \/ SendServerMetadata \/ ServerMetadataSent
           \/ disconnect_from_client \/ RdmaEventFails(Server)
           \/ WorkCompletionEvent(Server)
  BY <1>1, <1>3, ServerEstablishedTypes, SendMetadataTypes, ServerWaitsTypes,
     RdmaEventFailsTypes, WorkCompletionEventTypes
<1>4. CASE cleanup_server
  BY <1>1, <1>4, ReleaseStepTypes, ServerDestroysTypes DEF cleanup_server
<1>. QED
  BY <1>2, <1>3, <1>4 DEF ServerStep

LEMMA NextBaseInv == BaseInv /\ [Next]_vars => BaseInv'
<1>. SUFFICES ASSUME BaseInv, [Next]_vars PROVE BaseInv'
  OBVIOUS
<1>1. CASE UNCHANGED vars
  <2>1. /\ UNCHANGED <<pc, wait, got, ret, held, cq, sq, sent, rq, qp>>
        /\ UNCHANGED <<meta, buf, dst, printed, cl, sv, listening, peer>>
        /\ UNCHANGED <<channel, ub>>
    BY <1>1 DEF vars, procVars, workVars, dataVars, cmVars
  <2>2. TypeOK'
    BY <2>1 DEF BaseInv, TypeOK
  <2>. QED
    BY <2>1, <2>2 DEF BaseInv, WaitsInCall, ServerOnlySends
<1>2. CASE \E c \in Clients : ClientStep(c) \/ KillClient(c) \/ Cm(c)
  BY <1>2, ClientStepTypes, KillClientTypes, CmStepTypes
<1>3. CASE ServerStep \/ KillServer
  BY <1>3, ServerStepTypes
<1>4. CASE \E p \in Procs : Device(p)
  BY <1>4, DeviceTypes
<1>. QED
  BY <1>1, <1>2, <1>3, <1>4 DEF Next, Terminated

-----------------------------------------------------------------------------
(* The requests for a connection are events of the server's channel alone. *)

ClientEvent == {e \in CmEvents : e.type # "CONNECT_REQUEST"}

ClientEvents == \A c \in Clients : channel[c] \in Seq(ClientEvent)

TypeInv == TypeOK /\ WaitsInCall /\ ServerOnlySends /\ ClientEvents

\* What a program does to its channel.
Reads(p) ==
  \/ UNCHANGED channel
  \/ channel[p] # <<>> /\ TakeEvent(p)
  \/ channel' = [channel EXCEPT ![p] = <<>>]

LEMMA ClientReads ==
  ASSUME NEW c \in Clients, ClientStep(c) \/ KillClient(c)
  PROVE  Reads(c)
<1>1. CASE \/ SetupClient(c) \/ AddrResolved(c) \/ RouteResolved(c)
           \/ setup_protection_domain(c) \/ create_completion_channel(c)
           \/ create_completion_queue(c) \/ setup_queue_pairs(c)
           \/ ClientPostsRecv(c) \/ connect_to_server(c) \/ ClientEstablished(c)
  BY <1>1
  DEF Reads, SetupClient, AddrResolved, RouteResolved, setup_protection_domain,
      create_completion_channel, create_completion_queue, setup_queue_pairs,
      ClientPostsRecv, connect_to_server, ClientEstablished, process_rdma_event
<1>2. CASE \/ exchange_metadata_with_server(c) \/ client_write_message(c)
           \/ client_read_message(c) \/ ReadComplete(c)
           \/ RdmaEventFails(c) \/ WorkCompletionEvent(c)
  BY <1>2
  DEF Reads, exchange_metadata_with_server, client_write_message,
      client_read_message, ReadComplete, RdmaEventFails, WorkCompletionEvent,
      GetCqEvent, ReqNotifyCq, PollCq, WorkCompletionError, AwaitFailed
<1>3. CASE cleanup_client(c) \/ KillClient(c)
  BY <1>3
  DEF Reads, cleanup_client, Disconnect, Disconnected, NoDisconnected,
      FreePlain, DestroyQp, DestroyCq, ClientDestroysId, ClientDestroysChannel,
      Exit, KillClient, ClientDies
<1>. QED
  BY <1>1, <1>2, <1>3 DEF ClientStep

LEMMA ServerReads ==
  ASSUME ServerStep \/ KillServer
  PROVE  Reads(Server)
<1>1. CASE \/ SetupServer \/ ConnectRequest \/ setup_communication_resources
           \/ ServerPostsRecv \/ ServerPostsToNoQp \/ accept_client_connection
           \/ ServerEstablished \/ KillServer
  BY <1>1
  DEF Reads, SetupServer, ConnectRequest, setup_communication_resources,
      ServerPostsRecv, ServerPostsToNoQp, accept_client_connection,
      ServerEstablished, KillServer, ServerDies, process_rdma_event
<1>2. CASE \/ SendServerMetadata \/ ServerMetadataSent
           \/ disconnect_from_client \/ RdmaEventFails(Server)
           \/ WorkCompletionEvent(Server)
  BY <1>2
  DEF Reads, SendServerMetadata, ServerMetadataSent, disconnect_from_client,
      process_rdma_event, RdmaEventFails, WorkCompletionEvent, GetCqEvent,
      ReqNotifyCq, PollCq, WorkCompletionError, AwaitFailed
<1>3. CASE cleanup_server
  BY <1>3
  DEF Reads, cleanup_server, FreePlain, DestroyQp, DestroyCq, Exit,
      ServerDestroysClientId, ServerDestroysServerId, ServerDestroysChannel
<1>. QED
  BY <1>1, <1>2, <1>3 DEF ServerStep

LEMMA ReadsClientEvents ==
  ASSUME BaseInv, ClientEvents, NEW p \in Procs, Reads(p)
  PROVE  ClientEvents'
<1>. SUFFICES ASSUME NEW c \in Clients PROVE channel'[c] \in Seq(ClientEvent)
  BY DEF ClientEvents
<1>1. c \in Procs /\ DOMAIN channel = Procs /\ channel[c] \in Seq(ClientEvent)
  BY TypeParts, ProcFacts DEF BaseInv, CmTypes, ClientEvents
<1>2. \/ channel'[c] \in {channel[c], <<>>}
      \/ channel[c] # <<>> /\ channel'[c] = Tail(channel[c])
  BY <1>1, TypeParts DEF BaseInv, CmTypes, Reads, TakeEvent
<1>3. channel[c] # <<>> => Tail(channel[c]) \in Seq(ClientEvent)
  BY <1>1
<1>4. <<>> \in Seq(ClientEvent)
  OBVIOUS
<1>. QED
  BY <1>1, <1>2, <1>3, <1>4

LEMMA CmClientEvents ==
  ASSUME BaseInv, ClientEvents, NEW c \in Clients, Cm(c)
  PROVE  ClientEvents'
<1>1. /\ c \in Procs /\ Server \in Procs /\ c # Server
      /\ channel \in [Procs -> Seq(CmEvents)]
  BY TypeParts, ProcFacts DEF BaseInv, CmTypes
<1>2. PICK e \in CmEvents : Deliver(Server, e) \/ (e \in ClientEvent /\ Deliver(c, e))
  BY EventTypes
  DEF Cm, Resolve, RequestArrives, Refused, ReplyArrives, ReadyArrives,
      ReadyNeverArrives, DisconnectArrives, DisconnectAnswered, Ok, Bad,
      CmEvents, ClientEvent
<1>. SUFFICES ASSUME NEW d \in Clients PROVE channel'[d] \in Seq(ClientEvent)
  BY DEF ClientEvents
<1>3. d \in Procs /\ d # Server /\ channel[d] \in Seq(ClientEvent)
  BY ProcFacts DEF ClientEvents
<1>4. \/ channel'[d] = channel[d]
      \/ e \in ClientEvent /\ channel'[d] = Append(channel[d], e)
  BY <1>1, <1>2, <1>3 DEF Deliver
<1>. QED
  BY <1>3, <1>4

\* So a client loses nothing with an event it does not expect.
LEMMA ClientEventFails ==
  ASSUME TypeInv, NEW c \in Clients, RdmaEventFails(c)
  PROVE  UNCHANGED held
<1>1. BaseInv /\ c \in Procs
  BY ProcFacts DEF TypeInv, BaseInv
<1>2. channel[c] # <<>> => Head(channel[c]) \in ClientEvent
  BY DEF TypeInv, ClientEvents
<1>3. channel[c] # <<>> => Head(channel[c]).type # "CONNECT_REQUEST"
  BY <1>2 DEF ClientEvent
<1>. QED
  BY <1>1, <1>3, EventFailsHolding, TypeParts DEF BaseInv

-----------------------------------------------------------------------------
(* The theorems.                                                           *)

LEMMA InitTypeInv == Init => TypeInv
<1>. SUFFICES ASSUME Init PROVE TypeInv
  OBVIOUS
<1>1. \A c \in Clients : channel[c] = <<>>
  BY ProcFacts DEF Init
<1>2. <<>> \in Seq(ClientEvent)
  OBVIOUS
<1>. QED
  BY <1>1, <1>2, InitBaseInv DEF TypeInv, BaseInv, ClientEvents

LEMMA NextTypeInv == TypeInv /\ [Next]_vars => TypeInv'
<1>. SUFFICES ASSUME TypeInv, [Next]_vars PROVE TypeInv'
  OBVIOUS
<1>1. BaseInv /\ ClientEvents /\ Server \in Procs
  BY ProcFacts DEF TypeInv, BaseInv
<1>2. BaseInv'
  BY <1>1, NextBaseInv
<1>3. ClientEvents'
  <2>1. CASE UNCHANGED channel
    BY <1>1, <2>1 DEF ClientEvents
  <2>2. CASE \E c \in Clients : ClientStep(c) \/ KillClient(c)
    BY <1>1, <2>2, ClientReads, ReadsClientEvents, ProcFacts
  <2>3. CASE \E c \in Clients : Cm(c)
    BY <1>1, <2>3, CmClientEvents
  <2>4. CASE ServerStep \/ KillServer
    BY <1>1, <2>4, ServerReads, ReadsClientEvents
  <2>5. CASE \E p \in Procs : Device(p)
    BY <2>1, <2>5 DEF Device
  <2>6. CASE UNCHANGED vars
    BY <2>1, <2>6 DEF vars
  <2>. QED
    BY <2>2, <2>3, <2>4, <2>5, <2>6 DEF Next, Terminated
<1>. QED
  BY <1>2, <1>3 DEF TypeInv, BaseInv

\* Every variable keeps its type, a program is inside a wait only in a function
\* that waits, the server posts nothing but SENDs, and no client is asked for a
\* connection.
THEOREM TypeInvCorrect == Spec => []TypeInv
BY InitTypeInv, NextTypeInv, PTL DEF Spec

\* Every variable keeps its type, for any number of clients and any faults: in
\* particular no receive is used twice, and no event is acknowledged that was
\* not read.
THEOREM SessionTypeCorrect == Spec => []TypeOK
<1>1. TypeInv => TypeOK
  BY DEF TypeInv
<1>. QED
  BY <1>1, TypeInvCorrect, PTL
=============================================================================
