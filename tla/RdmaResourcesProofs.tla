------------------------ MODULE RdmaResourcesProofs -------------------------
(***************************************************************************)
(* What the programs hold: no object goes before those made from it, no    *)
(* region is given back while a request that points to it is posted, and a *)
(* program that ends has given back all that it can still reach.           *)
(***************************************************************************)
EXTENDS RdmaTypesProofs

-----------------------------------------------------------------------------
(* What one process holds at a location l, with w where it is inside a     *)
(* wait, h what it holds, s its posted sends and n its posted receives.    *)

\* What h holds within reach has with it what it is made from.
Deps(h) ==
  \A r \in (h \ Unreachable) \cap DOMAIN MadeFrom : MadeFrom[r] \subseteq h

\* What the next functions of main will need.
ClientNeeds(l, w, h) ==
  /\ l \in {"addr", "route", "setup_protection_domain",
            "create_completion_channel", "create_completion_queue",
            "setup_queue_pairs"} =>
       "cm_event_channel" \in h /\ "cm_client_id" \in h
  /\ l \in {"create_completion_channel", "create_completion_queue",
            "setup_queue_pairs", "post_metadata_recv_buffer",
            "connect_to_server", "established",
            "exchange_metadata_with_server", "client_write_message",
            "client_read_message"} => "protection_domain" \in h
  /\ l \in {"create_completion_queue", "setup_queue_pairs"} =>
       "completion_channel" \in h
  /\ l = "setup_queue_pairs" => "completion_queue" \in h
  /\ l \in {"post_metadata_recv_buffer", "connect_to_server", "established",
            "exchange_metadata_with_server", "client_write_message",
            "client_read_message"} => "queue_pair" \in h
  /\ (l = "exchange_metadata_with_server" /\ w # "none")
       \/ l \in {"client_write_message", "client_read_message"} =>
       "client_src_mr" \in h /\ "client_metadata_mr" \in h

ServerNeeds(l, h) ==
  /\ l \in {"connect_request", "setup_communication_resources"} =>
       "cm_event_channel" \in h
  /\ l = "setup_communication_resources" => "cm_client_id" \in h
  /\ l \in {"post_metadata_recv_buffer", "accept_client_connection",
            "established", "exchange_metadata_with_client",
            "send_server_metadata"} => "protection_domain" \in h

\* The regions of what is posted; and when nothing is.
Posted(h, s, n) ==
  /\ n > 0 => "server_metadata_mr" \in h
  /\ "SEND" \in ToSet(s) => "client_metadata_mr" \in h
  /\ "WRITE" \in ToSet(s) => "client_src_mr" \in h
  /\ "READ" \in ToSet(s) => "client_dst_mr" \in h

Quiet == {"disconnected", "release", "exited", "killed"}

NonePosted(l, h, s, n) ==
  "queue_pair" \notin h \/ l \in Quiet => s = <<>> /\ n = 0

ClientHolds(l, w, h, s, n) ==
  /\ Deps(h) /\ ClientNeeds(l, w, h)
  /\ Posted(h, s, n) /\ NonePosted(l, h, s, n)
  /\ h \subseteq ToSet(ClientRelease)

ServerHolds(l, h) ==
  /\ Deps(h) /\ ServerNeeds(l, h)
  /\ h \subseteq ToSet(ServerRelease) \cup Unreachable

\* After release, what is left is out of the program's reach.
Ended(l, h) == l = "exited" => h \subseteq Unreachable

ResourcesInv ==
  /\ \A c \in Clients : ClientHolds(pc[c], wait[c], held[c], sq[c], rq[c])
  /\ ServerHolds(pc[Server], held[Server])
  /\ \A p \in Procs : Ended(pc[p], held[p])

-----------------------------------------------------------------------------
(* Facts about what is held. *)

\* MadeFrom, object by object.
LEMMA DepsList ==
  ASSUME NEW h
  PROVE  Deps(h) <=>
           /\ "queue_pair" \in h =>
                /\ "protection_domain" \in h /\ "completion_queue" \in h
                /\ "cm_client_id" \in h
           /\ "completion_queue" \in h => "completion_channel" \in h
           /\ "client_metadata_mr" \in h => "protection_domain" \in h
           /\ "server_metadata_mr" \in h => "protection_domain" \in h
           /\ "client_src_mr" \in h => "protection_domain" \in h
           /\ "client_dst_mr" \in h => "protection_domain" \in h
           /\ "server_buffer_mr" \in h => "protection_domain" \in h
           /\ "cm_client_id" \in h => "cm_event_channel" \in h
           /\ "cm_server_id" \in h => "cm_event_channel" \in h
<1>1. DOMAIN MadeFrom =
        {"queue_pair", "completion_queue", "client_metadata_mr",
         "server_metadata_mr", "client_src_mr", "client_dst_mr",
         "server_buffer_mr", "cm_client_id", "cm_server_id", "leaked_cm_id"}
  BY DEF MadeFrom
<1>2. /\ MadeFrom["queue_pair"] =
           {"protection_domain", "completion_queue", "cm_client_id"}
      /\ MadeFrom["completion_queue"] = {"completion_channel"}
      /\ MadeFrom["client_metadata_mr"] = {"protection_domain"}
      /\ MadeFrom["server_metadata_mr"] = {"protection_domain"}
      /\ MadeFrom["client_src_mr"] = {"protection_domain"}
      /\ MadeFrom["client_dst_mr"] = {"protection_domain"}
      /\ MadeFrom["server_buffer_mr"] = {"protection_domain"}
      /\ MadeFrom["cm_client_id"] = {"cm_event_channel"}
      /\ MadeFrom["cm_server_id"] = {"cm_event_channel"}
  BY DEF MadeFrom
<1>3. Deps(h) <=>
        \A r \in DOMAIN MadeFrom :
          r \in h /\ r \notin Unreachable => MadeFrom[r] \subseteq h
  BY DEF Deps
<1>4. \A r \in DOMAIN MadeFrom : r \in Unreachable <=> r = "leaked_cm_id"
  BY <1>1 DEF Unreachable
<1>. QED
  BY <1>1, <1>2, <1>3, <1>4

\* Posting one more request, and carrying out the oldest.
LEMMA ToSetAppend ==
  ASSUME NEW S, NEW s \in Seq(S), NEW x \in S
  PROVE  ToSet(Append(s, x)) = ToSet(s) \cup {x}
<1>1. Len(s) \in Nat /\ DOMAIN s = 1 .. Len(s)
  OBVIOUS
<1>2. /\ DOMAIN Append(s, x) = 1 .. Len(s) + 1
      /\ \A i \in 1 .. Len(s) : Append(s, x)[i] = s[i]
      /\ Append(s, x)[Len(s) + 1] = x
  OBVIOUS
<1>3. 1 .. Len(s) + 1 = (1 .. Len(s)) \cup {Len(s) + 1}
  BY <1>1
<1>. QED
  BY <1>1, <1>2, <1>3 DEF ToSet

LEMMA ToSetTail ==
  ASSUME NEW S, NEW s \in Seq(S), s # <<>>
  PROVE  ToSet(Tail(s)) \subseteq ToSet(s)
<1>1. Len(s) \in Nat \ {0} /\ DOMAIN s = 1 .. Len(s)
  OBVIOUS
<1>2. /\ DOMAIN Tail(s) = 1 .. Len(s) - 1
      /\ \A i \in 1 .. Len(s) - 1 : Tail(s)[i] = s[i + 1]
  OBVIOUS
<1>3. \A i \in 1 .. Len(s) - 1 : i + 1 \in 1 .. Len(s)
  BY <1>1
<1>. QED
  BY <1>1, <1>2, <1>3 DEF ToSet

\* A step of one client, or of the server.
LEMMA ClientAlone ==
  ASSUME ResourcesInv, NEW c \in Clients,
         \A q \in Procs : q # c =>
           /\ pc'[q] = pc[q] /\ wait'[q] = wait[q] /\ held'[q] = held[q]
           /\ sq'[q] = sq[q] /\ rq'[q] = rq[q],
         ClientHolds(pc'[c], wait'[c], held'[c], sq'[c], rq'[c]),
         Ended(pc'[c], held'[c])
  PROVE  ResourcesInv'
<1>1. /\ Server \in Procs /\ Server # c
      /\ \A d \in Clients : d \in Procs
  BY ProcFacts
<1>. QED
  BY <1>1 DEF ResourcesInv

LEMMA ServerAlone ==
  ASSUME ResourcesInv,
         \A c \in Clients :
           /\ pc'[c] = pc[c] /\ wait'[c] = wait[c] /\ held'[c] = held[c]
           /\ sq'[c] = sq[c] /\ rq'[c] = rq[c],
         ServerHolds(pc'[Server], held'[Server]),
         Ended(pc'[Server], held'[Server])
  PROVE  ResourcesInv'
<1>1. \A p \in Procs : p # Server => p \in Clients
  BY ProcFacts
<1>. QED
  BY <1>1 DEF ResourcesInv

\* A client that fails keeps what it has allocated, and what it has posted.
LEMMA FailureHolds ==
  ASSUME NEW l, NEW w, NEW h, NEW s, NEW n, ClientHolds(l, w, h, s, n),
         NEW X \in SUBSET ToSet(ClientRelease), Deps(h \cup X)
  PROVE  ClientHolds("cleanup", "none", h \cup X, s, n)
BY DEF ClientHolds, ClientNeeds, Posted, NonePosted, Quiet

LEMMA ClientFailsHolding ==
  ASSUME TypeInv, ResourcesInv, NEW c \in Clients,
         NEW X \in SUBSET ToSet(ClientRelease), Holding(c, X),
         NEW r \in Int, Fail(c, r), UNCHANGED <<sq, rq>>, Deps(held[c] \cup X)
  PROVE  ResourcesInv'
<1>1. ProcTypes /\ c \in Procs /\ c # Server
  BY TypeParts, ProcFacts DEF TypeInv
<1>2. X \in SUBSET Resources
  BY DEF Resources
<1>3. /\ held'[c] = held[c] \cup X
      /\ \A q \in Procs : q # c => held'[q] = held[q]
  BY <1>1, <1>2, HoldingTypes
<1>4. /\ pc'[c] = "cleanup" /\ wait'[c] = "none"
      /\ \A q \in Procs : q # c => pc'[q] = pc[q] /\ wait'[q] = wait[q]
  BY <1>1, FailTypes
<1>5. ClientHolds("cleanup", "none", held[c] \cup X, sq[c], rq[c])
  BY FailureHolds DEF ResourcesInv
<1>6. Ended(pc'[c], held'[c])
  BY <1>4 DEF Ended
<1>. QED
  BY <1>3, <1>4, <1>5, <1>6, ClientAlone

LEMMA ClientFails ==
  ASSUME TypeInv, ResourcesInv, NEW c \in Clients, NEW r \in Int, Fail(c, r),
         UNCHANGED <<held, sq, rq>>
  PROVE  ResourcesInv'
<1>1. {} \in SUBSET ToSet(ClientRelease) /\ Holding(c, {})
  <2>1. held = [held EXCEPT ![c] = @ \cup {}]
    BY TypeParts, ProcFacts DEF TypeInv, ProcTypes
  <2>. QED
    BY <2>1 DEF Holding
<1>2. Deps(held[c] \cup {})
  <2>1. held[c] \cup {} = held[c]
    OBVIOUS
  <2>. QED
    BY <2>1 DEF ResourcesInv, ClientHolds
<1>. QED
  BY <1>1, <1>2, ClientFailsHolding

\* A client that goes on to l.
LEMMA ClientGoes ==
  ASSUME TypeInv, ResourcesInv, NEW c \in Clients,
         NEW l \in Locations, Goto(c, l), l # "exited",
         NEW X \in SUBSET ToSet(ClientRelease), Holding(c, X),
         \A q \in Procs : q # c => wait'[q] = wait[q] /\ rq'[q] = rq[q],
         \A q \in Procs : q # c => sq'[q] = sq[q],
         Deps(held[c] \cup X), ClientNeeds(l, wait'[c], held[c] \cup X),
         Posted(held[c] \cup X, sq'[c], rq'[c]),
         NonePosted(l, held[c] \cup X, sq'[c], rq'[c])
  PROVE  ResourcesInv'
<1>1. ProcTypes /\ c \in Procs
  BY TypeParts, ProcFacts DEF TypeInv
<1>2. X \in SUBSET Resources
  BY DEF Resources
<1>3. /\ held'[c] = held[c] \cup X
      /\ \A q \in Procs : q # c => held'[q] = held[q]
  BY <1>1, <1>2, HoldingTypes
<1>4. /\ pc'[c] = l
      /\ \A q \in Procs : q # c => pc'[q] = pc[q]
  BY <1>1, GotoTypes
<1>5. ClientHolds(l, wait'[c], held[c] \cup X, sq'[c], rq'[c])
  BY DEF ResourcesInv, ClientHolds
<1>6. Ended(pc'[c], held'[c])
  BY <1>4 DEF Ended
<1>. QED
  BY <1>3, <1>4, <1>5, <1>6, ClientAlone

-----------------------------------------------------------------------------
(* The client, until it cleans up.                                         *)

\* More is held, and as much is posted.
LEMMA MoreHeld ==
  ASSUME NEW l, NEW w, NEW h, NEW s, NEW n, ClientHolds(l, w, h, s, n),
         NEW X, NEW k, k \notin Quiet
  PROVE  Posted(h \cup X, s, n) /\ NonePosted(k, h \cup X, s, n)
BY DEF ClientHolds, Posted, NonePosted

LEMMA AllocatesHolds ==
  ASSUME TypeInv, ResourcesInv, NEW c \in Clients,
         NEW r \in ToSet(ClientRelease), NEW l \in Locations, l \notin Quiet,
         AllocatesOrFails(c, r, l), UNCHANGED <<sq, rq>>, wait[c] = "none",
         Deps(held[c] \cup {r}), ClientNeeds(l, "none", held[c] \cup {r})
  PROVE  ResourcesInv'
<1>1. CASE Fail(c, -1) /\ UNCHANGED held
  <2>1. -1 \in Int
    OBVIOUS
  <2>. QED
    BY <1>1, <2>1, ClientFails
<1>2. CASE Holding(c, {r}) /\ Goto(c, l) /\ UNCHANGED <<ret, wait>>
  <2>1. /\ Posted(held[c] \cup {r}, sq'[c], rq'[c])
        /\ NonePosted(l, held[c] \cup {r}, sq'[c], rq'[c])
    BY MoreHeld DEF ResourcesInv
  <2>2. {r} \in SUBSET ToSet(ClientRelease) /\ l # "exited"
    BY DEF Quiet
  <2>. QED
    BY <1>2, <2>1, <2>2, ClientGoes
<1>. QED
  BY <1>1, <1>2 DEF AllocatesOrFails

LEMMA ClientSetupHolds ==
  ASSUME TypeInv, ResourcesInv, NEW c \in Clients,
         \/ setup_protection_domain(c) \/ create_completion_channel(c)
         \/ create_completion_queue(c) \/ setup_queue_pairs(c)
  PROVE  ResourcesInv'
<1>1. wait[c] = "none"
  BY TypeParts, ProcFacts
  DEF TypeInv, ProcTypes, WaitsInCall, Awaiting, setup_protection_domain,
      create_completion_channel, create_completion_queue, setup_queue_pairs
<1>2. UNCHANGED <<sq, rq>>
  BY DEF setup_protection_domain, create_completion_channel,
         create_completion_queue, setup_queue_pairs, workVars
<1>3. Deps(held[c]) /\ ClientNeeds(pc[c], wait[c], held[c])
  BY DEF ResourcesInv, ClientHolds
<1>4. /\ {"create_completion_channel", "create_completion_queue",
          "setup_queue_pairs", "post_metadata_recv_buffer"}
           \subseteq Locations \ Quiet
      /\ {"protection_domain", "completion_channel", "completion_queue",
          "queue_pair"} \subseteq ToSet(ClientRelease)
  BY ResourceNames DEF Locations, Quiet
<1>5. CASE setup_protection_domain(c)
  <2>1. AllocatesOrFails(c, "protection_domain", "create_completion_channel")
    BY <1>5 DEF setup_protection_domain
  <2>2. pc[c] = "setup_protection_domain"
    BY <1>5 DEF setup_protection_domain
  <2>3. Deps(held[c] \cup {"protection_domain"})
    BY <1>3, DepsList
  <2>4. ClientNeeds("create_completion_channel", "none",
                    held[c] \cup {"protection_domain"})
    BY <1>3, <2>2 DEF ClientNeeds
  <2>. QED
    BY <1>1, <1>2, <1>4, <2>1, <2>3, <2>4, AllocatesHolds
<1>6. CASE create_completion_channel(c)
  <2>1. AllocatesOrFails(c, "completion_channel", "create_completion_queue")
    BY <1>6 DEF create_completion_channel
  <2>2. pc[c] = "create_completion_channel"
    BY <1>6 DEF create_completion_channel
  <2>3. Deps(held[c] \cup {"completion_channel"})
    BY <1>3, DepsList
  <2>4. ClientNeeds("create_completion_queue", "none",
                    held[c] \cup {"completion_channel"})
    BY <1>3, <2>2 DEF ClientNeeds
  <2>. QED
    BY <1>1, <1>2, <1>4, <2>1, <2>3, <2>4, AllocatesHolds
<1>7. CASE create_completion_queue(c)
  <2>1. AllocatesOrFails(c, "completion_queue", "setup_queue_pairs")
    BY <1>7 DEF create_completion_queue
  <2>2. pc[c] = "create_completion_queue"
    BY <1>7 DEF create_completion_queue
  <2>3. "completion_channel" \in held[c]
    BY <1>3, <2>2 DEF ClientNeeds
  <2>4. Deps(held[c] \cup {"completion_queue"})
    BY <1>3, <2>3, DepsList
  <2>5. ClientNeeds("setup_queue_pairs", "none",
                    held[c] \cup {"completion_queue"})
    BY <1>3, <2>2 DEF ClientNeeds
  <2>. QED
    BY <1>1, <1>2, <1>4, <2>1, <2>4, <2>5, AllocatesHolds
<1>8. CASE setup_queue_pairs(c)
  <2>1. AllocatesOrFails(c, "queue_pair", "post_metadata_recv_buffer")
    BY <1>8 DEF setup_queue_pairs
  <2>2. pc[c] = "setup_queue_pairs"
    BY <1>8 DEF setup_queue_pairs
  <2>3. /\ "protection_domain" \in held[c] /\ "completion_queue" \in held[c]
        /\ "cm_client_id" \in held[c]
    BY <1>3, <2>2 DEF ClientNeeds
  <2>4. Deps(held[c] \cup {"queue_pair"})
    BY <1>3, <2>3, DepsList
  <2>5. ClientNeeds("post_metadata_recv_buffer", "none",
                    held[c] \cup {"queue_pair"})
    BY <1>3, <2>2 DEF ClientNeeds
  <2>. QED
    BY <1>1, <1>2, <1>4, <2>1, <2>4, <2>5, AllocatesHolds
<1>. QED
  BY <1>5, <1>6, <1>7, <1>8

\* A client that goes on without allocating anything.
LEMMA ClientGoesOn ==
  ASSUME TypeInv, ResourcesInv, NEW c \in Clients,
         NEW l \in Locations, Goto(c, l), l \notin Quiet,
         \A q \in Procs : q # c => wait'[q] = wait[q],
         UNCHANGED <<held, sq, rq>>, ClientNeeds(l, wait'[c], held[c])
  PROVE  ResourcesInv'
<1>1. Holding(c, {}) /\ {} \in SUBSET ToSet(ClientRelease)
  <2>1. held = [held EXCEPT ![c] = @ \cup {}]
    BY TypeParts, ProcFacts DEF TypeInv, ProcTypes
  <2>. QED
    BY <2>1 DEF Holding
<1>2. held[c] \cup {} = held[c]
  OBVIOUS
<1>3. Deps(held[c] \cup {}) /\ ClientNeeds(l, wait'[c], held[c] \cup {})
  BY <1>2 DEF ResourcesInv, ClientHolds
<1>4. /\ Posted(held[c] \cup {}, sq[c], rq[c])
      /\ NonePosted(l, held[c] \cup {}, sq[c], rq[c])
  BY MoreHeld DEF ResourcesInv
<1>5. l # "exited"
  BY DEF Quiet
<1>. QED
  BY <1>1, <1>3, <1>4, <1>5, ClientGoes

LEMMA ClientRouteHolds ==
  ASSUME TypeInv, ResourcesInv, NEW c \in Clients,
         SetupClient(c) \/ AddrResolved(c) \/ RouteResolved(c)
  PROVE  ResourcesInv'
<1>1. wait[c] = "none"
  BY TypeParts, ProcFacts
  DEF TypeInv, ProcTypes, WaitsInCall, Awaiting, SetupClient, AddrResolved,
      RouteResolved
<1>2. UNCHANGED <<sq, rq>>
  BY DEF SetupClient, AddrResolved, RouteResolved, workVars
<1>3. Deps(held[c]) /\ ClientNeeds(pc[c], wait[c], held[c])
  BY DEF ResourcesInv, ClientHolds
<1>4. {"addr", "route", "setup_protection_domain"} \subseteq Locations \ Quiet
  BY DEF Locations, Quiet
<1>5. -1 \in Int
  OBVIOUS
<1>6. CASE SetupClient(c)
  <2>. DEFINE all == {"cm_event_channel", "cm_client_id", "rai"}
  <2>1. /\ ToSet(<<"cm_event_channel", "cm_client_id", "rai">>) = all
        /\ all \in SUBSET ToSet(ClientRelease)
    BY ToSetOfThree, ResourceNames
  <2>2. CASE Holding(c, all) /\ Goto(c, "addr") /\ UNCHANGED wait
    <3>1. Deps(held[c] \cup all) /\ ClientNeeds("addr", "none", held[c] \cup all)
      BY <1>3, DepsList DEF ClientNeeds
    <3>2. /\ Posted(held[c] \cup all, sq[c], rq[c])
          /\ NonePosted("addr", held[c] \cup all, sq[c], rq[c])
      BY <1>4, MoreHeld DEF ResourcesInv
    <3>3. "addr" # "exited"
      OBVIOUS
    <3>. HIDE DEF all
    <3>. QED
      BY <1>1, <1>2, <1>4, <2>1, <2>2, <3>1, <3>2, <3>3, ClientGoes
  <2>3. CASE FailsPartway(c, <<"cm_event_channel", "cm_client_id", "rai">>)
    <3>1. PICK X \in {{}, {"cm_event_channel"},
                      {"cm_event_channel", "cm_client_id"},
                      {"cm_event_channel", "cm_client_id", "rai"}} :
            Holding(c, X)
      BY <2>3, BeginningsOfThree DEF FailsPartway
    <3>2. Fail(c, -1)
      BY <2>3 DEF FailsPartway
    <3>3. X \in SUBSET ToSet(ClientRelease)
      BY <2>1
    <3>4. Deps(held[c] \cup X)
      BY <1>3, DepsList
    <3>. QED
      BY <1>2, <1>5, <3>1, <3>2, <3>3, <3>4, ClientFailsHolding
  <2>. QED
    BY <1>6, <2>1, <2>2, <2>3 DEF SetupClient
<1>7. CASE AddrResolved(c)
  <2>1. CASE Fail(c, -1)
    BY <1>2, <1>5, <1>7, <2>1, ClientFails DEF AddrResolved
  <2>2. CASE Goto(c, "route") /\ UNCHANGED wait
    <3>1. ClientNeeds("route", "none", held[c])
      BY <1>3, <1>7 DEF ClientNeeds, AddrResolved
    <3>2. UNCHANGED held
      BY <1>7 DEF AddrResolved
    <3>. QED
      BY <1>1, <1>2, <1>4, <2>2, <3>1, <3>2, ClientGoesOn
  <2>. QED
    BY <1>7, <2>1, <2>2 DEF AddrResolved
<1>8. CASE RouteResolved(c)
  <2>1. ClientNeeds("setup_protection_domain", "none", held[c])
    BY <1>3, <1>8 DEF ClientNeeds, RouteResolved
  <2>2. Goto(c, "setup_protection_domain") /\ UNCHANGED <<wait, held>>
    BY <1>8 DEF RouteResolved
  <2>. QED
    BY <1>1, <1>2, <1>4, <2>1, <2>2, ClientGoesOn
<1>. QED
  BY <1>6, <1>7, <1>8

LEMMA ClientConnectHolds ==
  ASSUME TypeInv, ResourcesInv, NEW c \in Clients,
         ClientPostsRecv(c) \/ connect_to_server(c) \/ ClientEstablished(c)
  PROVE  ResourcesInv'
<1>1. wait[c] = "none" /\ c \in Procs
  BY TypeParts, ProcFacts
  DEF TypeInv, ProcTypes, WaitsInCall, Awaiting, ClientPostsRecv,
      connect_to_server, ClientEstablished
<1>2. /\ Deps(held[c]) /\ ClientNeeds(pc[c], wait[c], held[c])
      /\ Posted(held[c], sq[c], rq[c])
  BY DEF ResourcesInv, ClientHolds
<1>3. {"connect_to_server", "established", "exchange_metadata_with_server"}
        \subseteq Locations \ Quiet
  BY DEF Locations, Quiet
<1>4. -1 \in Int
  OBVIOUS
<1>5. CASE ClientPostsRecv(c)
  <2>. DEFINE mr == {"server_metadata_mr"}
  <2>1. /\ pc[c] = "post_metadata_recv_buffer" /\ UNCHANGED sq
        /\ mr \in SUBSET ToSet(ClientRelease)
    BY <1>5, ResourceNames DEF ClientPostsRecv
  <2>2. Deps(held[c] \cup mr)
    <3>1. "protection_domain" \in held[c]
      BY <1>2, <2>1 DEF ClientNeeds
    <3>. QED
      BY <1>2, <3>1, DepsList
  <2>3. ClientNeeds("connect_to_server", "none", held[c] \cup mr)
    BY <1>2, <2>1 DEF ClientNeeds
  <2>4. ASSUME NEW n
        PROVE  /\ Posted(held[c] \cup mr, sq[c], n)
               /\ NonePosted("connect_to_server", held[c] \cup mr, sq[c], n)
    <3>1. "queue_pair" \in held[c]
      BY <1>2, <2>1 DEF ClientNeeds
    <3>. QED
      BY <1>2, <1>3, <3>1 DEF Posted, NonePosted
  <2>5. "connect_to_server" # "exited"
    OBVIOUS
  <2>6. CASE /\ Holding(c, mr) /\ Goto(c, "connect_to_server")
             /\ wait' = [wait EXCEPT ![c] = "none"]
             /\ rq' \in {rq, [rq EXCEPT ![c] = @ + 1]}
    <3>1. wait'[c] = "none" /\ \A q \in Procs : q # c => wait'[q] = wait[q]
      BY <1>1, <2>6, TypeParts DEF TypeInv, ProcTypes
    <3>2. \A q \in Procs : q # c => rq'[q] = rq[q]
      BY <1>1, <2>6, TypeParts DEF TypeInv, WorkTypes
    <3>. HIDE DEF mr
    <3>. QED
      BY <1>3, <2>1, <2>2, <2>3, <2>4, <2>5, <2>6, <3>1, <3>2, ClientGoes
  <2>7. CASE FailsPartway(c, <<"server_metadata_mr">>) /\ UNCHANGED rq
    <3>1. PICK X \in {{}, {"server_metadata_mr"}} : Holding(c, X)
      BY <2>7, BeginningsOfOne DEF FailsPartway
    <3>2. Fail(c, -1)
      BY <2>7 DEF FailsPartway
    <3>3. Deps(held[c] \cup X) /\ X \in SUBSET ToSet(ClientRelease)
      <4>1. held[c] \cup {} = held[c]
        OBVIOUS
      <4>. QED
        BY <1>2, <2>1, <2>2, <4>1
    <3>. QED
      BY <1>4, <2>1, <2>7, <3>1, <3>2, <3>3, ClientFailsHolding
  <2>8. wait = [wait EXCEPT ![c] = "none"]
    BY <1>1, TypeParts DEF TypeInv, ProcTypes
  <2>. QED
    BY <1>5, <2>6, <2>7, <2>8 DEF ClientPostsRecv, FailsUnnoticed
<1>6. CASE connect_to_server(c)
  <2>1. UNCHANGED <<sq, rq>>
    BY <1>6 DEF connect_to_server, workVars
  <2>2. CASE Goto(c, "established") /\ UNCHANGED <<wait, held>>
    <3>1. ClientNeeds("established", "none", held[c])
      BY <1>2, <1>6 DEF ClientNeeds, connect_to_server
    <3>. QED
      BY <1>1, <1>3, <2>1, <2>2, <3>1, ClientGoesOn
  <2>3. CASE FailsPartway(c, <<>>)
    <3>1. Holding(c, {}) /\ Fail(c, -1)
      BY <2>3, FailsWithNone
    <3>2. held[c] \cup {} = held[c]
      OBVIOUS
    <3>3. Deps(held[c] \cup {})
      BY <1>2, <3>2
    <3>. QED
      BY <1>4, <2>1, <3>1, <3>3, ClientFailsHolding
  <2>. QED
    BY <1>6, <2>2, <2>3 DEF connect_to_server
<1>7. CASE ClientEstablished(c)
  <2>1. /\ Goto(c, "exchange_metadata_with_server")
        /\ UNCHANGED <<wait, held, sq, rq>>
    BY <1>7 DEF ClientEstablished
  <2>2. ClientNeeds("exchange_metadata_with_server", "none", held[c])
    BY <1>2, <1>7 DEF ClientNeeds, ClientEstablished
  <2>. QED
    BY <1>1, <1>3, <2>1, <2>2, ClientGoesOn
<1>. QED
  BY <1>5, <1>6, <1>7

\* A client that posts a request, whose region it holds, and waits.
LEMMA ClientPosts ==
  ASSUME TypeInv, ResourcesInv, NEW c \in Clients,
         NEW X \in SUBSET ToSet(ClientRelease), Holding(c, X),
         NEW op \in Opcodes, PostSend(c, op), UNCHANGED rq,
         AwaitCompletions(c),
         NEW l \in {"exchange_metadata_with_server", "client_write_message",
                    "client_read_message"},
         Goto(c, l), Deps(held[c] \cup X), "queue_pair" \in held[c],
         "protection_domain" \in held[c],
         {"client_src_mr", "client_metadata_mr"} \subseteq held[c] \cup X,
         op = "READ" => "client_dst_mr" \in held[c] \cup X
  PROVE  ResourcesInv'
<1>1. ProcTypes /\ WorkTypes /\ c \in Procs
  BY TypeParts, ProcFacts DEF TypeInv
<1>2. wait'[c] = "get_event" /\ \A q \in Procs : q # c => wait'[q] = wait[q]
  BY <1>1, AwaitTypes
<1>3. /\ l \in Locations /\ l # "exited"
      /\ ClientNeeds(l, "get_event", held[c] \cup X)
      /\ \A s, n : NonePosted(l, held[c] \cup X, s, n)
  BY DEF Locations, ClientNeeds, NonePosted, Quiet
<1>4. Posted(held[c], sq[c], rq[c])
  BY DEF ResourcesInv, ClientHolds
<1>5. sq[c] \in Seq(Opcodes)
  BY <1>1 DEF WorkTypes
<1>6. /\ ToSet(sq'[c]) \subseteq ToSet(sq[c]) \cup {op}
      /\ \A q \in Procs : q # c => sq'[q] = sq[q]
  <2>1. ToSet(Append(sq[c], op)) = ToSet(sq[c]) \cup {op}
    BY <1>5, ToSetAppend
  <2>. QED
    BY <1>1, <2>1 DEF PostSend, WorkTypes
<1>7. Posted(held[c] \cup X, sq'[c], rq'[c])
  BY <1>4, <1>6 DEF Posted
<1>. QED
  BY <1>2, <1>3, <1>6, <1>7, ClientGoes

LEMMA ClientExchangeHolds ==
  ASSUME TypeInv, ResourcesInv, NEW c \in Clients,
         exchange_metadata_with_server(c)
  PROVE  ResourcesInv'
<1>. DEFINE mrs == {"client_src_mr", "client_metadata_mr"}
<1>1. /\ pc[c] = "exchange_metadata_with_server" /\ wait[c] = "none"
      /\ UNCHANGED rq
  BY DEF exchange_metadata_with_server
<1>2. Deps(held[c]) /\ ClientNeeds(pc[c], wait[c], held[c])
  BY DEF ResourcesInv, ClientHolds
<1>3. "protection_domain" \in held[c] /\ "queue_pair" \in held[c]
  BY <1>1, <1>2 DEF ClientNeeds
<1>4. mrs \in SUBSET ToSet(ClientRelease)
  BY ResourceNames
<1>5. Deps(held[c] \cup mrs)
  BY <1>2, <1>3, DepsList
<1>6. -1 \in Int
  OBVIOUS
<1>7. CASE /\ Holding(c, mrs) /\ PostSend(c, "SEND") /\ AwaitCompletions(c)
           /\ UNCHANGED <<pc, ret>>
  <2>1. Goto(c, "exchange_metadata_with_server")
    <3>1. pc = [pc EXCEPT ![c] = "exchange_metadata_with_server"]
      BY <1>1, TypeParts, ProcFacts DEF TypeInv, ProcTypes
    <3>. QED
      BY <1>7, <3>1 DEF Goto
  <2>2. "SEND" \in Opcodes /\ "SEND" # "READ"
    BY DEF Opcodes
  <2>3. mrs \subseteq held[c] \cup mrs
    OBVIOUS
  <2>. HIDE DEF mrs
  <2>4. {"client_src_mr", "client_metadata_mr"} \subseteq held[c] \cup mrs
    BY <2>3 DEF mrs
  <2>. QED
    BY <1>1, <1>3, <1>4, <1>5, <1>7, <2>1, <2>2, <2>4, ClientPosts
<1>8. CASE /\ FailsPartway(c, <<"client_src_mr", "client_metadata_mr">>)
           /\ UNCHANGED sq
  <2>1. PICK X \in {{}, {"client_src_mr"},
                    {"client_src_mr", "client_metadata_mr"}} : Holding(c, X)
    BY <1>8, BeginningsOfTwo DEF FailsPartway
  <2>2. Fail(c, -1)
    BY <1>8 DEF FailsPartway
  <2>3. Deps(held[c] \cup X) /\ X \in SUBSET ToSet(ClientRelease)
    BY <1>2, <1>3, <1>4, DepsList
  <2>. QED
    BY <1>1, <1>6, <1>8, <2>1, <2>2, <2>3, ClientFailsHolding
<1>9. CASE Fail(c, -1) /\ UNCHANGED <<held, sq>>
  BY <1>1, <1>6, <1>9, ClientFails
<1>10. CASE /\ FailsUnnoticed(c, mrs, "client_write_message")
            /\ UNCHANGED sq
  <2>1. /\ Holding(c, mrs) /\ Goto(c, "client_write_message")
        /\ wait' = [wait EXCEPT ![c] = "none"]
    BY <1>10 DEF FailsUnnoticed
  <2>2. wait'[c] = "none" /\ \A q \in Procs : q # c => wait'[q] = wait[q]
    BY <2>1, TypeParts, ProcFacts DEF TypeInv, ProcTypes
  <2>3. ClientNeeds("client_write_message", "none", held[c] \cup mrs)
    BY <1>1, <1>2 DEF ClientNeeds
  <2>4. /\ Posted(held[c] \cup mrs, sq[c], rq[c])
        /\ NonePosted("client_write_message", held[c] \cup mrs, sq[c], rq[c])
    BY MoreHeld DEF ResourcesInv, Quiet
  <2>5. "client_write_message" \in Locations /\ "client_write_message" # "exited"
    BY DEF Locations
  <2>. HIDE DEF mrs
  <2>. QED
    BY <1>1, <1>4, <1>5, <1>10, <2>1, <2>2, <2>3, <2>4, <2>5, ClientGoes
<1>. QED
  BY <1>7, <1>8, <1>9, <1>10 DEF exchange_metadata_with_server

\* A client that enters client_write_message or client_read_message.
LEMMA EntersHolding ==
  ASSUME ResourcesInv, NEW c \in Clients,
         \/ Enters(c, "client_write_message", "exchange_metadata_with_server")
         \/ Enters(c, "client_read_message", "client_write_message")
  PROVE  /\ Deps(held[c]) /\ "protection_domain" \in held[c]
         /\ "queue_pair" \in held[c]
         /\ {"client_src_mr", "client_metadata_mr"} \subseteq held[c]
<1>1. Deps(held[c]) /\ ClientNeeds(pc[c], wait[c], held[c])
  BY DEF ResourcesInv, ClientHolds
<1>2. \/ pc[c] = "exchange_metadata_with_server" /\ wait[c] # "none"
      \/ pc[c] \in {"client_write_message", "client_read_message"}
  BY DEF Enters, AwaitPasses, AwaitSucceeded
<1>. QED
  BY <1>1, <1>2 DEF ClientNeeds

\* PostRdma posts one request, which reads from memory only for a READ.
LEMMA PostRdmaOne ==
  ASSUME NEW c \in Clients, NEW op \in {"WRITE", "READ"}, PostRdma(c, op)
  PROVE  \E o \in Opcodes : PostSend(c, o) /\ (o = "READ" => op = "READ")
<1>1. CASE meta[c] = NoMetadata
  BY <1>1 DEF PostRdma, Opcodes
<1>2. CASE meta[c] # NoMetadata
  BY <1>2 DEF PostRdma, Opcodes
<1>. QED
  BY <1>1, <1>2

LEMMA ClientWriteHolds ==
  ASSUME TypeInv, ResourcesInv, NEW c \in Clients, client_write_message(c)
  PROVE  ResourcesInv'
<1>1. Enters(c, "client_write_message", "exchange_metadata_with_server")
  BY DEF client_write_message
<1>2. /\ Deps(held[c]) /\ "protection_domain" \in held[c]
      /\ "queue_pair" \in held[c]
      /\ {"client_src_mr", "client_metadata_mr"} \subseteq held[c]
  BY <1>1, EntersHolding
<1>3. UNCHANGED rq
  BY DEF client_write_message
<1>4. held[c] \cup {} = held[c] /\ {} \in SUBSET ToSet(ClientRelease)
  OBVIOUS
<1>5. Deps(held[c] \cup {})
  BY <1>2, <1>4
<1>6. CASE /\ PostRdma(c, "WRITE") /\ AwaitCompletions(c)
           /\ Goto(c, "client_write_message") /\ UNCHANGED <<ret, held>>
  <2>1. PICK o \in Opcodes : PostSend(c, o) /\ o # "READ"
    BY <1>6, PostRdmaOne
  <2>2. Holding(c, {})
    <3>1. held = [held EXCEPT ![c] = @ \cup {}]
      BY TypeParts, ProcFacts DEF TypeInv, ProcTypes
    <3>. QED
      BY <1>6, <3>1 DEF Holding
  <2>3. {"client_src_mr", "client_metadata_mr"} \subseteq held[c] \cup {}
    BY <1>2
  <2>. QED
    BY <1>2, <1>3, <1>4, <1>5, <1>6, <2>1, <2>2, <2>3, ClientPosts
<1>7. CASE FailsPartway(c, <<>>) /\ UNCHANGED sq
  <2>1. Holding(c, {}) /\ Fail(c, -1) /\ -1 \in Int
    BY <1>7, FailsWithNone
  <2>. QED
    BY <1>3, <1>4, <1>5, <1>7, <2>1, ClientFailsHolding
<1>8. CASE FailsUnnoticed(c, {}, "client_read_message") /\ UNCHANGED sq
  <2>1. /\ Goto(c, "client_read_message") /\ wait' = [wait EXCEPT ![c] = "none"]
        /\ Holding(c, {})
    BY <1>8 DEF FailsUnnoticed
  <2>2. wait'[c] = "none" /\ \A q \in Procs : q # c => wait'[q] = wait[q]
    BY <2>1, TypeParts, ProcFacts DEF TypeInv, ProcTypes
  <2>3. held' = held
    BY <2>1, TypeParts, ProcFacts DEF TypeInv, ProcTypes, Holding
  <2>4. ClientNeeds("client_read_message", "none", held[c])
    BY <1>2 DEF ClientNeeds
  <2>5. "client_read_message" \in Locations \ Quiet
    BY DEF Locations, Quiet
  <2>. QED
    BY <1>3, <1>8, <2>1, <2>2, <2>3, <2>4, <2>5, ClientGoesOn
<1>. QED
  BY <1>6, <1>7, <1>8 DEF client_write_message

LEMMA ClientReadHolds ==
  ASSUME TypeInv, ResourcesInv, NEW c \in Clients, client_read_message(c)
  PROVE  ResourcesInv'
<1>. DEFINE all == {"dst_buffer", "client_dst_mr"}
<1>1. Enters(c, "client_read_message", "client_write_message")
  BY DEF client_read_message
<1>2. /\ Deps(held[c]) /\ "protection_domain" \in held[c]
      /\ "queue_pair" \in held[c]
      /\ {"client_src_mr", "client_metadata_mr"} \subseteq held[c]
  BY <1>1, EntersHolding
<1>3. UNCHANGED rq
  BY DEF client_read_message
<1>4. \A X \in SUBSET all : X \in SUBSET ToSet(ClientRelease)
  BY ResourceNames
<1>5. \A X \in SUBSET all : Deps(held[c] \cup X)
  BY <1>2, DepsList
<1>6. CASE /\ Holding(c, all) /\ PostRdma(c, "READ") /\ AwaitCompletions(c)
           /\ Goto(c, "client_read_message")
  <2>1. PICK o \in Opcodes : PostSend(c, o)
    BY <1>6, PostRdmaOne
  <2>2. {"client_src_mr", "client_metadata_mr"} \subseteq held[c] \cup all
    BY <1>2
  <2>3. "client_dst_mr" \in held[c] \cup all
    OBVIOUS
  <2>4. all \in SUBSET ToSet(ClientRelease) /\ Deps(held[c] \cup all)
    BY <1>4, <1>5
  <2>. HIDE DEF all
  <2>. QED
    BY <1>2, <1>3, <1>6, <2>1, <2>2, <2>3, <2>4, ClientPosts
<1>7. ASSUME NEW X \in SUBSET all, Holding(c, X), NEW r \in Int, Fail(c, r),
             UNCHANGED sq
      PROVE  ResourcesInv'
  <2>1. X \in SUBSET ToSet(ClientRelease) /\ Deps(held[c] \cup X)
    BY <1>4, <1>5
  <2>. QED
    BY <1>3, <1>7, <2>1, ClientFailsHolding
<1>8. CASE FailsPartway(c, <<"dst_buffer", "client_dst_mr">>) /\ UNCHANGED sq
  <2>1. PICK X \in {{}, {"dst_buffer"}, {"dst_buffer", "client_dst_mr"}} :
          Holding(c, X)
    BY <1>8, BeginningsOfTwo DEF FailsPartway
  <2>2. Fail(c, -1) /\ X \in SUBSET all /\ -1 \in Int
    BY <1>8 DEF FailsPartway
  <2>. QED
    BY <1>7, <1>8, <2>1, <2>2
<1>9. CASE Holding(c, {"dst_buffer"}) /\ Fail(c, -1) /\ UNCHANGED sq
  <2>1. {"dst_buffer"} \in SUBSET all /\ -1 \in Int
    OBVIOUS
  <2>. QED
    BY <1>7, <1>9, <2>1
<1>10. CASE Holding(c, all) /\ Fail(c, 0) /\ UNCHANGED sq
  BY <1>7, <1>10
<1>. QED
  BY <1>6, <1>8, <1>9, <1>10 DEF client_read_message

\* The end of the read, and waits that fail.
LEMMA ClientEndsHolds ==
  ASSUME TypeInv, ResourcesInv, NEW c \in Clients,
         ReadComplete(c) \/ RdmaEventFails(c) \/ AwaitFailed(c)
  PROVE  ResourcesInv'
<1>1. UNCHANGED <<held, sq, rq>>
  BY ClientEventFails
  DEF ReadComplete, RdmaEventFails, AwaitFailed, workVars
<1>2. PICK r \in {-1, ret[c]} : Fail(c, r)
  BY DEF ReadComplete, RdmaEventFails, AwaitFailed
<1>3. r \in Int
  BY TypeParts, ProcFacts DEF TypeInv, ProcTypes
<1>. QED
  BY <1>1, <1>2, <1>3, ClientFails

\* A step inside process_work_completion_event.
LEMMA CallHolds ==
  ASSUME TypeInv, ResourcesInv, NEW p \in Procs,
         GetCqEvent(p) \/ ReqNotifyCq(p) \/ PollCq(p) \/ WorkCompletionError(p)
  PROVE  ResourcesInv'
<1>1. UNCHANGED <<pc, held, sq, rq>>
  BY DEF GetCqEvent, ReqNotifyCq, PollCq, WorkCompletionError, workVars
<1>2. /\ wait[p] # "none" /\ wait'[p] # "none"
      /\ \A q \in Procs : q # p => wait'[q] = wait[q]
  BY TypeParts
  DEF TypeInv, ProcTypes, GetCqEvent, ReqNotifyCq, PollCq, WorkCompletionError,
      Returned
<1>3. ASSUME NEW c \in Clients
      PROVE  ClientHolds(pc'[c], wait'[c], held'[c], sq'[c], rq'[c])
  <2>1. c \in Procs
    BY ProcFacts
  <2>2. ClientNeeds(pc[c], wait[c], held[c]) =>
          ClientNeeds(pc[c], wait'[c], held[c])
    BY <1>2, <2>1 DEF ClientNeeds
  <2>. QED
    BY <1>1, <2>2 DEF ResourcesInv, ClientHolds
<1>. QED
  BY <1>1, <1>3 DEF ResourcesInv

-----------------------------------------------------------------------------
(* Cleanup.                                                                *)

\* The orders of cleanup_client and cleanup_server: when an object is next,
\* what is made from it has gone.
LEMMA ClientOrder ==
  ASSUME NEW h \in SUBSET ToSet(ClientRelease), Deps(h),
         NEW i \in DOMAIN ClientRelease,
         \A j \in 1 .. i - 1 : ClientRelease[j] \notin h
  PROVE  Deps(h \ {ClientRelease[i]})
<1>1. i \in 1 .. 13
  BY DEF ClientRelease
<1>2. /\ ClientRelease[1] = "src_buffer" /\ ClientRelease[2] = "dst_buffer"
      /\ ClientRelease[3] = "client_metadata_mr"
      /\ ClientRelease[4] = "client_src_mr"
      /\ ClientRelease[5] = "client_dst_mr"
      /\ ClientRelease[6] = "server_metadata_mr"
      /\ ClientRelease[7] = "queue_pair"
      /\ ClientRelease[8] = "completion_queue"
      /\ ClientRelease[9] = "completion_channel"
      /\ ClientRelease[10] = "protection_domain" /\ ClientRelease[11] = "rai"
      /\ ClientRelease[12] = "cm_client_id"
      /\ ClientRelease[13] = "cm_event_channel"
  BY DEF ClientRelease
<1>3. "server_buffer_mr" \notin h /\ "cm_server_id" \notin h
  BY ResourceNames
<1>4. CASE i \in {1, 2, 3, 4, 5, 6, 7, 11}
  BY <1>2, <1>4, DepsList
<1>5. CASE i = 8
  <2>1. "queue_pair" \notin h
    BY <1>2, <1>5
  <2>. QED
    BY <1>2, <1>5, <2>1, DepsList
<1>6. CASE i = 9
  <2>1. "completion_queue" \notin h
    BY <1>2, <1>6
  <2>. QED
    BY <1>2, <1>6, <2>1, DepsList
<1>7. CASE i = 10
  <2>1. /\ "queue_pair" \notin h /\ "client_metadata_mr" \notin h
        /\ "server_metadata_mr" \notin h /\ "client_src_mr" \notin h
        /\ "client_dst_mr" \notin h
    BY <1>2, <1>7
  <2>. QED
    BY <1>2, <1>3, <1>7, <2>1, DepsList
<1>8. CASE i = 12
  <2>1. "queue_pair" \notin h
    BY <1>2, <1>8
  <2>. QED
    BY <1>2, <1>8, <2>1, DepsList
<1>9. CASE i = 13
  <2>1. "cm_client_id" \notin h
    BY <1>2, <1>9
  <2>. QED
    BY <1>2, <1>3, <1>9, <2>1, DepsList
<1>. QED
  BY <1>1, <1>4, <1>5, <1>6, <1>7, <1>8, <1>9

LEMMA ServerOrder ==
  ASSUME NEW h \in SUBSET (ToSet(ServerRelease) \cup Unreachable), Deps(h),
         NEW i \in DOMAIN ServerRelease,
         \A j \in 1 .. i - 1 : ServerRelease[j] \notin h
  PROVE  Deps(h \ {ServerRelease[i]})
<1>1. i \in 1 .. 12
  BY DEF ServerRelease
<1>2. /\ ServerRelease[1] = "server_buffer"
      /\ ServerRelease[2] = "server_buffer_mr"
      /\ ServerRelease[3] = "server_metadata_mr"
      /\ ServerRelease[4] = "client_metadata_mr"
      /\ ServerRelease[5] = "queue_pair"
      /\ ServerRelease[6] = "completion_queue"
      /\ ServerRelease[7] = "completion_channel"
      /\ ServerRelease[8] = "protection_domain"
      /\ ServerRelease[9] = "cm_client_id"
      /\ ServerRelease[10] = "cm_server_id" /\ ServerRelease[11] = "rai"
      /\ ServerRelease[12] = "cm_event_channel"
  BY DEF ServerRelease
<1>3. "client_src_mr" \notin h /\ "client_dst_mr" \notin h
  BY ResourceNames DEF Unreachable
<1>4. CASE i \in {1, 2, 3, 4, 5, 10, 11}
  BY <1>2, <1>4, DepsList
<1>5. CASE i = 6
  <2>1. "queue_pair" \notin h
    BY <1>2, <1>5
  <2>. QED
    BY <1>2, <1>5, <2>1, DepsList
<1>6. CASE i = 7
  <2>1. "completion_queue" \notin h
    BY <1>2, <1>6
  <2>. QED
    BY <1>2, <1>6, <2>1, DepsList
<1>7. CASE i = 8
  <2>1. /\ "queue_pair" \notin h /\ "client_metadata_mr" \notin h
        /\ "server_metadata_mr" \notin h /\ "server_buffer_mr" \notin h
    BY <1>2, <1>7
  <2>. QED
    BY <1>2, <1>3, <1>7, <2>1, DepsList
<1>8. CASE i = 9
  <2>1. "queue_pair" \notin h
    BY <1>2, <1>8
  <2>. QED
    BY <1>2, <1>8, <2>1, DepsList
<1>9. CASE i = 12
  <2>1. "cm_client_id" \notin h /\ "cm_server_id" \notin h
    BY <1>2, <1>9
  <2>. QED
    BY <1>2, <1>9, <2>1, DepsList
<1>. QED
  BY <1>1, <1>4, <1>5, <1>6, <1>7, <1>8, <1>9

\* Nothing is needed, and nothing posted, once a client releases or is over.
LEMMA QuietHolds ==
  ASSUME NEW l \in Quiet, NEW w, NEW h, Deps(h), h \subseteq ToSet(ClientRelease)
  PROVE  ClientHolds(l, w, h, <<>>, 0)
BY ToSetOfNone DEF ClientHolds, ClientNeeds, Posted, NonePosted, Quiet

LEMMA ReleasesHolds ==
  ASSUME TypeInv, ResourcesInv, NEW p \in Procs, NEW r, Releases(p, r),
         sq' \in {sq, [sq EXCEPT ![p] = <<>>]},
         rq' \in {rq, [rq EXCEPT ![p] = 0]}
  PROVE  ResourcesInv'
<1>1. ProcTypes /\ WorkTypes
  BY TypeParts DEF TypeInv
<1>2. /\ pc[p] = "release" /\ UNCHANGED <<pc, wait>>
      /\ held' = [held EXCEPT ![p] = @ \ {r}]
  BY DEF Releases
<1>3. /\ held'[p] = held[p] \ {r} /\ pc'[p] = "release"
      /\ \A q \in Procs : q # p =>
           held'[q] = held[q] /\ sq'[q] = sq[q] /\ rq'[q] = rq[q]
  BY <1>1, <1>2 DEF ProcTypes, WorkTypes
<1>4. PICK i \in DOMAIN ReleaseOrder(p) :
        /\ r = ReleaseOrder(p)[i]
        /\ \A j \in 1 .. i - 1 : ReleaseOrder(p)[j] \notin held[p]
  BY DEF Releases
<1>5. Ended(pc'[p], held'[p])
  BY <1>3 DEF Ended
<1>6. CASE p = Server
  <2>1. Deps(held[Server]) /\ held[Server] \in
          SUBSET (ToSet(ServerRelease) \cup Unreachable)
    BY DEF ResourcesInv, ServerHolds
  <2>2. ReleaseOrder(p) = ServerRelease
    BY <1>6 DEF ReleaseOrder
  <2>3. Deps(held[Server] \ {r})
    BY <1>4, <1>6, <2>1, <2>2, ServerOrder
  <2>4. ServerHolds("release", held[Server] \ {r})
    BY <2>1, <2>3 DEF ServerHolds, ServerNeeds
  <2>. QED
    BY <1>2, <1>3, <1>5, <1>6, <2>4, ServerAlone, ProcFacts
<1>7. CASE p # Server
  <2>1. p \in Clients
    BY <1>7, ProcFacts
  <2>2. /\ Deps(held[p]) /\ held[p] \in SUBSET ToSet(ClientRelease)
        /\ sq[p] = <<>> /\ rq[p] = 0
    BY <1>2, <2>1 DEF ResourcesInv, ClientHolds, NonePosted, Quiet
  <2>3. ReleaseOrder(p) = ClientRelease
    BY <1>7 DEF ReleaseOrder
  <2>4. Deps(held[p] \ {r})
    BY <1>4, <2>2, <2>3, ClientOrder
  <2>5. sq'[p] = <<>> /\ rq'[p] = 0
    BY <1>1, <2>2 DEF WorkTypes
  <2>6. ClientHolds("release", wait'[p], held[p] \ {r}, <<>>, 0)
    BY <2>2, <2>4, QuietHolds DEF Quiet
  <2>. QED
    BY <1>2, <1>3, <1>5, <2>1, <2>5, <2>6, ClientAlone
<1>. QED
  BY <1>6, <1>7

LEMMA ReleaseStepHolds ==
  ASSUME TypeInv, ResourcesInv, NEW p \in Procs,
         FreePlain(p) \/ DestroyQp(p) \/ DestroyCq(p)
  PROVE  ResourcesInv'
<1>1. PICK r : Releases(p, r)
  BY DEF FreePlain, DestroyQp, DestroyCq
<1>2. /\ sq' \in {sq, [sq EXCEPT ![p] = <<>>]}
      /\ rq' \in {rq, [rq EXCEPT ![p] = 0]}
  BY DEF FreePlain, DestroyQp, DestroyCq, workVars
<1>. QED
  BY <1>1, <1>2, ReleasesHolds

LEMMA ExitHolds ==
  ASSUME TypeInv, ResourcesInv, NEW p \in Procs, Exit(p)
  PROVE  ResourcesInv'
<1>1. /\ pc[p] = "release" /\ Goto(p, "exited")
      /\ UNCHANGED <<wait, held, sq, rq>>
      /\ ToSet(ReleaseOrder(p)) \cap held[p] = {}
  BY DEF Exit, workVars
<1>2. pc'[p] = "exited" /\ \A q \in Procs : q # p => pc'[q] = pc[q]
  BY <1>1, TypeParts DEF TypeInv, ProcTypes, Goto
<1>3. CASE p = Server
  <2>1. /\ held[Server] \subseteq ToSet(ServerRelease) \cup Unreachable
        /\ Deps(held[Server])
    BY DEF ResourcesInv, ServerHolds
  <2>2. ServerHolds("exited", held[Server])
    BY <2>1 DEF ServerHolds, ServerNeeds
  <2>3. held[Server] \subseteq Unreachable
    BY <1>1, <1>3, <2>1 DEF ReleaseOrder
  <2>. QED
    BY <1>1, <1>2, <1>3, <2>2, <2>3, ServerAlone, ProcFacts DEF Ended
<1>4. CASE p # Server
  <2>1. p \in Clients
    BY <1>4, ProcFacts
  <2>2. /\ Deps(held[p]) /\ held[p] \subseteq ToSet(ClientRelease)
        /\ sq[p] = <<>> /\ rq[p] = 0
    BY <1>1, <2>1 DEF ResourcesInv, ClientHolds, NonePosted, Quiet
  <2>3. ClientHolds("exited", wait[p], held[p], <<>>, 0)
    BY <2>2, QuietHolds DEF Quiet
  <2>4. held[p] \subseteq Unreachable
    BY <1>1, <1>4, <2>2 DEF ReleaseOrder
  <2>. QED
    BY <1>1, <1>2, <2>1, <2>2, <2>3, <2>4, ClientAlone DEF Ended
<1>. QED
  BY <1>3, <1>4

\* A queue pair in the error state has nothing posted to it.
LEMMA NothingPosted ==
  ASSUME NEW l, NEW w, NEW h, NEW s, NEW n, ClientHolds(l, w, h, s, n)
  PROVE  ClientHolds(l, w, h, <<>>, 0)
BY ToSetOfNone DEF ClientHolds, Posted, NonePosted

LEMMA DisconnectHolds ==
  ASSUME TypeInv, ResourcesInv, NEW c \in Clients, Disconnect(c)
  PROVE  ResourcesInv'
<1>1. ProcTypes /\ WorkTypes /\ c \in Procs
  BY TypeParts, ProcFacts DEF TypeInv
<1>2. UNCHANGED <<wait, held>> /\ pc[c] = "cleanup"
  BY DEF Disconnect
<1>3. PICK l \in {"disconnected", "release"} : Goto(c, l)
  BY DEF Disconnect
<1>4. l \in Locations /\ l \in Quiet
  BY DEF Locations, Quiet
<1>5. pc'[c] = l /\ \A q \in Procs : q # c => pc'[q] = pc[q]
  BY <1>1, <1>3, <1>4, GotoTypes
<1>6. Deps(held[c]) /\ held[c] \subseteq ToSet(ClientRelease)
  BY DEF ResourcesInv, ClientHolds
<1>7. /\ sq'[c] = <<>> /\ rq'[c] = 0
      /\ \A q \in Procs : q # c => sq'[q] = sq[q] /\ rq'[q] = rq[q]
  <2>1. CASE QpsToError({c})
    BY <1>1, <2>1 DEF QpsToError
  <2>2. CASE UNCHANGED workVars /\ "queue_pair" \notin held[c]
    BY <2>2 DEF ResourcesInv, ClientHolds, NonePosted, workVars
  <2>3. CASE "cm_client_id" \in held[c]
    BY <2>1, <2>2, <2>3 DEF Disconnect
  <2>4. CASE "cm_client_id" \notin held[c]
    <3>1. "queue_pair" \notin held[c]
      BY <1>6, <2>4, DepsList
    <3>. QED
      BY <2>2, <2>4, <3>1 DEF Disconnect
  <2>. QED
    BY <2>3, <2>4
<1>8. ClientHolds(l, wait[c], held[c], <<>>, 0)
  BY <1>4, <1>6, QuietHolds
<1>9. Ended(pc'[c], held'[c])
  BY <1>3, <1>5 DEF Ended
<1>. QED
  BY <1>2, <1>5, <1>7, <1>8, <1>9, ClientAlone

LEMMA ClientDiesHolds ==
  ASSUME TypeInv, ResourcesInv, NEW c \in Clients, ClientDies(c)
  PROVE  ResourcesInv'
<1>1. ProcTypes /\ WorkTypes /\ c \in Procs
  BY TypeParts, ProcFacts DEF TypeInv
<1>2. /\ held'[c] = {} /\ sq'[c] = <<>> /\ rq'[c] = 0
      /\ \A q \in Procs : q # c =>
           /\ wait'[q] = wait[q] /\ held'[q] = held[q]
           /\ sq'[q] = sq[q] /\ rq'[q] = rq[q]
  BY <1>1 DEF ClientDies, ProcTypes, WorkTypes
<1>3. pc'[c] = "killed" /\ \A q \in Procs : q # c => pc'[q] = pc[q]
  BY <1>1 DEF ClientDies, Goto, ProcTypes
<1>4. ClientHolds("killed", wait'[c], {}, <<>>, 0)
  <2>1. Deps({})
    BY DEF Deps
  <2>. QED
    BY <2>1, QuietHolds DEF Quiet
<1>. QED
  BY <1>2, <1>3, <1>4, ClientAlone DEF Ended

LEMMA ClientCleanupHolds ==
  ASSUME TypeInv, ResourcesInv, NEW c \in Clients,
         cleanup_client(c) \/ KillClient(c)
  PROVE  ResourcesInv'
<1>1. c \in Procs
  BY ProcFacts
<1>2. CASE Disconnect(c)
  BY <1>2, DisconnectHolds
<1>3. CASE Disconnected(c) \/ NoDisconnected(c)
  <2>1. CASE ClientDies(c)
    BY <2>1, ClientDiesHolds
  <2>2. CASE Goto(c, "release") /\ UNCHANGED <<wait, held, workVars>>
    <3>1. "release" \in Quiet /\ "release" # "exited"
      BY DEF Quiet
    <3>2. /\ Deps(held[c]) /\ held[c] \subseteq ToSet(ClientRelease)
          /\ sq[c] = <<>> /\ rq[c] = 0
      BY <1>3
      DEF ResourcesInv, ClientHolds, NonePosted, Quiet, Disconnected,
          NoDisconnected
    <3>3. ClientHolds("release", wait[c], held[c], <<>>, 0)
      BY <3>1, <3>2, QuietHolds
    <3>4. pc'[c] = "release" /\ \A q \in Procs : q # c => pc'[q] = pc[q]
      BY <1>1, <2>2, TypeParts DEF TypeInv, ProcTypes, Goto
    <3>. QED
      BY <2>2, <3>2, <3>3, <3>4, ClientAlone DEF Ended, workVars
  <2>. QED
    BY <1>3, <2>1, <2>2 DEF Disconnected, NoDisconnected
<1>4. CASE FreePlain(c) \/ DestroyQp(c) \/ DestroyCq(c)
  BY <1>1, <1>4, ReleaseStepHolds
<1>5. CASE ClientDestroysId(c) \/ ClientDestroysChannel(c)
  <2>1. PICK r : Releases(c, r)
    BY <1>5 DEF ClientDestroysId, ClientDestroysChannel
  <2>2. UNCHANGED <<sq, rq>>
    BY <1>5 DEF ClientDestroysId, ClientDestroysChannel, workVars
  <2>. QED
    BY <1>1, <2>1, <2>2, ReleasesHolds
<1>6. CASE Exit(c)
  BY <1>1, <1>6, ExitHolds
<1>7. CASE KillClient(c)
  BY <1>7, ClientDiesHolds DEF KillClient
<1>. QED
  BY <1>2, <1>3, <1>4, <1>5, <1>6, <1>7 DEF cleanup_client

LEMMA ClientStepHolds ==
  ASSUME TypeInv, ResourcesInv, NEW c \in Clients, ClientStep(c) \/ KillClient(c)
  PROVE  ResourcesInv'
<1>1. c \in Procs
  BY ProcFacts
<1>2. CASE \/ SetupClient(c) \/ AddrResolved(c) \/ RouteResolved(c)
           \/ setup_protection_domain(c) \/ create_completion_channel(c)
           \/ create_completion_queue(c) \/ setup_queue_pairs(c)
           \/ ClientPostsRecv(c) \/ connect_to_server(c) \/ ClientEstablished(c)
  BY <1>2, ClientSetupHolds, ClientRouteHolds, ClientConnectHolds
<1>3. CASE \/ exchange_metadata_with_server(c) \/ client_write_message(c)
           \/ client_read_message(c) \/ ReadComplete(c)
           \/ RdmaEventFails(c) \/ WorkCompletionEvent(c)
  BY <1>1, <1>3, ClientExchangeHolds, ClientWriteHolds, ClientReadHolds,
     ClientEndsHolds, CallHolds DEF WorkCompletionEvent
<1>4. CASE cleanup_client(c) \/ KillClient(c)
  BY <1>4, ClientCleanupHolds
<1>. QED
  BY <1>2, <1>3, <1>4 DEF ClientStep

-----------------------------------------------------------------------------
(* The server.                                                             *)

\* What the server may allocate.
ServerOwn == ToSet(ServerRelease) \cup Unreachable

\* The posted requests of the clients are not touched.
ClientsKeep ==
  \A c \in Clients : wait'[c] = wait[c] /\ sq'[c] = sq[c] /\ rq'[c] = rq[c]

LEMMA ServerGoes ==
  ASSUME TypeInv, ResourcesInv, NEW l \in Locations, Goto(Server, l),
         l # "exited", NEW X \in SUBSET ServerOwn, Holding(Server, X),
         ClientsKeep, Deps(held[Server] \cup X),
         ServerNeeds(l, held[Server] \cup X)
  PROVE  ResourcesInv'
<1>1. ProcTypes /\ Server \in Procs /\ \A c \in Clients : c \in Procs /\ c # Server
  BY TypeParts, ProcFacts DEF TypeInv
<1>2. X \in SUBSET Resources
  BY DEF Resources, ServerOwn
<1>3. /\ held'[Server] = held[Server] \cup X
      /\ \A q \in Procs : q # Server => held'[q] = held[q]
  BY <1>1, <1>2, HoldingTypes
<1>4. pc'[Server] = l /\ \A q \in Procs : q # Server => pc'[q] = pc[q]
  BY <1>1, GotoTypes
<1>5. ServerHolds(l, held[Server] \cup X)
  BY DEF ResourcesInv, ServerHolds, ServerOwn
<1>6. Ended(pc'[Server], held'[Server])
  BY <1>4 DEF Ended
<1>. QED
  BY <1>1, <1>3, <1>4, <1>5, <1>6, ServerAlone DEF ClientsKeep

LEMMA ServerFailsHolding ==
  ASSUME TypeInv, ResourcesInv, NEW X \in SUBSET ServerOwn,
         Holding(Server, X), NEW r \in Int, Fail(Server, r),
         UNCHANGED <<sq, rq>>, Deps(held[Server] \cup X)
  PROVE  ResourcesInv'
<1>1. Goto(Server, "release") /\ "release" \in Locations /\ "release" # "exited"
  BY DEF Fail, Locations
<1>2. ClientsKeep
  BY TypeParts, ProcFacts DEF TypeInv, ProcTypes, Fail, ClientsKeep
<1>3. ServerNeeds("release", held[Server] \cup X)
  BY DEF ServerNeeds
<1>. QED
  BY <1>1, <1>2, <1>3, ServerGoes

\* The server goes on to l, or fails, without allocating anything.
LEMMA ServerGoesOn ==
  ASSUME TypeInv, ResourcesInv, NEW l \in Locations, Goto(Server, l),
         l # "exited", UNCHANGED held, ClientsKeep,
         ServerNeeds(l, held[Server])
  PROVE  ResourcesInv'
<1>1. Holding(Server, {}) /\ {} \in SUBSET ServerOwn
  <2>1. held = [held EXCEPT ![Server] = @ \cup {}]
    BY TypeParts, ProcFacts DEF TypeInv, ProcTypes
  <2>. QED
    BY <2>1 DEF Holding
<1>2. held[Server] \cup {} = held[Server]
  OBVIOUS
<1>3. Deps(held[Server] \cup {}) /\ ServerNeeds(l, held[Server] \cup {})
  BY <1>2 DEF ResourcesInv, ServerHolds
<1>. QED
  BY <1>1, <1>3, ServerGoes

LEMMA ServerFails ==
  ASSUME TypeInv, ResourcesInv, NEW r \in Int, Fail(Server, r),
         UNCHANGED <<held, sq, rq>>
  PROVE  ResourcesInv'
<1>1. Goto(Server, "release") /\ "release" \in Locations /\ "release" # "exited"
  BY DEF Fail, Locations
<1>2. ClientsKeep
  BY TypeParts, ProcFacts DEF TypeInv, ProcTypes, Fail, ClientsKeep
<1>3. ServerNeeds("release", held[Server])
  BY DEF ServerNeeds
<1>. QED
  BY <1>1, <1>2, <1>3, ServerGoesOn

LEMMA ServerSetupHolds ==
  ASSUME TypeInv, ResourcesInv,
         SetupServer \/ ConnectRequest \/ setup_communication_resources
  PROVE  ResourcesInv'
<1>1. /\ Deps(held[Server]) /\ ServerNeeds(pc[Server], held[Server])
      /\ -1 \in Int
  BY DEF ResourcesInv, ServerHolds
<1>2. UNCHANGED <<sq, rq>>
  BY DEF SetupServer, ConnectRequest, setup_communication_resources, workVars
<1>3. {"connect_request", "setup_communication_resources",
       "post_metadata_recv_buffer"} \subseteq Locations
  BY DEF Locations
<1>4. /\ "connect_request" # "exited"
      /\ "setup_communication_resources" # "exited"
      /\ "post_metadata_recv_buffer" # "exited"
  OBVIOUS
<1>5. ASSUME wait' = [wait EXCEPT ![Server] = "none"] \/ UNCHANGED wait
      PROVE  ClientsKeep
  BY <1>2, <1>5, TypeParts, ProcFacts DEF TypeInv, ProcTypes, ClientsKeep
<1>6. CASE SetupServer
  <2>. DEFINE all == {"cm_event_channel", "cm_server_id", "rai"}
  <2>1. /\ ToSet(<<"cm_event_channel", "cm_server_id", "rai">>) = all
        /\ all \in SUBSET ServerOwn
    BY ToSetOfThree, ResourceNames DEF ServerOwn
  <2>2. CASE Holding(Server, all) /\ Goto(Server, "connect_request")
             /\ UNCHANGED wait
    <3>1. /\ Deps(held[Server] \cup all)
          /\ ServerNeeds("connect_request", held[Server] \cup all)
      BY <1>1, DepsList DEF ServerNeeds
    <3>. HIDE DEF all
    <3>. QED
      BY <1>3, <1>4, <1>5, <2>1, <2>2, <3>1, ServerGoes
  <2>3. CASE FailsPartway(Server, <<"cm_event_channel", "cm_server_id", "rai">>)
    <3>1. PICK X \in {{}, {"cm_event_channel"},
                      {"cm_event_channel", "cm_server_id"},
                      {"cm_event_channel", "cm_server_id", "rai"}} :
            Holding(Server, X)
      BY <2>3, BeginningsOfThree DEF FailsPartway
    <3>2. Fail(Server, -1)
      BY <2>3 DEF FailsPartway
    <3>3. X \in SUBSET ServerOwn
      BY <2>1
    <3>4. Deps(held[Server] \cup X)
      BY <1>1, DepsList
    <3>. QED
      BY <1>1, <1>2, <3>1, <3>2, <3>3, <3>4, ServerFailsHolding
  <2>. QED
    BY <1>6, <2>1, <2>2, <2>3 DEF SetupServer
<1>7. CASE ConnectRequest
  <2>. DEFINE id == {"cm_client_id"}
  <2>1. /\ Holding(Server, id) /\ Goto(Server, "setup_communication_resources")
        /\ UNCHANGED wait /\ pc[Server] = "connect_request"
    BY <1>7 DEF ConnectRequest
  <2>2. id \in SUBSET ServerOwn
    BY ResourceNames DEF ServerOwn
  <2>3. "cm_event_channel" \in held[Server]
    BY <1>1, <2>1 DEF ServerNeeds
  <2>4. Deps(held[Server] \cup id)
    BY <1>1, <2>3, DepsList
  <2>5. ServerNeeds("setup_communication_resources", held[Server] \cup id)
    BY <2>3 DEF ServerNeeds
  <2>. HIDE DEF id
  <2>. QED
    BY <1>3, <1>4, <1>5, <2>1, <2>2, <2>4, <2>5, ServerGoes
<1>8. CASE setup_communication_resources
  <2>. DEFINE all == {"protection_domain", "completion_channel",
                      "completion_queue"}
  <2>1. ToSet(<<"protection_domain", "completion_channel",
                "completion_queue">>) = all
    BY ToSetOfThree
  <2>2. \A X \in SUBSET (all \cup {"queue_pair"}) : X \in SUBSET ServerOwn
    BY ResourceNames DEF ServerOwn
  <2>3. "cm_client_id" \in held[Server]
    BY <1>1, <1>8 DEF ServerNeeds, setup_communication_resources
  <2>4. ASSUME NEW X \in {all, all \cup {"queue_pair"}}, Holding(Server, X),
               Goto(Server, "post_metadata_recv_buffer"),
               wait' = [wait EXCEPT ![Server] = "none"] \/ UNCHANGED wait
        PROVE  ResourcesInv'
    <3>1. /\ Deps(held[Server] \cup X)
          /\ ServerNeeds("post_metadata_recv_buffer", held[Server] \cup X)
      <4>1. CASE X = all
        BY <1>1, <4>1, DepsList DEF ServerNeeds
      <4>2. CASE X = all \cup {"queue_pair"}
        BY <1>1, <2>3, <4>2, DepsList DEF ServerNeeds
      <4>. QED
        BY <2>4, <4>1, <4>2
    <3>2. X \in SUBSET ServerOwn
      BY <2>2
    <3>. HIDE DEF all
    <3>. QED
      BY <1>3, <1>4, <1>5, <2>4, <3>1, <3>2, ServerGoes
  <2>5. CASE FailsPartway(Server, <<"protection_domain", "completion_channel",
                                    "completion_queue">>)
    <3>1. PICK X \in {{}, {"protection_domain"},
                      {"protection_domain", "completion_channel"},
                      {"protection_domain", "completion_channel",
                       "completion_queue"}} :
            Holding(Server, X)
      BY <2>5, BeginningsOfThree DEF FailsPartway
    <3>2. Fail(Server, -1)
      BY <2>5 DEF FailsPartway
    <3>3. X \in SUBSET ServerOwn
      BY <2>2
    <3>4. Deps(held[Server] \cup X)
      BY <1>1, DepsList
    <3>. QED
      BY <1>1, <1>2, <3>1, <3>2, <3>3, <3>4, ServerFailsHolding
  <2>6. CASE FailsUnnoticed(Server, all, "post_metadata_recv_buffer")
    BY <2>4, <2>6 DEF FailsUnnoticed
  <2>. QED
    BY <1>8, <2>1, <2>4, <2>5, <2>6 DEF setup_communication_resources
<1>. QED
  BY <1>6, <1>7, <1>8

LEMMA ServerConnectHolds ==
  ASSUME TypeInv, ResourcesInv,
         ServerPostsRecv \/ accept_client_connection \/ ServerEstablished
  PROVE  ResourcesInv'
<1>1. /\ Deps(held[Server]) /\ ServerNeeds(pc[Server], held[Server])
      /\ -1 \in Int
  BY DEF ResourcesInv, ServerHolds
<1>2. "protection_domain" \in held[Server]
  BY <1>1
  DEF ServerNeeds, ServerPostsRecv, accept_client_connection, ServerEstablished
<1>3. ServerOwn # {} /\ {"accept_client_connection", "established",
       "exchange_metadata_with_client"} \subseteq Locations
  BY DEF Locations, ServerOwn, Unreachable
<1>4. CASE ServerPostsRecv
  <2>. DEFINE mr == {"client_metadata_mr"}
  <2>1. mr \in SUBSET ServerOwn /\ {} \in SUBSET ServerOwn
    BY ResourceNames DEF ServerOwn
  <2>2. Deps(held[Server] \cup mr)
    BY <1>1, <1>2, DepsList
  <2>3. ServerNeeds("accept_client_connection", held[Server] \cup mr)
    BY <1>2 DEF ServerNeeds
  <2>4. UNCHANGED sq
    BY <1>4 DEF ServerPostsRecv
  <2>5. CASE /\ Holding(Server, mr) /\ Goto(Server, "accept_client_connection")
             /\ rq' = [rq EXCEPT ![Server] = @ + 1] /\ UNCHANGED wait
    <3>1. ClientsKeep
      BY <2>4, <2>5, TypeParts, ProcFacts DEF TypeInv, WorkTypes, ClientsKeep
    <3>2. "accept_client_connection" # "exited"
      OBVIOUS
    <3>. HIDE DEF mr
    <3>. QED
      BY <1>3, <2>1, <2>2, <2>3, <2>5, <3>1, <3>2, ServerGoes
  <2>6. CASE FailsPartway(Server, <<"client_metadata_mr">>) /\ UNCHANGED rq
    <3>1. PICK X \in {{}, {"client_metadata_mr"}} : Holding(Server, X)
      BY <2>6, BeginningsOfOne DEF FailsPartway
    <3>2. Fail(Server, -1)
      BY <2>6 DEF FailsPartway
    <3>3. Deps(held[Server] \cup X)
      BY <1>1, <1>2, DepsList
    <3>. QED
      BY <1>1, <2>1, <2>4, <2>6, <3>1, <3>2, <3>3, ServerFailsHolding
  <2>. QED
    BY <1>4, <2>5, <2>6 DEF ServerPostsRecv
<1>5. CASE accept_client_connection
  <2>1. UNCHANGED <<sq, rq>>
    BY <1>5 DEF accept_client_connection
  <2>2. CASE Goto(Server, "established") /\ UNCHANGED <<wait, held>>
    <3>1. ServerNeeds("established", held[Server])
      BY <1>2 DEF ServerNeeds
    <3>2. ClientsKeep /\ "established" # "exited"
      BY <2>1, <2>2 DEF ClientsKeep
    <3>. QED
      BY <1>3, <2>2, <3>1, <3>2, ServerGoesOn
  <2>3. CASE FailsPartway(Server, <<>>)
    <3>1. Holding(Server, {}) /\ Fail(Server, -1) /\ {} \in SUBSET ServerOwn
      BY <2>3, FailsWithNone
    <3>2. held[Server] \cup {} = held[Server]
      OBVIOUS
    <3>3. Deps(held[Server] \cup {})
      BY <1>1, <3>2
    <3>. QED
      BY <1>1, <2>1, <3>1, <3>3, ServerFailsHolding
  <2>. QED
    BY <1>5, <2>2, <2>3 DEF accept_client_connection
<1>6. CASE ServerEstablished
  <2>1. /\ Goto(Server, "exchange_metadata_with_client")
        /\ UNCHANGED <<held, sq, rq>> /\ AwaitCompletions(Server)
    BY <1>6 DEF ServerEstablished, workVars
  <2>2. ClientsKeep
    BY <2>1, TypeParts, ProcFacts
    DEF TypeInv, ProcTypes, ClientsKeep, AwaitCompletions
  <2>3. ServerNeeds("exchange_metadata_with_client", held[Server])
    BY <1>2 DEF ServerNeeds
  <2>4. "exchange_metadata_with_client" # "exited"
    OBVIOUS
  <2>. QED
    BY <1>3, <2>1, <2>2, <2>3, <2>4, ServerGoesOn
<1>. QED
  BY <1>4, <1>5, <1>6

LEMMA ServerSendsHolds ==
  ASSUME TypeInv, ResourcesInv, SendServerMetadata
  PROVE  ResourcesInv'
<1>. DEFINE all == {"server_buffer", "server_buffer_mr", "server_metadata_mr"}
<1>1. /\ pc[Server] = "exchange_metadata_with_client" /\ UNCHANGED rq
      /\ -1 \in Int
  BY DEF SendServerMetadata
<1>2. Deps(held[Server]) /\ "protection_domain" \in held[Server]
  BY <1>1 DEF ResourcesInv, ServerHolds, ServerNeeds
<1>3. \A X \in SUBSET (all \cup {"leaked_buffer"}) :
        X \in SUBSET ServerOwn /\ Deps(held[Server] \cup X)
  BY <1>2, ResourceNames, DepsList DEF ServerOwn, Unreachable
<1>4. CASE /\ Holding(Server, all) /\ PostSend(Server, "SEND")
           /\ AwaitCompletions(Server) /\ Goto(Server, "send_server_metadata")
  <2>1. ClientsKeep
    <3>1. wait' = [wait EXCEPT ![Server] = "get_event"]
      BY <1>4 DEF AwaitCompletions
    <3>2. \E s : sq' = sq \/ sq' = [sq EXCEPT ![Server] = s]
      BY <1>4 DEF PostSend
    <3>. QED
      BY <1>1, <3>1, <3>2, TypeParts, ProcFacts
      DEF TypeInv, ProcTypes, WorkTypes, ClientsKeep
  <2>2. ServerNeeds("send_server_metadata", held[Server] \cup all)
    BY <1>2 DEF ServerNeeds
  <2>3. "send_server_metadata" \in Locations /\ "send_server_metadata" # "exited"
    BY DEF Locations
  <2>4. all \in SUBSET ServerOwn /\ Deps(held[Server] \cup all)
    BY <1>3
  <2>. HIDE DEF all
  <2>. QED
    BY <1>4, <2>1, <2>2, <2>3, <2>4, ServerGoes
<1>5. ASSUME NEW X \in SUBSET (all \cup {"leaked_buffer"}), Holding(Server, X),
             Fail(Server, -1), UNCHANGED sq
      PROVE  ResourcesInv'
  BY <1>1, <1>3, <1>5, ServerFailsHolding
<1>6. CASE FailsUnnoticed(Server, all, "disconnect_from_client") /\ UNCHANGED sq
  <2>1. /\ Holding(Server, all) /\ Goto(Server, "disconnect_from_client")
        /\ wait' = [wait EXCEPT ![Server] = "none"]
    BY <1>6 DEF FailsUnnoticed
  <2>2. ClientsKeep
    BY <1>1, <1>6, <2>1, TypeParts, ProcFacts DEF TypeInv, ProcTypes, ClientsKeep
  <2>3. ServerNeeds("disconnect_from_client", held[Server] \cup all)
    BY DEF ServerNeeds
  <2>4. /\ "disconnect_from_client" \in Locations
        /\ "disconnect_from_client" # "exited"
    BY DEF Locations
  <2>5. all \in SUBSET ServerOwn /\ Deps(held[Server] \cup all)
    BY <1>3
  <2>. HIDE DEF all
  <2>. QED
    BY <2>1, <2>2, <2>3, <2>4, <2>5, ServerGoes
<1>7. CASE /\ NoRdmaBuffer(meta[Server].length) /\ Fail(Server, -1)
           /\ UNCHANGED sq
  <2>1. PICK lost \in {{}, {"leaked_buffer"}} : Holding(Server, lost)
    BY <1>7 DEF NoRdmaBuffer
  <2>. QED
    BY <1>5, <1>7, <2>1
<1>8. CASE \E region \in {{}, {"server_metadata_mr"}} :
             /\ Holding(Server, {"server_buffer", "server_buffer_mr"} \cup region)
             /\ Fail(Server, -1) /\ UNCHANGED sq
  <2>1. PICK region \in {{}, {"server_metadata_mr"}} :
          /\ Holding(Server, {"server_buffer", "server_buffer_mr"} \cup region)
          /\ Fail(Server, -1) /\ UNCHANGED sq
    BY <1>8
  <2>2. {"server_buffer", "server_buffer_mr"} \cup region
          \in SUBSET (all \cup {"leaked_buffer"})
    OBVIOUS
  <2>. QED
    BY <1>5, <2>1, <2>2
<1>. QED
  BY <1>4, <1>6, <1>7, <1>8 DEF SendServerMetadata

LEMMA ServerEndsHolds ==
  ASSUME TypeInv, ResourcesInv,
         \/ ServerMetadataSent \/ disconnect_from_client
         \/ RdmaEventFails(Server) \/ AwaitFailed(Server)
  PROVE  ResourcesInv'
<1>1. UNCHANGED <<sq, rq>>
  BY DEF ServerMetadataSent, disconnect_from_client, RdmaEventFails,
         AwaitFailed, workVars
<1>2. CASE AwaitFailed(Server)
  <2>1. Fail(Server, ret[Server]) /\ UNCHANGED held
    BY <1>2 DEF AwaitFailed
  <2>2. ret[Server] \in Int
    BY TypeParts, ProcFacts DEF TypeInv, ProcTypes
  <2>. QED
    BY <1>1, <2>1, <2>2, ServerFails
<1>4. CASE RdmaEventFails(Server)
  <2>1. Fail(Server, -1) /\ -1 \in Int
    BY <1>4 DEF RdmaEventFails
  <2>2. CASE UNCHANGED held
    BY <1>1, <2>1, <2>2, ServerFails
  <2>3. CASE Holding(Server, {"leaked_cm_id"})
    <3>1. /\ {"leaked_cm_id"} \in SUBSET ServerOwn
          /\ Deps(held[Server] \cup {"leaked_cm_id"})
      BY DepsList DEF ServerOwn, Unreachable, ResourcesInv, ServerHolds
    <3>. QED
      BY <1>1, <2>1, <2>3, <3>1, ServerFailsHolding
  <2>. QED
    BY <1>4, <2>2, <2>3, EventFailsHolding, TypeParts, ProcFacts DEF TypeInv
<1>3. CASE ServerMetadataSent \/ disconnect_from_client
  <2>1. PICK l \in {"disconnect_from_client", "release"} : Goto(Server, l)
    BY <1>3 DEF ServerMetadataSent, disconnect_from_client
  <2>2. l \in Locations /\ l # "exited" /\ ServerNeeds(l, held[Server])
    BY DEF Locations, ServerNeeds
  <2>3. ClientsKeep
    BY <1>1, <1>3, TypeParts, ProcFacts
    DEF TypeInv, ProcTypes, ClientsKeep, ServerMetadataSent,
        disconnect_from_client
  <2>4. UNCHANGED held
    BY <1>3 DEF ServerMetadataSent, disconnect_from_client
  <2>. QED
    BY <1>1, <2>1, <2>2, <2>3, <2>4, ServerGoesOn
<1>. QED
  BY <1>2, <1>3, <1>4

LEMMA ServerDiesHolds ==
  ASSUME TypeInv, ResourcesInv, ServerDies
  PROVE  ResourcesInv'
<1>1. ProcTypes /\ WorkTypes /\ Server \in Procs
  BY TypeParts, ProcFacts DEF TypeInv
<1>2. /\ held'[Server] = {} /\ pc'[Server] = "killed"
      /\ \A c \in Clients :
           /\ pc'[c] = pc[c] /\ wait'[c] = wait[c] /\ held'[c] = held[c]
           /\ sq'[c] = sq[c] /\ rq'[c] = rq[c]
  BY <1>1, ProcFacts DEF ServerDies, Goto, ProcTypes, WorkTypes
<1>3. ServerHolds("killed", {})
  BY DEF ServerHolds, ServerNeeds, Deps
<1>. QED
  BY <1>2, <1>3, ServerAlone DEF Ended

LEMMA ServerStepHolds ==
  ASSUME TypeInv, ResourcesInv, ServerStep \/ KillServer
  PROVE  ResourcesInv'
<1>1. Server \in Procs
  BY ProcFacts
<1>2. CASE \/ SetupServer \/ ConnectRequest \/ setup_communication_resources
           \/ ServerPostsRecv \/ ServerPostsToNoQp \/ accept_client_connection
           \/ ServerEstablished \/ KillServer
  <2>1. CASE ServerPostsToNoQp /\ ~ServerDies
    <3>1. Fail(Server, -1) /\ -1 \in Int /\ UNCHANGED <<held, sq, rq>>
      BY <2>1 DEF ServerPostsToNoQp, workVars
    <3>. QED
      BY <3>1, ServerFails
  <2>. QED
    BY <1>2, <2>1, ServerSetupHolds, ServerConnectHolds, ServerDiesHolds
    DEF KillServer
<1>3. CASE \/ SendServerMetadata \/ ServerMetadataSent
           \/ disconnect_from_client \/ RdmaEventFails(Server)
           \/ WorkCompletionEvent(Server)
  BY <1>1, <1>3, ServerSendsHolds, ServerEndsHolds, CallHolds
  DEF WorkCompletionEvent
<1>4. CASE \/ FreePlain(Server) \/ DestroyQp(Server) \/ DestroyCq(Server)
           \/ Exit(Server)
  BY <1>1, <1>4, ReleaseStepHolds, ExitHolds
<1>5. CASE \/ ServerDestroysClientId \/ ServerDestroysServerId
           \/ ServerDestroysChannel
  <2>1. PICK r : Releases(Server, r)
    BY <1>5
    DEF ServerDestroysClientId, ServerDestroysServerId, ServerDestroysChannel
  <2>2. UNCHANGED <<sq, rq>>
    BY <1>5
    DEF ServerDestroysClientId, ServerDestroysServerId, ServerDestroysChannel,
        workVars
  <2>. QED
    BY <1>1, <2>1, <2>2, ReleasesHolds
<1>. QED
  BY <1>2, <1>3, <1>4, <1>5 DEF ServerStep, cleanup_server

-----------------------------------------------------------------------------
(* The device, and the theorems.                                           *)

\* The device takes requests from the queues, and adds none.
LEMMA FewerPosted ==
  ASSUME NEW l, NEW w, NEW h, NEW s \in Seq(Opcodes), NEW n \in Nat,
         ClientHolds(l, w, h, s, n), NEW t, NEW m \in Nat, m <= n,
         ToSet(t) \subseteq ToSet(s), s = <<>> => t = <<>>
  PROVE  ClientHolds(l, w, h, t, m)
BY DEF ClientHolds, Posted, NonePosted

LEMMA DeviceHolds ==
  ASSUME TypeInv, ResourcesInv, NEW p \in Procs, Device(p)
  PROVE  ResourcesInv'
<1>1. WorkTypes /\ CmTypes
  BY TypeParts DEF TypeInv
<1>2. UNCHANGED <<pc, wait, held>>
  BY DEF Device, procVars
<1>3. ASSUME NEW c \in Clients
      PROVE  /\ sq'[c] \in {sq[c], <<>>} \/ (sq[c] # <<>> /\ sq'[c] = Tail(sq[c]))
             /\ rq'[c] \in Nat /\ rq'[c] <= rq[c]
  <2>1. c \in Procs /\ sq[c] \in Seq(Opcodes) /\ rq[c] \in Nat
    BY <1>1, ProcFacts DEF WorkTypes
  <2>2. CASE CarryOut(p)
    <3>1. Remote(p) \in Procs
      BY <1>1, <2>2, RemoteType DEF CarryOut, CanCarryOut
    <3>2. sq'[c] \in {sq[c], <<>>} \/ (sq[c] # <<>> /\ sq'[c] = Tail(sq[c]))
      BY <1>1, <2>1, <2>2 DEF CarryOut, WorkTypes
    <3>3. CASE CarryOutSend(p)
      <4>1. rq[Remote(p)] > 0 /\ rq[Remote(p)] \in Nat
        BY <1>1, <2>2, <3>1, <3>3
        DEF CarryOut, CanCarryOut, CarryOutSend, WorkTypes
      <4>2. rq' = [rq EXCEPT ![Remote(p)] = @ - 1]
        BY <3>3 DEF CarryOutSend
      <4>3. rq'[c] \in {rq[c], rq[c] - 1} /\ (rq'[c] # rq[c] => rq[c] > 0)
        BY <1>1, <2>1, <3>1, <4>1, <4>2 DEF WorkTypes
      <4>. QED
        BY <2>1, <3>2, <4>3
    <3>4. CASE CarryOutWrite(p) \/ CarryOutRead(p)
      BY <2>1, <3>2, <3>4 DEF CarryOutWrite, CarryOutRead
    <3>. QED
      BY <2>2, <3>3, <3>4 DEF CarryOut
  <2>3. CASE Completes(p)
    BY <2>1, <2>3 DEF Completes
  <2>4. CASE CannotCarryOut(p)
    BY <2>1, <2>4 DEF CannotCarryOut, QpsToError
  <2>5. CASE AnswerLost(p)
    BY <1>1, <2>1, <2>5 DEF AnswerLost, WorkTypes
  <2>. QED
    BY <2>2, <2>3, <2>4, <2>5 DEF Device
<1>4. ASSUME NEW c \in Clients
      PROVE  ClientHolds(pc'[c], wait'[c], held'[c], sq'[c], rq'[c])
  <2>1. c \in Procs /\ sq[c] \in Seq(Opcodes) /\ rq[c] \in Nat
    BY <1>1, ProcFacts DEF WorkTypes
  <2>2. ToSet(sq'[c]) \subseteq ToSet(sq[c]) /\ (sq[c] = <<>> => sq'[c] = <<>>)
    BY <1>3, <2>1, ToSetTail, ToSetOfNone
  <2>3. ClientHolds(pc[c], wait[c], held[c], sq[c], rq[c])
    BY DEF ResourcesInv
  <2>4. ClientHolds(pc[c], wait[c], held[c], sq'[c], rq'[c])
    BY <1>3, <2>1, <2>2, <2>3, FewerPosted
  <2>. QED
    BY <1>2, <2>4
<1>. QED
  BY <1>2, <1>4 DEF ResourcesInv

LEMMA InitResourcesInv == Init => ResourcesInv
<1>. SUFFICES ASSUME Init PROVE ResourcesInv
  OBVIOUS
<1>1. ASSUME NEW c \in Clients
      PROVE  ClientHolds(pc[c], wait[c], held[c], sq[c], rq[c])
  <2>1. /\ pc[c] = "setup_client" /\ wait[c] = "none" /\ sq[c] = <<>>
        /\ rq[c] = 0 /\ held[c] = {"src_buffer"}
    BY ProcFacts DEF Init
  <2>2. Deps({"src_buffer"}) /\ {"src_buffer"} \subseteq ToSet(ClientRelease)
    BY DepsList, ResourceNames
  <2>. QED
    BY <2>1, <2>2, ToSetOfNone DEF ClientHolds, ClientNeeds, Posted, NonePosted
<1>2. ServerHolds(pc[Server], held[Server])
  <2>1. pc[Server] = "setup_server" /\ held[Server] = {}
    BY ProcFacts DEF Init
  <2>. QED
    BY <2>1 DEF ServerHolds, ServerNeeds, Deps
<1>3. \A p \in Procs : Ended(pc[p], held[p])
  BY DEF Init, Ended
<1>. QED
  BY <1>1, <1>2, <1>3 DEF ResourcesInv

LEMMA NextResourcesInv == TypeInv /\ ResourcesInv /\ [Next]_vars => ResourcesInv'
<1>. SUFFICES ASSUME TypeInv, ResourcesInv, [Next]_vars PROVE ResourcesInv'
  OBVIOUS
<1>1. CASE UNCHANGED <<pc, wait, held, sq, rq>>
  BY <1>1 DEF ResourcesInv
<1>2. CASE \E c \in Clients : ClientStep(c) \/ KillClient(c)
  BY <1>2, ClientStepHolds
<1>3. CASE \E c \in Clients : Cm(c)
  BY <1>1, <1>3 DEF Cm, procVars, workVars
<1>4. CASE ServerStep \/ KillServer
  BY <1>4, ServerStepHolds
<1>5. CASE \E p \in Procs : Device(p)
  BY <1>5, DeviceHolds
<1>6. CASE UNCHANGED vars
  BY <1>1, <1>6 DEF vars, procVars, workVars
<1>. QED
  BY <1>2, <1>3, <1>4, <1>5, <1>6 DEF Next, Terminated

\* At every point of main and of the cleanup functions a program holds what its
\* posted requests and its next calls use, and no object within its reach
\* without those it is made from; it holds nothing that its cleanup function
\* does not release, but for what a server can no longer reach, whatever failed
\* on the way (rdma_client.c:729-838, rdma_server.c:614-674).
THEOREM ResourcesInvCorrect == Spec => []ResourcesInv
BY InitResourcesInv, NextResourcesInv, TypeInvCorrect, PTL DEF Spec

\* In every order in which the programs allocate, fail, are killed and clean
\* up, each verbs object they can reach outlives those made from it.
THEOREM ReachableFirstCorrect == Spec => []ReachableFirst
<1>1. ResourcesInv => ReachableFirst
  <2>. SUFFICES ASSUME ResourcesInv, NEW p \in Procs PROVE Deps(held[p])
    BY DEF ReachableFirst, OutlivedBy, Deps
  <2>. QED
    BY ProcFacts DEF ResourcesInv, ClientHolds, ServerHolds
<1>. QED
  BY <1>1, ResourcesInvCorrect, PTL

\* The device never has a request whose memory region the client has given
\* back: cleanup_client deregisters the regions first, but only when nothing
\* is posted any more.
THEOREM RegionsRegisteredCorrect == Spec => []ClientRegionsRegistered
<1>1. ResourcesInv => ClientRegionsRegistered
  BY DEF ResourcesInv, ClientHolds, Posted, ClientRegionsRegistered,
         PostedRegions
<1>. QED
  BY <1>1, ResourcesInvCorrect, PTL
=============================================================================
