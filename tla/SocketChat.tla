----------------------------- MODULE SocketChat -----------------------------
(***************************************************************************)
(* socket_client.c and socket_server.c: clients that each send one line to *)
(* a server, which accepts one connection at a time and prints what it     *)
(* reads until the client has disconnected.  TCP and the kernel's queue of *)
(* pending connections are external: a message is a stream of bytes that   *)
(* read takes in pieces of any size.  Byte i of client c is <<c, i>>.      *)
(***************************************************************************)
EXTENDS Integers, SequencesExt

CONSTANTS
  Clients,       \* the socket-client processes
  None,          \* no file descriptor; also the -1 of a failed accept
  MAX_MSG_SIZE,  \* of socket_common.h
  Backlog,       \* max_client_connections
  PortChoices,   \* ports the programs are started with
  LineLengths,   \* how much is typed on a client's stdin
  Faults         \* what can go wrong: see FaultNames

FaultNames ==
  {"call",    \* socket, bind, listen or connect fails
   "accept",  \* accept fails
   "reset",   \* a connection is lost
   "kill"}    \* a process is killed

ASSUME ClientsAssumption == None \notin Clients
ASSUME SizesAssumption == MAX_MSG_SIZE \in Nat \ {0} /\ Backlog \in Nat \ {0}
ASSUME InputAssumption == PortChoices \subseteq Nat /\ LineLengths \subseteq Nat
ASSUME FaultsAssumption == Faults \subseteq FaultNames

VARIABLES
  pc,         \* where client c is
  link,       \* the connection of client c, as the server's read finds it
  sent,       \* bytes client c has put into the connection
  taken,      \* how many of them the server has read
  pending,    \* connections that wait to be accepted
  port,       \* the port the server listens on; 0 if it does not
  serving,    \* the function the server is in
  fd,         \* client_sockfd: the client behind it
  buffer,     \* of read_client
  n,          \* of read_client: the result of the last read
  line,       \* the last line read_client printed
  farewells   \* clients whose disconnection the server has reported

clientVars == <<pc, sent>>
serverVars == <<port, serving, fd, buffer, n, line, farewells>>
vars == <<clientVars, serverVars, link, taken, pending>>

NUL == <<None, 0>>
Bytes == (Clients \X Nat) \cup {NUL}
EmptyBuffer == [i \in 0 .. MAX_MSG_SIZE |-> NUL]

TypeOK ==
  /\ pc \in [Clients -> {"start", "connected", "sent", "exited", "killed"}]
  /\ link \in [Clients -> {"none", "open", "ended", "reset"}]
  /\ sent \in [Clients -> 0 .. MAX_MSG_SIZE - 1]
  /\ taken \in [Clients -> 0 .. MAX_MSG_SIZE - 1]
  /\ pending \in Seq(Clients) /\ Len(pending) <= Backlog
  /\ port \in Nat
  /\ serving \in {"main", "accept_connection", "read_client", "over"}
  /\ fd \in Clients \cup {None}
  /\ buffer \in [0 .. MAX_MSG_SIZE -> Bytes]
  /\ n \in -1 .. MAX_MSG_SIZE
  /\ line \in Seq(Bytes)
  /\ farewells \subseteq Clients

Init ==
  /\ pc = [c \in Clients |-> "start"]
  /\ link = [c \in Clients |-> "none"]
  /\ sent = [c \in Clients |-> 0]
  /\ taken = [c \in Clients |-> 0]
  /\ pending = <<>>
  /\ port = 0
  /\ serving = "main"
  /\ fd = None
  /\ buffer = EmptyBuffer
  /\ n = 0
  /\ line = <<>>
  /\ farewells = {}

\* The comparison of socket_common.c.
is_valid_port(p) == p >= 1024 /\ p <= 49151

htons(p) == p % 2^16

-----------------------------------------------------------------------------
(* socket-client *)

\* A port that is not valid is reported and used all the same, cut to the 16
\* bits of sin_port.  connect succeeds when the connection is queued, before
\* the server accepts it.
Connect(c) ==
  /\ pc[c] = "start"
  /\ \E p \in PortChoices :
       /\ port # 0 /\ htons(p) = port
       /\ Len(pending) < Backlog
  /\ pc' = [pc EXCEPT ![c] = "connected"]
  /\ link' = [link EXCEPT ![c] = "open"]
  /\ pending' = Append(pending, c)
  /\ UNCHANGED <<sent, taken, serverVars>>

\* Nobody listens on the port, or a call fails: main returns.
CannotConnect(c) ==
  /\ pc[c] = "start"
  /\ "call" \in Faults \/ \E p \in PortChoices : port = 0 \/ htons(p) # port
  /\ pc' = [pc EXCEPT ![c] = "exited"]
  /\ UNCHANGED <<sent, serverVars, link, taken, pending>>

\* A bug the properties must catch: fgets is given the size of the whole
\* buffer, so that a line can fill the server's read.
MutantReadsMore(typed) == IF typed < MAX_MSG_SIZE THEN typed ELSE MAX_MSG_SIZE

\* fgets leaves room for the terminator in the size it is given; nothing is
\* read at the end of the input.
read_stdin(typed) ==
  IF typed < MAX_MSG_SIZE - 1 THEN typed ELSE MAX_MSG_SIZE - 1

\* One send, whose result is only printed: on a connection that was lost it
\* fails and the client goes on.
SendLine(c) ==
  /\ pc[c] = "connected"
  /\ \E typed \in LineLengths :
       sent' = [sent EXCEPT ![c] =
                  IF link[c] = "open" THEN read_stdin(typed) ELSE @]
  /\ pc' = [pc EXCEPT ![c] = "sent"]
  /\ UNCHANGED <<serverVars, link, taken, pending>>

\* What close, or the kernel for a process that died, does to a connection.
Ends(c) == link' = [link EXCEPT ![c] = IF @ = "open" THEN "ended" ELSE @]

CloseAndExit(c) ==
  /\ pc[c] = "sent"
  /\ pc' = [pc EXCEPT ![c] = "exited"]
  /\ Ends(c)
  /\ UNCHANGED <<sent, serverVars, taken, pending>>

KillClient(c) ==
  /\ "kill" \in Faults
  /\ pc[c] \in {"connected", "sent"}
  /\ pc' = [pc EXCEPT ![c] = "killed"]
  /\ Ends(c)
  /\ UNCHANGED <<sent, serverVars, taken, pending>>

-----------------------------------------------------------------------------
(* The network. *)

Unread(c) == sent[c] - taken[c]

\* The connection is lost with everything that was not read.
Reset(c) ==
  /\ "reset" \in Faults
  /\ link[c] = "open" \/ (link[c] = "ended" /\ Unread(c) > 0)
  /\ link' = [link EXCEPT ![c] = "reset"]
  /\ sent' = [sent EXCEPT ![c] = taken[c]]
  /\ UNCHANGED <<pc, serverVars, taken, pending>>

-----------------------------------------------------------------------------
(* socket-server *)

\* main up to the loop: a port that is not valid, or a call that fails, ends
\* the server.
StartServer ==
  /\ serving = "main"
  /\ \E p \in PortChoices :
       \/ /\ is_valid_port(p)
          /\ port' = htons(p)
          /\ serving' = "accept_connection"
       \/ /\ ~is_valid_port(p) \/ "call" \in Faults
          /\ serving' = "over"
          /\ UNCHANGED port
  /\ UNCHANGED <<clientVars, fd, buffer, n, line, farewells, link, taken,
                 pending>>

\* A bug the properties must catch: the buffer is static, and cleared once.
MutantKeepsBuffer(client) ==
  /\ serving' = "read_client"
  /\ fd' = client
  /\ line' = <<>>
  /\ UNCHANGED <<buffer, n, port, farewells>>

\* read_client is entered with its zeroed buffer.  (n and line are those of
\* this call.)
EnterReadClient(client) ==
  /\ serving' = "read_client"
  /\ fd' = client
  /\ buffer' = EmptyBuffer
  /\ n' = 0
  /\ line' = <<>>
  /\ UNCHANGED <<port, farewells>>

accept_connection ==
  /\ serving = "accept_connection"
  /\ pending # <<>>
  /\ EnterReadClient(Head(pending))
  /\ pending' = Tail(pending)
  /\ UNCHANGED <<clientVars, link, taken>>

\* The result of accept is not looked at: read_client reads from -1, prints
\* its empty buffer after every error, and never returns.
AcceptFails ==
  /\ serving = "accept_connection"
  /\ "accept" \in Faults
  /\ EnterReadClient(None)
  /\ UNCHANGED <<clientVars, link, taken, pending>>

\* printf("%s") shows a buffer up to the first terminator.
Shown(b) ==
  LET end == CHOOSE i \in 0 .. MAX_MSG_SIZE :
               b[i] = NUL /\ \A j \in 0 .. i - 1 : b[j] # NUL
  IN  [i \in 1 .. end |-> b[i - 1]]

\* The first k bytes that were not read yet are put over the start of b.
Overlaid(b, c, k) ==
  [i \in 0 .. MAX_MSG_SIZE |-> IF i < k THEN <<c, taken[c] + i + 1>> ELSE b[i]]

\* read returns k > 0 bytes, and the buffer is printed with what was there
\* after them.
Read(k) ==
  /\ serving = "read_client" /\ fd # None
  /\ k \in 1 .. MAX_MSG_SIZE
  /\ k <= Unread(fd)
  /\ buffer' = Overlaid(buffer, fd, k)
  /\ line' = Shown(buffer')
  /\ n' = k
  /\ taken' = [taken EXCEPT ![fd] = @ + k]
  /\ UNCHANGED <<clientVars, port, serving, fd, farewells, link, pending>>

\* read returns -1: the old buffer is printed again.  The error of a lost
\* connection is reported once, and the connection is at its end then.
ReadFails ==
  /\ serving = "read_client" /\ fd # None
  /\ link[fd] = "reset"
  /\ link' = [link EXCEPT ![fd] = "ended"]
  /\ line' = Shown(buffer)
  /\ n' = -1
  /\ UNCHANGED <<clientVars, port, serving, fd, buffer, farewells, taken,
                 pending>>

\* Bugs the properties must catch: the loop ends when a read is short; a
\* client that disconnected is not left.
MutantOneRead ==
  /\ serving = "read_client" /\ fd # None
  /\ n > 0 \/ link[fd] = "ended"
  /\ serving' = "accept_connection"
  /\ fd' = None
  /\ farewells' = farewells \cup {fd}
  /\ n' = 0
  /\ UNCHANGED <<clientVars, port, buffer, line, link, taken, pending>>

MutantKeepsReading ==
  /\ serving = "read_client" /\ fd # None
  /\ link[fd] = "ended" /\ Unread(fd) = 0
  /\ farewells' = farewells \cup {fd}
  /\ n' = 0
  /\ UNCHANGED <<clientVars, port, serving, fd, buffer, line, link, taken,
                 pending>>

\* read returns 0: the disconnection is reported and main closes the socket.
Disconnected ==
  /\ serving = "read_client" /\ fd # None
  /\ link[fd] = "ended" /\ Unread(fd) = 0
  /\ serving' = "accept_connection"
  /\ fd' = None
  /\ farewells' = farewells \cup {fd}
  /\ n' = 0
  /\ UNCHANGED <<clientVars, port, buffer, line, link, taken, pending>>

\* Connections that are open or pending are lost with the server.
KillServer ==
  /\ "kill" \in Faults
  /\ serving \notin {"main", "over"}
  /\ serving' = "over"
  /\ port' = 0
  /\ fd' = None
  /\ pending' = <<>>
  /\ link' = [c \in Clients |-> IF link[c] = "open" THEN "reset" ELSE link[c]]
  /\ UNCHANGED <<clientVars, taken, buffer, n, line, farewells>>

-----------------------------------------------------------------------------
ServerStep ==
  \/ StartServer \/ accept_connection \/ (\E k \in 1 .. MAX_MSG_SIZE : Read(k))
  \/ ReadFails \/ Disconnected

Next ==
  \/ \E c \in Clients :
       \/ Connect(c) \/ CannotConnect(c) \/ SendLine(c) \/ CloseAndExit(c)
       \/ KillClient(c) \/ Reset(c)
  \/ ServerStep
  \/ AcceptFails
  \/ KillServer

\* The server is scheduled, and a client that has sent its line exits.  When,
\* or whether, somebody types a line is open.
Fairness ==
  /\ WF_vars(ServerStep)
  /\ \A c \in Clients : WF_vars(CloseAndExit(c))

Spec == Init /\ [][Next]_vars /\ Fairness

-----------------------------------------------------------------------------
(* Safety. *)

\* A line consists of the bytes just read, in their order and with none left
\* out, and after them of bytes read earlier from the same connection: never
\* of those of another client (socket_server.c:42, 57).
LineContent ==
  (serving = "read_client" /\ line # <<>>) =>
    LET new == IF n > 0 THEN n ELSE 0
    IN  /\ Len(line) >= new
        /\ \A i \in 1 .. Len(line) :
             IF i <= new
             THEN line[i] = <<fd, taken[fd] - new + i>>
             ELSE \E j \in 1 .. taken[fd] - new : line[i] = <<fd, j>>

\* The first m bytes of b were read from client c, and terminators follow.
HoldsLine(b, c, m) ==
  \A i \in 0 .. MAX_MSG_SIZE :
    IF i < m THEN \E j \in 1 .. taken[c] : b[i] = <<c, j>> ELSE b[i] = NUL

\* The inductive invariant behind LineContent.  No byte is read that was not
\* sent, and none sent before the line is typed; and the buffer of read_client
\* always ends with a terminator, after bytes of the one client it serves
\* (socket_client.c:79-80, socket_server.c:42-46).
ReadAfterSent ==
  \A c \in Clients :
    /\ taken[c] <= sent[c]
    /\ pc[c] \in {"start", "connected"} => sent[c] = 0
    /\ pc[c] = "start" => link[c] = "none"

BufferTerminated ==
  serving = "read_client" =>
    IF fd = None
    THEN line = <<>>
    ELSE \E m \in 0 .. MAX_MSG_SIZE - 1 : HoldsLine(buffer, fd, m)

StreamInv == ReadAfterSent /\ BufferTerminated

\* The line is what was received with the last read (socket_server.c:37-38:
\* "printing any messages received").
LineIsWhatWasReceived ==
  (serving = "read_client" /\ n > 0) => Len(line) = n

-----------------------------------------------------------------------------
(* Liveness. *)

\* The server has ended, or accept has failed.
OutOfService ==
  serving = "over" \/ (serving = "read_client" /\ fd = None)

\* All the server read of a connection before it reported the end is all that
\* was put into it and not lost.
Served(c) == c \in farewells /\ Unread(c) = 0

\* If nobody leaves a client waiting for its line for ever, every connection
\* in the queue is served to its end, and in however many pieces its line
\* comes all of it is read, as long as the server is in service
\* (socket_server.c:44-59, 116-124).
EveryoneServed ==
  (\A c \in Clients : pc[c] = "connected" ~> pc[c] # "connected") =>
    \A c \in Clients : (c \in ToSet(pending)) ~> (Served(c) \/ OutOfService)
=============================================================================
