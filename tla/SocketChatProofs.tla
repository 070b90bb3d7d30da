-------------------------- MODULE SocketChatProofs --------------------------
(***************************************************************************)
(* Proofs about socket-client and socket-server for any set of clients,    *)
(* any size of the buffer and of the queue, any lines, ports and faults.   *)
(***************************************************************************)
EXTENDS SocketChat, SequenceTheorems, TLAPS

\* A buffer, and that it has room for its terminator.
LEMMA BufferTypes ==
  /\ MAX_MSG_SIZE \in Nat \ {0}
  /\ NUL \in Bytes
  /\ \A c \in Clients, j \in Nat : <<c, j>> \in Bytes /\ <<c, j>> # NUL
  /\ EmptyBuffer \in [0 .. MAX_MSG_SIZE -> Bytes]
<1>1. MAX_MSG_SIZE \in Nat \ {0}
  BY SizesAssumption
<1>2. NUL \in Bytes
  BY DEF Bytes
<1>3. ASSUME NEW c \in Clients, NEW j \in Nat
      PROVE  <<c, j>> \in Bytes /\ <<c, j>> # NUL
  BY ClientsAssumption DEF Bytes, NUL
<1>4. EmptyBuffer \in [0 .. MAX_MSG_SIZE -> Bytes]
  BY <1>2 DEF EmptyBuffer
<1>. QED
  BY <1>1, <1>2, <1>3, <1>4

\* HoldsLine with the count t of the bytes that were read, which a step may
\* change; and that the terminators of b start at m.
Holds(b, c, t, m) ==
  \A i \in 0 .. MAX_MSG_SIZE :
    IF i < m THEN \E j \in 1 .. t : b[i] = <<c, j>> ELSE b[i] = NUL

EndsAt(b, m) == \A i \in 0 .. MAX_MSG_SIZE : b[i] = NUL <=> i >= m

\* A byte of a client is never a terminator.
LEMMA HeldBytes ==
  ASSUME NEW b, NEW c \in Clients, NEW t \in Nat, NEW m \in Nat,
         Holds(b, c, t, m)
  PROVE  EndsAt(b, m)
<1>1. SUFFICES ASSUME NEW i \in 0 .. MAX_MSG_SIZE
               PROVE  b[i] = NUL <=> i >= m
  BY DEF EndsAt
<1>. USE DEF Holds
<1>2. CASE i < m
  <2>1. PICK j \in 1 .. t : b[i] = <<c, j>>
    BY <1>2
  <2>. QED
    BY <1>2, <2>1, BufferTypes
<1>3. CASE i >= m
  BY <1>3, BufferTypes
<1>. QED
  BY <1>2, <1>3, BufferTypes

\* What is printed of a buffer whose terminators start at m: its first m bytes.
LEMMA ShownLine ==
  ASSUME NEW b \in [0 .. MAX_MSG_SIZE -> Bytes], NEW m \in 0 .. MAX_MSG_SIZE,
         EndsAt(b, m)
  PROVE  /\ Shown(b) = [i \in 1 .. m |-> b[i - 1]]
         /\ Shown(b) \in Seq(Bytes)
         /\ Len(Shown(b)) = m
<1>. DEFINE First(i) == b[i] = NUL /\ \A j \in 0 .. i - 1 : b[j] # NUL
            end == CHOOSE i \in 0 .. MAX_MSG_SIZE : First(i)
<1>1. MAX_MSG_SIZE \in Nat \ {0}
  BY BufferTypes
<1>2. First(m)
  BY <1>1 DEF EndsAt
<1>3. ASSUME NEW i \in 0 .. MAX_MSG_SIZE, First(i) PROVE i = m
  BY <1>1, <1>3 DEF EndsAt
<1>4. end = m
  BY <1>1, <1>2, <1>3
<1>5. Shown(b) = [i \in 1 .. m |-> b[i - 1]]
  BY <1>4 DEF Shown
<1>6. Shown(b) \in [1 .. m -> Bytes]
  BY <1>1, <1>5
<1>7. Shown(b) \in Seq(Bytes) /\ Len(Shown(b)) = m
  BY <1>1, <1>6, SeqDef
<1>. QED
  BY <1>5, <1>7

-----------------------------------------------------------------------------
(* The inductive invariant: what TypeOK and StreamInv say together.        *)

IndInv == TypeOK /\ StreamInv

LEMMA InitIndInv == Init => IndInv
<1>. SUFFICES ASSUME Init PROVE IndInv
  OBVIOUS
<1>1. TypeOK
  BY BufferTypes, SizesAssumption DEF Init, TypeOK
<1>2. StreamInv
  BY DEF Init, StreamInv, ReadAfterSent, BufferTerminated
<1>. QED
  BY <1>1, <1>2 DEF IndInv

\* The steps of a client and of the network leave the server and its buffer
\* as they are.
LEMMA BufferUnchanged ==
  ASSUME BufferTerminated, UNCHANGED <<serverVars, taken>>
  PROVE  BufferTerminated'
BY DEF BufferTerminated, HoldsLine, serverVars

LEMMA ConnectIndInv ==
  ASSUME IndInv, NEW c \in Clients, Connect(c)
  PROVE  IndInv'
<1>. USE DEF IndInv, StreamInv
<1>1. TypeOK'
  <2>1. pending' \in Seq(Clients) /\ Len(pending') = Len(pending) + 1
    BY DEF TypeOK, Connect
  <2>2. Len(pending) \in Nat /\ Len(pending) < Backlog /\ Backlog \in Nat
    BY SizesAssumption DEF TypeOK, Connect
  <2>. QED
    BY <2>1, <2>2 DEF TypeOK, Connect, serverVars
<1>2. ReadAfterSent'
  BY DEF ReadAfterSent, TypeOK, Connect
<1>3. BufferTerminated'
  BY BufferUnchanged DEF Connect
<1>. QED
  BY <1>1, <1>2, <1>3

LEMMA CannotConnectIndInv ==
  ASSUME IndInv, NEW c \in Clients, CannotConnect(c)
  PROVE  IndInv'
<1>. USE DEF IndInv, StreamInv, CannotConnect
<1>1. TypeOK'
  BY DEF TypeOK, serverVars
<1>2. ReadAfterSent'
  BY DEF ReadAfterSent, TypeOK
<1>3. BufferTerminated'
  BY BufferUnchanged
<1>. QED
  BY <1>1, <1>2, <1>3

\* fgets leaves room for the terminator.
LEMMA LineFits ==
  ASSUME NEW typed \in LineLengths
  PROVE  read_stdin(typed) \in 0 .. MAX_MSG_SIZE - 1
BY InputAssumption, SizesAssumption DEF read_stdin

LEMMA SendLineIndInv ==
  ASSUME IndInv, NEW c \in Clients, SendLine(c)
  PROVE  IndInv'
<1>. USE DEF IndInv, StreamInv
<1>1. PICK typed \in LineLengths :
        sent' = [sent EXCEPT ![c] =
                   IF link[c] = "open" THEN read_stdin(typed) ELSE @]
  BY DEF SendLine
<1>2. read_stdin(typed) \in 0 .. MAX_MSG_SIZE - 1
  BY LineFits
<1>3. TypeOK'
  BY <1>1, <1>2 DEF TypeOK, SendLine, serverVars
<1>4. sent[c] = 0 /\ taken[c] = 0 /\ sent'[c] \in Nat
  BY <1>1, <1>2, SizesAssumption DEF ReadAfterSent, TypeOK, SendLine
<1>5. ReadAfterSent'
  BY <1>1, <1>4 DEF ReadAfterSent, TypeOK, SendLine
<1>6. BufferTerminated'
  BY BufferUnchanged DEF SendLine
<1>. QED
  BY <1>3, <1>5, <1>6

LEMMA CloseIndInv ==
  ASSUME IndInv, NEW c \in Clients, CloseAndExit(c) \/ KillClient(c)
  PROVE  IndInv'
<1>. USE DEF IndInv, StreamInv, CloseAndExit, KillClient, Ends
<1>1. TypeOK'
  BY DEF TypeOK, serverVars
<1>2. ReadAfterSent'
  BY DEF ReadAfterSent, TypeOK
<1>3. BufferTerminated'
  BY BufferUnchanged
<1>. QED
  BY <1>1, <1>2, <1>3

\* What was not read is lost, so that the reader is at the end.
LEMMA ResetIndInv ==
  ASSUME IndInv, NEW c \in Clients, Reset(c)
  PROVE  IndInv'
<1>. USE DEF IndInv, StreamInv
<1>1. TypeOK'
  BY DEF TypeOK, Reset, serverVars
<1>2. taken[c] \in Nat /\ sent[c] \in Nat /\ taken[c] <= sent[c]
  BY SizesAssumption DEF TypeOK, ReadAfterSent
<1>3. ReadAfterSent'
  BY <1>2 DEF ReadAfterSent, TypeOK, Reset
<1>4. BufferTerminated'
  BY BufferUnchanged DEF Reset
<1>. QED
  BY <1>1, <1>3, <1>4

-----------------------------------------------------------------------------
(* The server.                                                             *)

LEMMA StartServerIndInv ==
  ASSUME IndInv, StartServer
  PROVE  IndInv'
<1>. USE DEF IndInv, StreamInv, StartServer, clientVars
<1>1. TypeOK'
  BY InputAssumption DEF TypeOK, htons
<1>2. ReadAfterSent'
  BY DEF ReadAfterSent
<1>3. BufferTerminated'
  BY DEF BufferTerminated
<1>. QED
  BY <1>1, <1>2, <1>3

\* The buffer is empty whenever read_client is entered.
LEMMA EnterReadClientIndInv ==
  ASSUME IndInv, accept_connection \/ AcceptFails
  PROVE  IndInv'
<1>. USE DEF IndInv, StreamInv, accept_connection, AcceptFails
<1>1. PICK client \in Clients \cup {None} : EnterReadClient(client)
  BY DEF TypeOK
<1>2. pending' \in Seq(Clients) /\ Len(pending') <= Backlog
  <2>1. pending \in Seq(Clients) /\ Len(pending) <= Backlog
    BY DEF TypeOK
  <2>2. CASE pending # <<>> /\ pending' = Tail(pending)
    <3>1. pending' \in Seq(Clients) /\ Len(pending') = Len(pending) - 1
      BY <2>1, <2>2, HeadTailProperties
    <3>. QED
      BY <2>1, <3>1, SizesAssumption
  <2>3. CASE pending' = pending
    BY <2>1, <2>3
  <2>. QED
    BY <2>2, <2>3
<1>3. TypeOK'
  BY <1>1, <1>2, BufferTypes DEF TypeOK, EnterReadClient, clientVars
<1>4. ReadAfterSent'
  BY DEF ReadAfterSent, clientVars
<1>5. BufferTerminated'
  <2>1. 0 \in 0 .. MAX_MSG_SIZE - 1 /\ buffer' = EmptyBuffer /\ line' = <<>>
    BY <1>1, BufferTypes DEF EnterReadClient
  <2>2. HoldsLine(buffer, fd, 0)'
    BY <2>1 DEF HoldsLine, EmptyBuffer
  <2>. QED
    BY <2>1, <2>2 DEF BufferTerminated
<1>. QED
  BY <1>3, <1>4, <1>5

\* A read of k bytes: the buffer holds those bytes, then what was there of the
\* same client, and still ends with a terminator.
LEMMA ReadHoldsLine ==
  ASSUME TypeOK, ReadAfterSent, NEW k \in Nat, Read(k),
         NEW m \in 0 .. MAX_MSG_SIZE - 1, HoldsLine(buffer, fd, m)
  PROVE  LET longer == IF k > m THEN k ELSE m
         IN  /\ longer \in 0 .. MAX_MSG_SIZE - 1
             /\ Holds(buffer', fd, taken'[fd], longer)
             /\ buffer' \in [0 .. MAX_MSG_SIZE -> Bytes]
             /\ taken'[fd] = taken[fd] + k
             /\ taken'[fd] <= sent[fd]
             /\ \A i \in 0 .. k - 1 : buffer'[i] = <<fd, taken[fd] + i + 1>>
             /\ \A i \in k .. longer - 1 :
                  \E j \in 1 .. taken[fd] : buffer'[i] = <<fd, j>>
<1>. DEFINE longer == IF k > m THEN k ELSE m
<1>1. /\ fd \in Clients /\ MAX_MSG_SIZE \in Nat \ {0}
      /\ taken[fd] \in Nat /\ sent[fd] \in 0 .. MAX_MSG_SIZE - 1
      /\ taken[fd] + k <= sent[fd] /\ k \in 1 .. MAX_MSG_SIZE - 1
  BY BufferTypes DEF TypeOK, Read, Unread
<1>2. longer \in 0 .. MAX_MSG_SIZE - 1
  BY <1>1
<1>3. taken'[fd] = taken[fd] + k
  BY <1>1 DEF TypeOK, Read
<1>4. ASSUME NEW i \in 0 .. MAX_MSG_SIZE
      PROVE  buffer'[i] = IF i < k THEN <<fd, taken[fd] + i + 1>> ELSE buffer[i]
  BY DEF Read, Overlaid
<1>5. buffer' \in [0 .. MAX_MSG_SIZE -> Bytes]
  <2>1. ASSUME NEW i \in 0 .. MAX_MSG_SIZE
        PROVE  (IF i < k THEN <<fd, taken[fd] + i + 1>> ELSE buffer[i]) \in Bytes
    BY <1>1, BufferTypes DEF TypeOK
  <2>. QED
    BY <2>1 DEF Read, Overlaid
<1>6. ASSUME NEW i \in 0 .. k - 1
      PROVE  buffer'[i] = <<fd, taken[fd] + i + 1>>
  <2>1. i \in 0 .. MAX_MSG_SIZE /\ i < k
    BY <1>1
  <2>. QED
    BY <2>1, <1>4
<1>7. ASSUME NEW i \in k .. longer - 1
      PROVE  \E j \in 1 .. taken[fd] : buffer'[i] = <<fd, j>>
  <2>1. i \in 0 .. MAX_MSG_SIZE /\ i < m /\ ~(i < k)
    BY <1>1, <1>2
  <2>. QED
    BY <2>1, <1>4 DEF HoldsLine
<1>8. ASSUME NEW i \in 0 .. MAX_MSG_SIZE
      PROVE  IF i < longer
             THEN \E j \in 1 .. taken'[fd] : buffer'[i] = <<fd, j>>
             ELSE buffer'[i] = NUL
  <2>1. CASE i < k
    <3>1. taken[fd] + i + 1 \in 1 .. taken'[fd]
      BY <2>1, <1>1, <1>3
    <3>2. buffer'[i] = <<fd, taken[fd] + i + 1>>
      BY <2>1, <1>4
    <3>. QED
      BY <2>1, <3>1, <3>2, <1>1
  <2>2. CASE i >= k /\ i < m
    <3>1. PICK j \in 1 .. taken[fd] : buffer'[i] = <<fd, j>>
      BY <2>2, <1>1, <1>2, <1>7
    <3>2. j \in 1 .. taken'[fd]
      BY <1>1, <1>3
    <3>. QED
      BY <2>2, <3>1, <3>2, <1>1
  <2>3. CASE i >= k /\ i >= m
    <3>1. ~(i < k) /\ ~(i < m)
      BY <2>3, <1>1
    <3>2. buffer'[i] = buffer[i]
      BY <3>1, <1>4
    <3>. QED
      BY <3>1, <3>2, <1>1 DEF HoldsLine
  <2>. QED
    BY <2>1, <2>2, <2>3, <1>1
<1>. HIDE DEF longer
<1>9. /\ longer \in 0 .. MAX_MSG_SIZE - 1
      /\ Holds(buffer', fd, taken'[fd], longer)
      /\ \A i \in k .. longer - 1 :
           \E j \in 1 .. taken[fd] : buffer'[i] = <<fd, j>>
  BY <1>2, <1>7, <1>8 DEF Holds
<1>10. /\ buffer' \in [0 .. MAX_MSG_SIZE -> Bytes]
       /\ taken'[fd] = taken[fd] + k
       /\ taken'[fd] <= sent[fd]
       /\ \A i \in 0 .. k - 1 : buffer'[i] = <<fd, taken[fd] + i + 1>>
  BY <1>1, <1>3, <1>5, <1>6
<1>. QED
  BY <1>9, <1>10 DEF longer

LEMMA ReadIndInv ==
  ASSUME IndInv, NEW k \in 1 .. MAX_MSG_SIZE, Read(k)
  PROVE  IndInv'
<1>. USE DEF IndInv, StreamInv
<1>1. /\ fd \in Clients /\ fd' = fd /\ serving' = "read_client"
      /\ k \in Nat /\ n' = k /\ line' = Shown(buffer')
      /\ MAX_MSG_SIZE \in Nat /\ taken[fd] \in Nat
      /\ sent[fd] \in 0 .. MAX_MSG_SIZE - 1
  BY BufferTypes DEF TypeOK, Read
<1>2. PICK m \in 0 .. MAX_MSG_SIZE - 1 : HoldsLine(buffer, fd, m)
  BY <1>1 DEF BufferTerminated, Read
<1>3. PICK longer \in 0 .. MAX_MSG_SIZE - 1 :
        /\ Holds(buffer', fd, taken'[fd], longer)
        /\ buffer' \in [0 .. MAX_MSG_SIZE -> Bytes]
        /\ taken'[fd] = taken[fd] + k
        /\ taken'[fd] <= sent[fd]
  BY <1>1, <1>2, ReadHoldsLine
<1>4. HoldsLine(buffer, fd, longer)'
  BY <1>1, <1>3 DEF HoldsLine, Holds
<1>5. TypeOK'
  <2>1. line' \in Seq(Bytes)
    <3>1. taken'[fd] \in Nat
      BY <1>1, <1>3
    <3>2. EndsAt(buffer', longer)
      BY <1>1, <1>3, <3>1, HeldBytes
    <3>. QED
      BY <1>1, <1>3, <3>2, ShownLine
  <2>2. taken' \in [Clients -> 0 .. MAX_MSG_SIZE - 1]
    BY <1>1, <1>3 DEF TypeOK, Read
  <2>3. n' \in -1 .. MAX_MSG_SIZE
    BY <1>1
  <2>. QED
    BY <2>1, <2>2, <2>3, <1>1, <1>3 DEF TypeOK, Read, clientVars
<1>6. ReadAfterSent'
  BY <1>1, <1>3 DEF ReadAfterSent, TypeOK, Read, clientVars
<1>7. BufferTerminated'
  <2>1. fd' # None
    BY <1>1, ClientsAssumption
  <2>. QED
    BY <2>1, <1>4 DEF BufferTerminated
<1>. QED
  BY <1>5, <1>6, <1>7

LEMMA ReadFailsIndInv ==
  ASSUME IndInv, ReadFails
  PROVE  IndInv'
<1>. USE DEF IndInv, StreamInv
<1>1. fd \in Clients /\ taken[fd] \in Nat
  BY BufferTypes DEF TypeOK, ReadFails
<1>2. PICK m \in 0 .. MAX_MSG_SIZE - 1 : HoldsLine(buffer, fd, m)
  BY <1>1 DEF BufferTerminated, ReadFails
<1>3. TypeOK'
  <2>1. line' \in Seq(Bytes)
    <3>1. buffer \in [0 .. MAX_MSG_SIZE -> Bytes] /\ line' = Shown(buffer)
      BY DEF TypeOK, ReadFails
    <3>2. Holds(buffer, fd, taken[fd], m)
      BY <1>2 DEF HoldsLine, Holds
    <3>3. EndsAt(buffer, m)
      BY <1>1, <3>2, BufferTypes, HeldBytes
    <3>. QED
      BY <1>1, <3>1, <3>3, BufferTypes, ShownLine
  <2>2. n' \in -1 .. MAX_MSG_SIZE
    BY BufferTypes DEF ReadFails
  <2>. QED
    BY <2>1, <2>2 DEF TypeOK, ReadFails, clientVars
<1>4. ReadAfterSent'
  BY <1>1 DEF ReadAfterSent, TypeOK, ReadFails, clientVars
<1>5. BufferTerminated'
  BY <1>1, <1>2, ClientsAssumption
  DEF BufferTerminated, HoldsLine, ReadFails
<1>. QED
  BY <1>3, <1>4, <1>5

\* The server returns to accept_connection with what it has read.
LEMMA DisconnectedIndInv ==
  ASSUME IndInv, Disconnected
  PROVE  IndInv'
<1>. USE DEF IndInv, StreamInv, Disconnected, clientVars
<1>1. TypeOK'
  BY BufferTypes DEF TypeOK
<1>2. ReadAfterSent'
  BY DEF ReadAfterSent
<1>3. BufferTerminated'
  BY DEF BufferTerminated
<1>. QED
  BY <1>1, <1>2, <1>3

LEMMA KillServerIndInv ==
  ASSUME IndInv, KillServer
  PROVE  IndInv'
<1>. USE DEF IndInv, StreamInv, KillServer, clientVars
<1>1. TypeOK'
  <2>1. <<>> \in Seq(Clients) /\ Len(<<>>) = 0 /\ 0 <= Backlog
    BY SizesAssumption
  <2>. QED
    BY <2>1 DEF TypeOK
<1>2. ReadAfterSent'
  BY DEF ReadAfterSent, TypeOK
<1>3. BufferTerminated'
  BY DEF BufferTerminated
<1>. QED
  BY <1>1, <1>2, <1>3

LEMMA NextIndInv == IndInv /\ [Next]_vars => IndInv'
<1>. SUFFICES ASSUME IndInv, [Next]_vars PROVE IndInv'
  OBVIOUS
<1>1. ASSUME NEW c \in Clients,
             \/ Connect(c) \/ CannotConnect(c) \/ SendLine(c)
             \/ CloseAndExit(c) \/ KillClient(c) \/ Reset(c)
      PROVE  IndInv'
  BY <1>1, ConnectIndInv, CannotConnectIndInv, SendLineIndInv, CloseIndInv,
     ResetIndInv
<1>2. ASSUME ServerStep PROVE IndInv'
  BY <1>2, StartServerIndInv, EnterReadClientIndInv, ReadIndInv,
     ReadFailsIndInv, DisconnectedIndInv
  DEF ServerStep
<1>3. CASE AcceptFails \/ KillServer
  BY <1>3, EnterReadClientIndInv, KillServerIndInv
<1>4. CASE UNCHANGED vars
  BY <1>4 DEF vars, clientVars, serverVars, IndInv, TypeOK, StreamInv,
     ReadAfterSent, BufferTerminated, HoldsLine
<1>. QED
  BY <1>1, <1>2, <1>3, <1>4 DEF Next

\* Every reachable state satisfies the invariant, whatever goes wrong.
LEMMA IndInvCorrect == Spec => []IndInv
<1>. QED
  BY InitIndInv, NextIndInv, PTL DEF Spec

-----------------------------------------------------------------------------
(* The content of a line.                                                  *)

\* The printed line of a read of k bytes.
LEMMA ReadLineContent ==
  ASSUME IndInv, NEW k \in 1 .. MAX_MSG_SIZE, Read(k)
  PROVE  LineContent'
<1>. USE DEF IndInv, StreamInv
<1>1. /\ fd \in Clients /\ fd' = fd /\ k \in Nat /\ n' = k
      /\ line' = Shown(buffer') /\ MAX_MSG_SIZE \in Nat /\ taken[fd] \in Nat
  BY BufferTypes DEF TypeOK, Read
<1>2. PICK m \in 0 .. MAX_MSG_SIZE - 1 : HoldsLine(buffer, fd, m)
  BY <1>1 DEF BufferTerminated, Read
<1>3. PICK longer \in 0 .. MAX_MSG_SIZE - 1 :
        /\ longer >= k
        /\ Holds(buffer', fd, taken'[fd], longer)
        /\ buffer' \in [0 .. MAX_MSG_SIZE -> Bytes]
        /\ taken'[fd] = taken[fd] + k
        /\ \A i \in 0 .. k - 1 : buffer'[i] = <<fd, taken[fd] + i + 1>>
        /\ \A i \in k .. longer - 1 :
             \E j \in 1 .. taken[fd] : buffer'[i] = <<fd, j>>
  <2>. DEFINE longer == IF k > m THEN k ELSE m
  <2>1. longer >= k
    BY <1>1
  <2>2. /\ longer \in 0 .. MAX_MSG_SIZE - 1
        /\ Holds(buffer', fd, taken'[fd], longer)
        /\ buffer' \in [0 .. MAX_MSG_SIZE -> Bytes]
        /\ taken'[fd] = taken[fd] + k
        /\ \A i \in 0 .. k - 1 : buffer'[i] = <<fd, taken[fd] + i + 1>>
        /\ \A i \in k .. longer - 1 :
             \E j \in 1 .. taken[fd] : buffer'[i] = <<fd, j>>
    BY <1>1, <1>2, ReadHoldsLine
  <2>. HIDE DEF longer
  <2>. QED
    BY <2>1, <2>2
<1>4. taken'[fd] \in Nat /\ longer \in Nat /\ longer \in 0 .. MAX_MSG_SIZE
  BY <1>1, <1>3
<1>5. EndsAt(buffer', longer)
  BY <1>1, <1>3, <1>4, HeldBytes
<1>6. line' = [i \in 1 .. longer |-> buffer'[i - 1]] /\ Len(line') = longer
  BY <1>1, <1>3, <1>4, <1>5, ShownLine
<1>7. ASSUME NEW i \in 1 .. Len(line')
      PROVE  IF i <= k
             THEN line'[i] = <<fd, taken'[fd] - k + i>>
             ELSE \E j \in 1 .. taken'[fd] - k : line'[i] = <<fd, j>>
  <2>1. i \in 1 .. longer /\ line'[i] = buffer'[i - 1]
    BY <1>6
  <2>2. CASE i <= k
    <3>1. i - 1 \in 0 .. k - 1
      BY <2>1, <2>2, <1>1
    <3>2. buffer'[i - 1] = <<fd, taken[fd] + (i - 1) + 1>>
      BY <3>1, <1>3
    <3>3. taken[fd] + (i - 1) + 1 = taken'[fd] - k + i
      BY <2>1, <1>1, <1>3, <1>4
    <3>. QED
      BY <2>1, <2>2, <3>2, <3>3
  <2>3. CASE i > k
    <3>1. i - 1 \in k .. longer - 1 /\ ~(i <= k)
      BY <2>1, <2>3, <1>1, <1>4
    <3>2. PICK j \in 1 .. taken[fd] : buffer'[i - 1] = <<fd, j>>
      BY <3>1, <1>3
    <3>3. taken[fd] = taken'[fd] - k
      BY <1>1, <1>3
    <3>. QED
      BY <2>1, <3>1, <3>2, <3>3
  <2>. QED
    BY <2>1, <2>2, <2>3, <1>1
<1>8. n' > 0 /\ Len(line') >= n'
  BY <1>1, <1>3, <1>6
<1>. QED
  BY <1>1, <1>7, <1>8 DEF LineContent

\* After a read that failed nothing is new.
LEMMA ReadFailsLineContent ==
  ASSUME IndInv, ReadFails
  PROVE  LineContent'
<1>. USE DEF IndInv, StreamInv
<1>1. /\ fd \in Clients /\ taken[fd] \in Nat /\ MAX_MSG_SIZE \in Nat
      /\ buffer \in [0 .. MAX_MSG_SIZE -> Bytes]
      /\ fd' = fd /\ taken' = taken /\ n' = -1 /\ line' = Shown(buffer)
  BY BufferTypes DEF TypeOK, ReadFails
<1>2. PICK m \in 0 .. MAX_MSG_SIZE - 1 : HoldsLine(buffer, fd, m)
  BY <1>1 DEF BufferTerminated, ReadFails
<1>3. m \in Nat /\ m \in 0 .. MAX_MSG_SIZE /\ Holds(buffer, fd, taken[fd], m)
  BY <1>1, <1>2 DEF HoldsLine, Holds
<1>4. EndsAt(buffer, m)
  BY <1>1, <1>3, HeldBytes
<1>5. line' = [i \in 1 .. m |-> buffer[i - 1]] /\ Len(line') = m
  BY <1>1, <1>3, <1>4, ShownLine
<1>6. ASSUME NEW i \in 1 .. Len(line')
      PROVE  ~(i <= 0) /\ \E j \in 1 .. taken'[fd] - 0 : line'[i] = <<fd, j>>
  <2>1. i \in 1 .. m /\ line'[i] = buffer[i - 1]
    BY <1>5
  <2>2. i - 1 \in 0 .. MAX_MSG_SIZE /\ i - 1 < m /\ ~(i <= 0)
    BY <2>1, <1>2, <1>1
  <2>3. PICK j \in 1 .. taken[fd] : buffer[i - 1] = <<fd, j>>
    BY <2>2, <1>3 DEF Holds
  <2>4. taken[fd] = taken'[fd] - 0
    BY <1>1
  <2>. QED
    BY <2>1, <2>2, <2>3, <2>4
<1>7. ~(n' > 0) /\ Len(line') >= 0
  BY <1>1, <1>3, <1>5
<1>. QED
  BY <1>1, <1>6, <1>7 DEF LineContent

LEMMA NextLineContent == IndInv /\ LineContent /\ [Next]_vars => LineContent'
<1>. SUFFICES ASSUME IndInv, LineContent, [Next]_vars PROVE LineContent'
  OBVIOUS
<1>1. CASE UNCHANGED <<serverVars, taken>>
  BY <1>1 DEF LineContent, serverVars
<1>2. ASSUME NEW c \in Clients,
             \/ Connect(c) \/ CannotConnect(c) \/ SendLine(c)
             \/ CloseAndExit(c) \/ KillClient(c) \/ Reset(c)
      PROVE  UNCHANGED <<serverVars, taken>>
  BY <1>2 DEF Connect, CannotConnect, SendLine, CloseAndExit, KillClient, Reset
<1>3. CASE StartServer \/ Disconnected \/ KillServer
  <2>1. serving' # "read_client"
    BY <1>3 DEF StartServer, Disconnected, KillServer
  <2>. QED
    BY <2>1 DEF LineContent
<1>4. CASE accept_connection \/ AcceptFails
  <2>1. line' = <<>>
    BY <1>4 DEF accept_connection, AcceptFails, EnterReadClient
  <2>. QED
    BY <2>1 DEF LineContent
<1>5. CASE ReadFails \/ \E k \in 1 .. MAX_MSG_SIZE : Read(k)
  BY <1>5, ReadLineContent, ReadFailsLineContent
<1>6. CASE UNCHANGED vars
  BY <1>1, <1>6 DEF vars
<1>. QED
  BY <1>1, <1>2, <1>3, <1>4, <1>5, <1>6 DEF Next, ServerStep

-----------------------------------------------------------------------------
(* The theorems.                                                           *)

\* Every variable stays in its type: no more connections wait than listen
\* allows, and no read runs over the buffer of read_client.
THEOREM TypeCorrect == Spec => []TypeOK
<1>. QED
  BY IndInvCorrect, PTL DEF IndInv

\* The server never reads a byte that was not sent, and the buffer it prints
\* ends with a terminator, after bytes of one client.
THEOREM StreamCorrect == Spec => []StreamInv
<1>. QED
  BY IndInvCorrect, PTL DEF IndInv

\* A line consists of what was just read and, after it, of what was read
\* earlier from the same connection; this holds with accepts and reads that
\* fail, connections that are reset and processes that are killed.
THEOREM LineContentCorrect == Spec => []LineContent
<1>1. Init => LineContent
  BY DEF Init, LineContent
<1>. QED
  BY <1>1, NextLineContent, IndInvCorrect, PTL DEF Spec
=============================================================================
