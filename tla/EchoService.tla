----------------------------- MODULE EchoService -----------------------------
(***************************************************************************)
(* What rdma-server and its clients promise together, without connections, *)
(* metadata or completions: one client is chosen once; a buffer is made    *)
(* for it; the client's message, and no other, is stored there; the client *)
(* is shown what is stored, and the server shows it after that.            *)
(***************************************************************************)
CONSTANTS Clients, Nobody,  \* as in RdmaCommon
          Nothing, Zeros    \* no buffer, or nothing shown; an empty buffer

VARIABLES
  chosen,  \* the client that is served
  memory,  \* what the server's buffer contains
  shown,   \* what client c has shown as its message
  report   \* what the server has shown

vars == <<chosen, memory, shown, report>>

Init ==
  /\ chosen = Nobody
  /\ memory = Nothing
  /\ shown = [c \in Clients |-> Nothing]
  /\ report = Nothing

Choose(c) ==
  /\ chosen = Nobody
  /\ chosen' = c
  /\ UNCHANGED <<memory, shown, report>>

Allocate ==
  /\ chosen # Nobody /\ memory = Nothing
  /\ memory' = Zeros
  /\ UNCHANGED <<chosen, shown, report>>

Store ==
  /\ memory = Zeros /\ report = Nothing
  /\ memory' = chosen
  /\ UNCHANGED <<chosen, shown, report>>

\* The client sees its own message, stored before; once the server has made
\* its report it is too late.
Echo ==
  /\ memory = chosen /\ report = Nothing
  /\ shown' = [shown EXCEPT ![chosen] = memory]
  /\ UNCHANGED <<chosen, memory, report>>

\* The server shows what is stored: the zeros if the client has left before.
Report ==
  /\ memory # Nothing /\ report = Nothing
  /\ report' = memory
  /\ UNCHANGED <<chosen, memory, shown>>

Next == (\E c \in Clients : Choose(c)) \/ Allocate \/ Store \/ Echo \/ Report

Safety == Init /\ [][Next]_vars
=============================================================================
