----------------------------- MODULE MC_session -----------------------------
(* Instances of RdmaSession for TLC. *)
EXTENDS RdmaSession, TLC

CONSTANTS c1, c2

OneClient == {c1}
TwoClients == {c1, c2}

\* Two clients can be exchanged: their messages have the same length.
SameLength == [c \in Clients |-> 2]

ClientSymmetry == Permutations(Clients)
=============================================================================
