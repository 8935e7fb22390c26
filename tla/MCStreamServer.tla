--------------------------- MODULE MCStreamServer ---------------------------
(* Connections that ask for identifiers of their own (a server-made uuid) or *)
(* for one they share (a client that reconnects under its old identifier).  *)
EXTENDS StreamServer

CONSTANTS c1, c2, c3, i1, i2

OwnIds    == [c \in Conns |-> IF c = c1 THEN {i1} ELSE {i2}]
SharedIds == [c \in Conns |-> {i1}]
=============================================================================
