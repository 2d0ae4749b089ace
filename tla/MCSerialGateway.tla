--------------------------- MODULE MCSerialGateway ---------------------------
(* SerialGateway for TLC: the clients are those of COM1; COM2 starts, reads its
   line and stops beside it. *)
EXTENDS SerialGateway

CONSTANT COM1
ToPort == [c \in Client |-> COM1]
=============================================================================
