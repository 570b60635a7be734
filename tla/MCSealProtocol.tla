--------------------------- MODULE MCSealProtocol ---------------------------
(* Two sealers.  Three tokens each: when a node draws one, the lock of the   *)
(* room, which it sees, and the one the other node sees may be its own.      *)
EXTENDS SealProtocol

MCTokens == Nodes \X (1 .. 3)
MCHolder == [t \in MCTokens |-> t[1]]

=============================================================================
