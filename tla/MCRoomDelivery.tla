--------------------------- MODULE MCRoomDelivery ---------------------------
(* Small rooms for TLC.  Node a writes m1; m2 and m3 are b's where there is  *)
(* a b, and a's too where there is not.  Node r only reads.                  *)
EXTENDS RoomDelivery

CONSTANTS a, b, r, m1, m2, m3

MCAuthor == [m \in Msgs |-> IF m = m1 \/ b \notin Nodes THEN a ELSE b]

\* For everybody but its author; and for nobody, where what inboxes get is not asked.
MCAddressedTo == [m \in Msgs |-> Nodes \ {MCAuthor[m]}]
MCUnaddressed == [m \in Msgs |-> {}]
MCForReader == [m \in Msgs |-> IF m = m1 THEN {r} ELSE {}]

\* Node a has posted m1 and left the room for good; b has joined it before m1 came.
Posted == With(Empty, {m1})

PostedInit ==
  /\ room = Posted
  /\ tracked = [n \in Nodes |-> Empty]
  /\ local = [n \in Nodes |-> IF n = a THEN Posted ELSE Empty]
  /\ detached = [n \in Nodes |-> NoHead] /\ orig = [n \in Nodes |-> NoHead]
  /\ cursor = [n \in Nodes |-> NoHead]
  /\ inbox = [n \in Nodes |-> [m \in Msgs |-> "absent"]]
  /\ subscribed = {b}
  /\ pc = [n \in Nodes |-> "idle"]
  /\ polled = [n \in Nodes |-> Empty]
  /\ sealing = {}
  /\ sent = {m1} /\ stray = {}
  /\ crashes = 0

=============================================================================
