------------------------------- MODULE Mailbox -------------------------------
(***************************************************************************)
(* What a room promises its members, with no git in it: a message posted   *)
(* in the room stays posted, it enters the inbox only of the agents it is  *)
(* for and only once it is posted, and an item an agent has dealt with     *)
(* does not come back unless the agent gave the room up.  RoomDelivery is  *)
(* shown to implement this.                                                *)
(***************************************************************************)
CONSTANTS Nodes, Msgs,
          AddressedTo   \* AddressedTo[m]: the agents whose inbox m is for

VARIABLES posted,       \* the messages of the room
          box           \* box[n][m]: what became of m in the inbox of n

mailVars == <<posted, box>>

Item == {"absent", "pending", "processed"}

Init ==
  /\ posted = {}
  /\ box = [n \in Nodes |-> [m \in Msgs |-> "absent"]]

Publish ==
  /\ posted' \in {posted \cup S : S \in SUBSET Msgs}
  /\ UNCHANGED box

Move(n, m, from, to) ==
  /\ box[n][m] = from
  /\ box' = [box EXCEPT ![n][m] = to]
  /\ UNCHANGED posted

Deliver(n, m) == m \in posted /\ n \in AddressedTo[m] /\ Move(n, m, "absent", "pending")
Finish(n, m) == Move(n, m, "pending", "processed")

GiveUpRoom(n) ==
  /\ box' = [box EXCEPT ![n] = [m \in Msgs |-> "absent"]]
  /\ UNCHANGED posted

Next ==
  \/ Publish
  \/ \E n \in Nodes : GiveUpRoom(n)
  \/ \E n \in Nodes, m \in Msgs : Deliver(n, m) \/ Finish(n, m)

Spec == Init /\ [][Next]_mailVars
=============================================================================
