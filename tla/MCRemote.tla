------------------------------ MODULE MCRemote ------------------------------
(***************************************************************************)
(* The branches of a remote, one room with its messages and main, and the  *)
(* socket of a home, which they never touch.  The branches are written     *)
(* under different locks and share no file, so a behaviour is about one of *)
(* these (topic) and the others keep their initial states.                 *)
(***************************************************************************)
EXTENDS RecordBranch, RoomDelivery, Endpoint, TLC

CONSTANTS a, b, m1, m2, m3, m4, m5, c1, c2, n1, n2, r1, s1, s2, s3

\* Node a writes m1 and m3.  Of these, m1 and m2 are for the other node and the rest for nobody:
\* where what becomes of a queue is asked, and not what inboxes get.
MCAuthor == [m \in Msgs |-> IF m \in {m1, m3} THEN a ELSE b]
Addressed == {m1, m2}
MCAddressedTo == [m \in Msgs |-> IF m \in Addressed THEN Nodes \ {MCAuthor[m]} ELSE {}]

\* One clone with three sessions, or one with a session and a room; two that found the network
\* under two names; and two that create and join the same room.
MCScopes ==
  {[clones |-> {c}, names |-> {n1}, rooms |-> {}, sessions |-> {s1, s2, s3}, leaves |-> FALSE]
   : c \in {c1, c2}}
  \cup
  {[clones |-> {c}, names |-> {n1}, rooms |-> {r1}, sessions |-> {s1}, leaves |-> TRUE]
   : c \in {c1, c2}}
  \cup
  {[clones |-> {c1, c2}, names |-> {n1, n2}, rooms |-> {}, sessions |-> {}, leaves |-> FALSE],
   [clones |-> {c1, c2}, names |-> {n1}, rooms |-> {r1}, sessions |-> {}, leaves |-> FALSE]}

\* b's two messages for nobody differ in nothing but their names, and so do the clones.
MCSymmetry == Permutations({c1, c2}) \cup Permutations({m4, m5})

VARIABLE topic

RemoteInit ==
  /\ topic \in {"room", "queue", "main", "endpoint"}
  /\ Init /\ EndpointInit
  /\ RecordInit /\ (topic = "main" \/ recordScope = [clones |-> {c1, c2}, names |-> {n1, n2},
                                                     rooms |-> {}, sessions |-> {}, leaves |-> FALSE])

\* A crash, or the second message.
RoomNext == Next /\ sent' \subseteq Addressed /\ (crashes' = 0 \/ sent' # Addressed)

\* Nothing is sealed.
QueueNext ==
  /\ Next /\ sent' \cap Addressed = {}
  /\ room'.pruned = {} /\ \A n \in Nodes : local'[n].pruned = {}

RemoteNext ==
  \/ topic = "room" /\ RoomNext /\ UNCHANGED <<topic, recordVars, endpointVars>>
  \/ topic = "queue" /\ QueueNext /\ UNCHANGED <<topic, recordVars, endpointVars>>
  \/ topic = "main" /\ RecordNext /\ UNCHANGED <<topic, vars, endpointVars>>
  \/ topic = "endpoint" /\ EndpointNext /\ UNCHANGED <<topic, vars, recordVars>>

RemoteSpec == RemoteInit /\ [][RemoteNext]_<<topic, vars, recordVars, endpointVars>>

\* Type invariant.
RemoteTypeOK == TypeOK /\ RecordTypeOK /\ EndpointTypeOK

=============================================================================
