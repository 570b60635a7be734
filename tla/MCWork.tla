------------------------------- MODULE MCWork -------------------------------
(***************************************************************************)
(* Protocols whose parties have no lock in common: a task and the agents   *)
(* that may take it, sealing a room, the reply chain of a review, the      *)
(* claims on a resource, and the configuration of one home.  They share no *)
(* variable, so a behaviour is about one of them (topic) and the others    *)
(* keep their initial state.                                               *)
(***************************************************************************)
EXTENDS SealProtocol, MCTaskRace, ReviewChain, ResourceClaims, ConfigFile

\* Two sealers.  Three tokens each: when a node draws one, the lock of the room, which it
\* sees, and the one the other node sees may be its own.
WorkTokens == Nodes \X (1 .. 3)
WorkHolder == [t \in WorkTokens |-> t[1]]

\* What a behaviour of a review is about: every state with few messages, races of two
\* updates, a long discussion, seals, and people who answer.
Plain == [states |-> ReviewStates, relays |-> FALSE, seals |-> FALSE, posts |-> 3]
Races == [states |-> {"claimed", "reported", "discussing", "cancelled"}, relays |-> FALSE, seals |-> FALSE, posts |-> 4]
Discussion == [states |-> {"claimed", "discussing", "completed"}, relays |-> FALSE, seals |-> FALSE, posts |-> 5]
Pruning == [states |-> {"discussing", "cancelled"}, relays |-> FALSE, seals |-> TRUE, posts |-> 4]
People == [states |-> {"discussing", "completed"}, relays |-> TRUE, seals |-> FALSE, posts |-> 4]
WorkReviews == {Plain, Races, Discussion, Pruning, People}

\* And one of claims: failing syncs for a long time, or seals.
Offline == [offline |-> TRUE, seals |-> FALSE, until |-> 4]
WithSeals == [offline |-> TRUE, seals |-> TRUE, until |-> 3]
WorkLeases == {Offline, WithSeals}

\* No step tells one node, claimant or request from the other, nor one agent that may
\* take the task.  The configuration takes the same two values for all of these, so that one
\* exchange is enough.
WorkSymmetry == MCSymmetry

\* Where leases run out under their holders: a failure, or a third message.
SealNext == Next /\ (failures' = 0 \/ Cardinality(room'.posted) <= 2)

VARIABLE topic

WorkInit ==
  /\ topic \in {"task", "seal", "review", "claims", "config"}
  /\ Init
  /\ TaskInit /\ (topic = "task" \/ scope = Life)
  /\ ReviewInit /\ (topic = "review" \/ reviewScope = Plain)
  /\ ClaimsInit /\ (topic = "claims" \/ leaseScope = Offline)
  /\ ConfigInit

WorkNext ==
  \/ /\ topic = "task" /\ TaskNext
     /\ UNCHANGED <<topic, vars, reviewVars, leaseVars, configVars>>
  \/ /\ topic = "seal" /\ SealNext
     /\ UNCHANGED <<topic, taskVars, reviewVars, leaseVars, configVars>>
  \/ /\ topic = "review" /\ ReviewNext
     /\ UNCHANGED <<topic, taskVars, vars, leaseVars, configVars>>
  \/ /\ topic = "claims" /\ ClaimsNext
     /\ UNCHANGED <<topic, taskVars, vars, reviewVars, configVars>>
  \/ /\ topic = "config" /\ ConfigNext
     /\ UNCHANGED <<topic, taskVars, vars, reviewVars, leaseVars>>

WorkSpec ==
  WorkInit /\ [][WorkNext]_<<topic, taskVars, vars, reviewVars, leaseVars, configVars>>

\* All of the state but the expiry of tokens that occur nowhere: a token that is drawn again
\* starts with a lease of its own (ClaimWins), so what it was before does not matter.
Used == {room.lock} \cup {view[n].lock : n \in Nodes} \cup {held[n] : n \in Nodes}
WorkView ==
  <<topic, taskVars, room, main, view, pc, held, plan, clear, failures, expired \cap Used,
    reviewVars, leaseVars, configVars>>

\* Type invariant of all five.
WorkTypeOK ==
  TypeOK /\ TaskTypeOK /\ ReviewTypeOK /\ ClaimsTypeOK /\ ConfigTypeOK

=============================================================================
