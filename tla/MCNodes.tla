------------------------------- MODULE MCNodes -------------------------------
(***************************************************************************)
(* What goes on beside each other in the processes of one node: sealing    *)
(* rooms, with leases that outlast the holders that live, watching for     *)
(* news, the reports of overlapping syncs, the questions an agent reads    *)
(* and answers, the gate before its work, and the git processes under all  *)
(* of that.  They share no variable, so a behaviour is about one of them   *)
(* (topic) and the others keep their initial states.                       *)
(***************************************************************************)
EXTENDS SealProtocol, Watch, Reports, Reading, Approvals, GitRunner

\* Two sealers, with the tokens that they may draw.
NodeTokens == Nodes \X (1 .. 3)
NodeHolder == [t \in NodeTokens |-> t[1]]

\* Two processes with two runs of git each; one of the runs only reads.
CONSTANTS k1, k2, g1, g2, g3, g4
NodeRunBy == [g \in GitRuns |-> IF g \in {g1, g2} THEN k1 ELSE k2]
NodeWrites == GitRuns \ {g2}

\* Two networks; a wait on the first, in one of whose rooms the agent comes and goes, with and
\* without a daemon, and a stream over both.
CONSTANTS h1, h2, q1, q2, q3
NodeHost == [p \in Places |-> IF p = q3 THEN h2 ELSE h1]
NodePlace == [i \in Posts |-> IF i = 1 THEN q1 ELSE q2]
NodeOptions ==
  {[scope |-> <<h1>>, own |-> choice, newOnly |-> choice, waits |-> TRUE, rooms |-> {q1},
    posts |-> Posts] : choice \in BOOLEAN}
  \cup
  [scope: {<<h1, h2>>}, own: BOOLEAN, newOnly: {FALSE}, waits: {FALSE}, rooms: {{}}, posts: {{1}}]
StillOption == [scope |-> <<h1>>, own |-> TRUE, newOnly |-> TRUE, waits |-> TRUE, rooms |-> {q1},
                posts |-> Posts]

\* A policy file that cannot be parsed, one that always asks, and one that lists the requester.
NodePolicies ==
  {[mode |-> "malformed", lists |-> Unset], [mode |-> "always", lists |-> Unset],
   [mode |-> Unset, lists |-> TRUE]}

\* Two failures, or a third message.
SealNext == Next /\ (failures' <= 1 \/ room'.posted # Msgs)

VARIABLE topic

NodeInit ==
  /\ topic \in {"seal", "watch", "reports", "reading", "approvals", "git"}
  /\ Init /\ ReadingInit /\ ApprovalInit /\ GitInit
  /\ WatchInit /\ (topic # "watch" => option = StillOption)
  /\ ReportInit /\ (topic # "reports" => activation = "off")

NodeNext ==
  \/ /\ topic = "seal" /\ SealNext
     /\ UNCHANGED <<topic, watchVars, reportVars, readingVars, approvalVars, gitVars>>
  \/ /\ topic = "watch" /\ WatchNext
     /\ UNCHANGED <<topic, vars, reportVars, readingVars, approvalVars, gitVars>>
  \/ /\ topic = "reports" /\ ReportNext
     /\ UNCHANGED <<topic, vars, watchVars, readingVars, approvalVars, gitVars>>
  \/ /\ topic = "reading" /\ ReadingNext
     /\ UNCHANGED <<topic, vars, watchVars, reportVars, approvalVars, gitVars>>
  \/ /\ topic = "approvals" /\ ApprovalNext
     /\ UNCHANGED <<topic, vars, watchVars, reportVars, readingVars, gitVars>>
  \/ /\ topic = "git" /\ GitNext
     /\ UNCHANGED <<topic, vars, watchVars, reportVars, readingVars, approvalVars>>

NodeSpec ==
  /\ NodeInit
  /\ [][NodeNext]_<<topic, vars, watchVars, reportVars, readingVars, approvalVars, gitVars>>
  /\ Fairness

=============================================================================
