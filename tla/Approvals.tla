------------------------------- MODULE Approvals -------------------------------
(***************************************************************************)
(* The gate before delegated work (packages/core/src/policy.ts,            *)
(* approvals.ts, network/approvals.ts): a person's policy, in up to two    *)
(* files which komnet never writes again, and the approvals that people    *)
(* record and withdraw in a file that every command rewrites as a whole,   *)
(* without a lock.                                                         *)
(*                                                                         *)
(* A work is a task or review that another agent delegates.                *)
(***************************************************************************)

CONSTANTS Works,
          Commands,    \* commands of people: `approve` with or without --revoke
          Claims,      \* claims of an agent
          Policies,    \* what a person may write into a policy file
          Unset

VARIABLES policyFile,  \* policyFile[f]: what a person wrote there
          approvals,   \* approvals.json: the works approved, and whether it was cut off
          commanding,  \* commanding[p]: what p is doing
          claiming,    \* claiming[c]: what c is doing
          everApproved,\* history: works that somebody has approved
          withdrawn,   \* history: works revoked by a command that met no other, and not
                       \* approved again since
          met          \* history: commands that another one has overlapped

approvalVars == <<policyFile, approvals, commanding, claiming, everApproved, withdrawn, met>>

\* policySearchPath: the machine's, and that of the agent's home.
PolicyFiles == {"machine", "home"}
ApprovalModes == {"never", "remote", "always"}

\* Absent, malformed, or with some keys: the mode, and whether the requester is listed as
\* a local agent.
PolicyContents == [mode: ApprovalModes \cup {Unset, "malformed"}, lists: BOOLEAN \cup {Unset}]
Absent == [mode |-> Unset, lists |-> Unset]

Ops == {"approve", "revoke"}
Snapshots == SUBSET Works
CommandSteps == [step: {"idle", "done"}] \cup [step: {"read", "writing"}, op: Ops, work: Works, had: Snapshots]
ClaimSteps ==
  [step: {"idle", "refused"}]
  \cup [step: {"decided"}, work: Works, required: BOOLEAN]
  \cup [step: {"granted"}, work: Works]

\* Type invariant.
ApprovalTypeOK ==
  /\ policyFile \in [PolicyFiles -> PolicyContents]
  /\ approvals \in [works: Snapshots, torn: BOOLEAN]
  /\ commanding \in [Commands -> CommandSteps]
  /\ claiming \in [Claims -> ClaimSteps]
  /\ everApproved \subseteq Works /\ withdrawn \subseteq Works
  /\ met \subseteq Commands

ASSUME ApprovalAssumption == Policies \subseteq PolicyContents

ApprovalInit ==
  /\ policyFile = [f \in PolicyFiles |-> Absent]
  /\ approvals = [works |-> {}, torn |-> FALSE]
  /\ commanding = [p \in Commands |-> [step |-> "idle"]]
  /\ claiming = [c \in Claims |-> [step |-> "idle"]]
  /\ everApproved = {} /\ withdrawn = {} /\ met = {}

-----------------------------------------------------------------------------
\* loadLocalPolicy: the home's keys before the machine's, and those before the defaults;
\* originOf and approvalRequired.
Key(key, default) ==
  IF policyFile["home"][key] # Unset THEN policyFile["home"][key]
  ELSE IF policyFile["machine"][key] # Unset THEN policyFile["machine"][key]
  ELSE default

Readable == \A f \in PolicyFiles : policyFile[f].mode # "malformed"

ApprovalRequired ==
  LET mode == Key("mode", "remote")
  IN  mode = "always" \/ (mode = "remote" /\ ~Key("lists", FALSE))

MutHas(w) == approvals.torn \/ w \in approvals.works

\* ApprovalStore.has: an unreadable file means that nothing is approved.
Listed == IF approvals.torn THEN {} ELSE approvals.works
Has(w) == w \in Listed

\* A person edits a policy file.
EditPolicy(f, contents) ==
  /\ policyFile' = [policyFile EXCEPT ![f] = contents]
  /\ UNCHANGED <<approvals, commanding, claiming, everApproved, withdrawn, met>>

-----------------------------------------------------------------------------
\* The agent's side: updateTask with a claim, updateReview with one.
ClaimDecides(c, w) ==
  /\ claiming[c].step = "idle"
  /\ claiming' = [claiming EXCEPT ![c] =
       IF Readable THEN [step |-> "decided", work |-> w, required |-> ApprovalRequired]
       ELSE [step |-> "refused"]]
  /\ UNCHANGED <<policyFile, approvals, commanding, everApproved, withdrawn, met>>

ClaimChecks(c) ==
  /\ claiming[c].step = "decided"
  /\ claiming' = [claiming EXCEPT ![c] =
       IF ~claiming[c].required \/ Has(claiming[c].work) THEN [step |-> "granted", work |-> claiming[c].work]
       ELSE [step |-> "refused"]]
  /\ UNCHANGED <<policyFile, approvals, commanding, everApproved, withdrawn, met>>

\* The claim is sent, or refused and reported: the agent may claim again.
ClaimEnds(c) ==
  /\ claiming[c].step \in {"granted", "refused"}
  /\ claiming' = [claiming EXCEPT ![c] = [step |-> "idle"]]
  /\ UNCHANGED <<policyFile, approvals, commanding, everApproved, withdrawn, met>>

-----------------------------------------------------------------------------
\* The people's side.
Busy(p) == commanding[p].step \in {"read", "writing"}
Meets(p) == \E q \in Commands \ {p} : Busy(q)

\* The command reads the list, and has nothing to do if w is (not) there.
CommandReads(p, op, w) ==
  /\ commanding[p].step = "idle"
  /\ commanding' = [commanding EXCEPT ![p] =
       IF (op = "approve") = (w \in Listed) THEN [step |-> "done"]
       ELSE [step |-> "read", op |-> op, work |-> w, had |-> Listed]]
  /\ met' = IF Meets(p) THEN met \cup {q \in Commands : q = p \/ Busy(q)} ELSE met
  /\ UNCHANGED <<policyFile, approvals, claiming, everApproved, withdrawn>>

\* writeFile truncates first.
CommandTruncates(p) ==
  /\ commanding[p].step = "read"
  /\ approvals' = [works |-> {}, torn |-> TRUE]
  /\ commanding' = [commanding EXCEPT ![p].step = "writing"]
  /\ everApproved' = IF commanding[p].op = "approve" THEN everApproved \cup {commanding[p].work}
                     ELSE everApproved
  /\ withdrawn' = IF commanding[p].op = "approve" THEN withdrawn \ {commanding[p].work}
                  ELSE withdrawn
  /\ UNCHANGED <<policyFile, claiming, met>>

\* The whole list as it was read, with w or without.
Rewritten(p) ==
  IF commanding[p].op = "approve" THEN commanding[p].had \cup {commanding[p].work}
  ELSE commanding[p].had \ {commanding[p].work}

CommandWrites(p) ==
  /\ commanding[p].step = "writing"
  /\ approvals' = [works |-> Rewritten(p), torn |-> FALSE]
  /\ commanding' = [commanding EXCEPT ![p] = [step |-> "done"]]
  /\ withdrawn' = IF commanding[p].op = "revoke" /\ p \notin met
                  THEN withdrawn \cup {commanding[p].work} ELSE withdrawn
  /\ UNCHANGED <<policyFile, claiming, everApproved, met>>

\* The process dies, and its file stays as it is.
CommandDies(p) ==
  /\ Busy(p)
  /\ commanding' = [commanding EXCEPT ![p] = [step |-> "done"]]
  /\ UNCHANGED <<policyFile, approvals, claiming, everApproved, withdrawn, met>>

-----------------------------------------------------------------------------
Person ==
  \/ \E f \in PolicyFiles, contents \in Policies : EditPolicy(f, contents)
  \/ \E p \in Commands :
       \/ CommandTruncates(p) \/ CommandWrites(p) \/ CommandDies(p)
       \/ \E op \in Ops, w \in Works : CommandReads(p, op, w)

Agent == \E c \in Claims : ClaimChecks(c) \/ ClaimEnds(c) \/ \E w \in Works : ClaimDecides(c, w)

ApprovalNext == Person \/ Agent

ApprovalSpec == ApprovalInit /\ [][ApprovalNext]_approvalVars

-----------------------------------------------------------------------------
\* The gate of network/approvals.ts: where the policy asks for a person, an agent is let
\* through only for a work that somebody has approved, and that nobody has withdrawn since
\* with a command that met no other one; whatever was cut off in the middle of a rewrite.
GrantsArePermitted ==
  [][\A c \in Claims :
       claiming[c].step = "decided" /\ claiming'[c].step = "granted" /\ claiming[c].required
       => claiming[c].work \in everApproved \ withdrawn]_approvalVars

=============================================================================
