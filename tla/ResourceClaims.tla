--------------------------- MODULE ResourceClaims ---------------------------
(***************************************************************************)
(* The advisory lease of one resource of a room, as several agents claim   *)
(* it (packages/core/src/network/claims.ts), derived by everyone from the  *)
(* claim events their clone shows (room/claims.ts, protocol/src/claim.ts). *)
(*                                                                         *)
(* claimResource looks, writes and looks again; between these steps, and   *)
(* between the commit of a claim and its push, the other agents run and    *)
(* time passes.  A failed sync is swallowed.  Clocks agree here: an event  *)
(* has the time of its commit as ULID and as timestamp.                    *)
(***************************************************************************)
EXTENDS Naturals, FiniteSets

CONSTANTS Claimants,  \* agents, each with a clone and one claim under way at most
          NoHolder,   \* no holder
          Ttl,        \* ttlSeconds of every claim
          Horizon,    \* bound on time, and so on the number of events
          LeaseScopes \* what a behaviour may meet, see LeaseScope

VARIABLES now,       \* the clock
          log,       \* the claim events of the room on the remote
          known,     \* known[a]: those of a's clone
          claiming,  \* claiming[a]: how far claimResource has got
          lease,     \* lease[a]: until when a was told it holds the resource, or 0
          firm,      \* history: a was told so when it had received every event there was
          leaseScope \* what this behaviour may meet: chosen once, kept by every step

leaseVars == <<now, log, known, claiming, lease, firm, leaseScope>>

Times == 1 .. Horizon
Claim == [at: Times, holder: Claimants, action: {"held", "released"}]
\* Bounds: whether a sync or a push may fail, whether the room is sealed, and the time.
LeaseScope == [offline: BOOLEAN, seals: BOOLEAN, until: 0 .. Horizon]

ASSUME ClaimsAssumption ==
  /\ NoHolder \notin Claimants
  /\ Ttl \in Nat \ {0} /\ Horizon \in Nat
  /\ LeaseScopes \subseteq LeaseScope

\* Type invariant.
ClaimsTypeOK ==
  /\ now \in 0 .. Horizon
  /\ \A h \in {log} \cup {known[a] : a \in Claimants} :
       DOMAIN h = {"posted", "gone"} /\ h.gone \subseteq h.posted /\ h.posted \subseteq Claim
  /\ DOMAIN known = Claimants
  /\ claiming \in [Claimants -> {"no", "writing", "pushing", "looking"}]
  /\ lease \in [Claimants -> Nat]
  /\ firm \in [Claimants -> BOOLEAN]
  /\ leaseScope \in LeaseScopes

NoClaims == [posted |-> {}, gone |-> {}]

ClaimsInit ==
  /\ now = 0
  /\ log = NoClaims
  /\ known = [a \in Claimants |-> NoClaims]
  /\ claiming = [a \in Claimants |-> "no"]
  /\ lease = [a \in Claimants |-> 0]
  /\ firm = [a \in Claimants |-> FALSE]
  /\ leaseScope \in LeaseScopes

-----------------------------------------------------------------------------
\* reduceClaims, in ULID order.
Free == [holder |-> NoHolder, until |-> 0]

MutAfter(hold, e) ==
  IF e.action = "released" THEN Free ELSE [holder |-> e.holder, until |-> e.at + Ttl]

\* The hold after an event: a release frees only its own holder's; a claim wins what is
\* free or has lapsed by its own time, or renews its holder's.
After(hold, e) ==
  IF e.action = "released"
  THEN IF hold.holder = e.holder THEN Free ELSE hold
  ELSE IF hold.holder = NoHolder \/ e.at >= hold.until \/ hold.holder = e.holder
       THEN [holder |-> e.holder, until |-> e.at + Ttl]
       ELSE hold

Hold(S) ==
  LET upTo[t \in 0 .. Horizon] ==
        IF t = 0 THEN Free
        ELSE LET before == upTo[t - 1]
                 events == {e \in S : e.at = t}
             IN  IF events = {} THEN before ELSE After(before, CHOOSE e \in events : TRUE)
  IN  upTo[Horizon]

\* currentHolder: nobody once the hold has expired.
CurrentHolder(h) ==
  LET hold == Hold(h.posted \ h.gone)
  IN  IF now >= hold.until THEN NoHolder ELSE hold.holder

-----------------------------------------------------------------------------
\* A merge of two histories of the branch.
United(h, g) == [posted |-> h.posted \cup g.posted, gone |-> h.gone \cup g.gone]

\* sync: drains the outbox and fetches; what fails is swallowed.
Synced(a) ==
  /\ log' = United(log, known[a])
  /\ known' = [known EXCEPT ![a] = log']
TrySync(a) ==
  \/ Synced(a)
  \/ leaseScope.offline /\ UNCHANGED <<log, known>>

TicToc ==
  /\ now < leaseScope.until
  /\ now' = now + 1
  /\ UNCHANGED <<log, known, claiming, lease, firm, leaseScope>>

\* One event at a time, of all agents: within one unit of the clock there is no more.
Writes(a, action) ==
  /\ now \in Times
  /\ \A b \in Claimants : \A e \in known[b].posted : e.at # now
  /\ known' = [known EXCEPT ![a].posted = @ \cup {[at |-> now, holder |-> a, action |-> action]}]

\* claimResource up to its send: somebody else's hold ends it.
Look(a) ==
  /\ claiming[a] = "no"
  /\ TrySync(a)
  /\ IF CurrentHolder(known'[a]) \in {NoHolder, a}
     THEN claiming' = [claiming EXCEPT ![a] = "writing"] /\ UNCHANGED <<lease, firm>>
     ELSE /\ lease' = [lease EXCEPT ![a] = 0]
          /\ firm' = [firm EXCEPT ![a] = FALSE]
          /\ UNCHANGED claiming
  /\ UNCHANGED <<now, leaseScope>>

\* send: mint, commit ...
WriteClaim(a) ==
  /\ claiming[a] = "writing"
  /\ Writes(a, "held")
  /\ claiming' = [claiming EXCEPT ![a] = "pushing"]
  /\ UNCHANGED <<now, log, lease, firm, leaseScope>>

\* ... and push, which may fail and leave the claim to the outbox.
PushClaim(a) ==
  /\ claiming[a] = "pushing"
  /\ TrySync(a)
  /\ claiming' = [claiming EXCEPT ![a] = "looking"]
  /\ UNCHANGED <<now, lease, firm, leaseScope>>

\* The end of claimResource: granted if a holds it in what its clone shows now.
LookAgain(a) ==
  /\ claiming[a] = "looking"
  /\ TrySync(a)
  /\ claiming' = [claiming EXCEPT ![a] = "no"]
  /\ LET granted == CurrentHolder(known'[a]) = a
     IN  /\ lease' = [lease EXCEPT ![a] = IF granted THEN Hold(known'[a].posted \ known'[a].gone).until
                                          ELSE 0]
         /\ firm' = [firm EXCEPT ![a] =
              granted /\ \A b \in Claimants : known[b].posted \subseteq known'[a].posted]
  /\ UNCHANGED <<now, leaseScope>>

\* releaseResource: no sync before, and nothing is written without the hold.
ReleaseClaim(a) ==
  /\ claiming[a] = "no" /\ lease[a] # 0
  /\ IF CurrentHolder(known[a]) = a THEN Writes(a, "released") ELSE UNCHANGED known
  /\ lease' = [lease EXCEPT ![a] = 0]
  /\ firm' = [firm EXCEPT ![a] = FALSE]
  /\ UNCHANGED <<now, log, claiming, leaseScope>>

\* The process of a call ends.
ClaimDies(a) ==
  /\ claiming[a] # "no"
  /\ claiming' = [claiming EXCEPT ![a] = "no"]
  /\ UNCHANGED <<now, log, known, lease, firm, leaseScope>>

\* The daemon of a syncs.
SyncClaims(a) ==
  /\ known[a] # log
  /\ Synced(a)
  /\ UNCHANGED <<now, claiming, lease, firm, leaseScope>>

\* A seal of the room: nothing protects a claim event, which asks for nothing.
SealClaims(a, t) ==
  /\ leaseScope.seals
  /\ LET old == {e \in known[a].posted : e.at <= t} \ known[a].gone
         new == [United(log, known[a]) EXCEPT !.gone = @ \cup old]
     IN  /\ old # {}
         /\ log' = new /\ known' = [known EXCEPT ![a] = new]
  /\ UNCHANGED <<now, claiming, lease, firm, leaseScope>>

\* `komnet claim`, with what an agent is told at the end, and `komnet claim release`.
ClaimCommand(a) ==
  Look(a) \/ WriteClaim(a) \/ PushClaim(a) \/ LookAgain(a) \/ ReleaseClaim(a)

ClaimsNext ==
  \/ TicToc
  \/ \E a \in Claimants :
       \/ ClaimCommand(a) \/ ClaimDies(a) \/ SyncClaims(a)
       \/ \E t \in Times : SealClaims(a, t)

ClaimsSpec == ClaimsInit /\ [][ClaimsNext]_leaseVars

-----------------------------------------------------------------------------
Holds(a) == lease[a] > now

\* A lease granted with every event in hand is not lost before it lapses or is
\* released, not in the room and in no clone that has the events a's clone has up to the
\* claim: only a claim that had been written and had not arrived when it was granted can
\* still take it away.  (To have the claim is not enough: what freed the resource for it may
\* have reached a later than the commit, and somebody else not at all.)
FirmLeaseHolds ==
  \A a \in Claimants :
    firm[a] /\ Holds(a) /\ ~leaseScope.seals =>
      \A h \in {log} \cup {known[b] : b \in Claimants} :
        {e \in known[a].posted : e.at + Ttl <= lease[a]} \subseteq h.posted => CurrentHolder(h) = a

=============================================================================
