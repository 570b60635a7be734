------------------------------ MODULE RecordBranch ------------------------------
(***************************************************************************)
(* The main branch of a network (packages/core/src/network.ts init,        *)
(* network/rooms.ts, network/agents.ts, network/outbox.ts): the manifest,  *)
(* the configuration of the rooms, and one card per agent.                 *)
(*                                                                         *)
(* Every clone keeps main in a record worktree.  A call commits there      *)
(* under the network lock and pushes with pushWithRetry, which rebases     *)
(* onto what others have pushed; what is not pushed waits for a sync.      *)
(* What a clone has of main is the remote main it is based on (base) and   *)
(* the commits on top of it (own).                                         *)
(***************************************************************************)
EXTENDS Naturals, SequencesExt

CONSTANTS Clones,       \* the agents, each with a clone of its own
          RecordRooms,  \* room ids
          NetNames,     \* what a person may name the network when setting it up
          Sessions,     \* ids of editor sessions
          MaxTracked,   \* MAX_TRACKED_SESSIONS
          NoName, NoCard, NoRoom,
          RecordScopes  \* what the behaviours are about, see RecordScope

VARIABLES main,         \* main on the remote
          branches,     \* the rooms whose branch is on the remote
          emptyClones,  \* the clones of the empty remote that have no record worktree yet
          base, own,    \* base[a], own[a]: main in a's record worktree
          memberships,  \* memberships[a]: config.subscriptions
          checkouts,    \* checkouts[a]: the rooms that have a branch in a's clone
          call,         \* call[a]: what the holder of a's network lock is doing
          unannounced,  \* the clones that still have to publish their card
          lapsed,       \* lapsed[a]: sessions on a's card longer than SESSION_STALE_AFTER_MS
          attached,     \* history: attached[a], sessions announced and not gone
          crowded,      \* history: clones that had more of them than MaxTracked
          abandoned,    \* history: rooms whose creator failed between branch and config
          recordScope

worktreeVars == <<main, emptyClones, base, own>>
roomVars == <<branches, memberships, checkouts, abandoned>>
presenceVars == <<lapsed, attached, crowded>>
recordVars == <<main, branches, emptyClones, base, own, memberships, checkouts, call, unannounced, lapsed,
                attached, crowded, abandoned, recordScope>>

Card == [rooms: SUBSET RecordRooms, status: {"live", "away"}, sessions: Seq(Sessions)]
Main == [manifest: NetNames \cup {NoName}, rooms: SUBSET RecordRooms,
         cards: [Clones -> Card \cup {NoCard}]]
Own == [manifest: NetNames \cup {NoName}, rooms: SUBSET RecordRooms, card: Card \cup {NoCard}]
RecordCall == [step: {"idle", "founding", "recording", "opening", "opened", "creating", "draining"},
               room: RecordRooms \cup {NoRoom}]

\* Which clones act, under which names, in which rooms, with which sessions; and whether
\* anybody leaves.
RecordScope == [clones: SUBSET Clones, names: SUBSET NetNames, rooms: SUBSET RecordRooms,
                sessions: SUBSET Sessions, leaves: BOOLEAN]

ASSUME RecordAssumption ==
  /\ NoName \notin NetNames /\ NoCard \notin Card /\ NoRoom \notin RecordRooms
  /\ MaxTracked \in Nat \ {0}
  /\ RecordScopes \subseteq RecordScope

NoMain == [manifest |-> NoName, rooms |-> {}, cards |-> [a \in Clones |-> NoCard]]
NothingOwn == [manifest |-> NoName, rooms |-> {}, card |-> NoCard]
Idle == [step |-> "idle", room |-> NoRoom]

\* Type invariant.
RecordTypeOK ==
  /\ main \in Main /\ branches \subseteq RecordRooms
  /\ emptyClones \subseteq Clones
  /\ base \in [Clones -> Main] /\ own \in [Clones -> Own]
  /\ memberships \in [Clones -> SUBSET RecordRooms]
  /\ checkouts \in [Clones -> SUBSET RecordRooms]
  /\ call \in [Clones -> RecordCall]
  /\ unannounced \subseteq Clones
  /\ lapsed \in [Clones -> SUBSET Sessions]
  /\ attached \in [Clones -> SUBSET Sessions]
  /\ crowded \subseteq Clones /\ abandoned \subseteq RecordRooms
  /\ recordScope \in RecordScopes

\* A repository that somebody has just created, and no clone of it.
RecordInit ==
  /\ main = NoMain /\ branches = {} /\ emptyClones = {}
  /\ base = [a \in Clones |-> NoMain]
  /\ own = [a \in Clones |-> NothingOwn]
  /\ memberships = [a \in Clones |-> {}]
  /\ checkouts = [a \in Clones |-> {}]
  /\ call = [a \in Clones |-> Idle]
  /\ unannounced = {}
  /\ lapsed = [a \in Clones |-> {}] /\ attached = [a \in Clones |-> {}]
  /\ crowded = {} /\ abandoned = {}
  /\ recordScope \in RecordScopes

-----------------------------------------------------------------------------
\* The record worktree.
Overlaid(m, a, o) ==
  [manifest |-> IF o.manifest = NoName THEN m.manifest ELSE o.manifest,
   rooms |-> m.rooms \cup o.rooms,
   cards |-> IF o.card = NoCard THEN m.cards ELSE [m.cards EXCEPT ![a] = o.card]]

\* What a has of main, and whether it has a worktree for it.
View(a) == Overlaid(base[a], a, own[a])
HasRecord(a) == View(a).manifest # NoName

Unlocked(a) == call[a] = Idle
Does(a, step, r) == call' = [call EXCEPT ![a] = [step |-> step, room |-> r]]
Done(a) == call' = [call EXCEPT ![a] = Idle]

MutPushable(a) == TRUE

\* The remote refuses what is not a fast-forward.
Pushable(a) == base[a] = main

\* The one file that two clones may both have written: the manifest.
Conflicts(a) ==
  own[a].manifest # NoName /\ main.manifest # NoName /\ own[a].manifest # main.manifest

MutRebased(a) ==
  /\ base' = [base EXCEPT ![a] = main]
  /\ own' = [own EXCEPT ![a] = NothingOwn]

\* A rebase without conflict drops a commit that main has already.
Rebased(a) ==
  /\ base' = [base EXCEPT ![a] = main]
  /\ own' = [own EXCEPT ![a].manifest = IF main.manifest = NoName THEN @ ELSE NoName]

\* pushWithRetry of main: at the end of a call, or of the record outbox.
PushesMain(a) == call[a].step \in {"recording", "creating", "draining"}

\* createRoom subscribes only now, and announces it after the lock.
MainAccepted(a) ==
  /\ PushesMain(a) /\ Pushable(a)
  /\ main' = View(a)
  /\ base' = [base EXCEPT ![a] = View(a)]
  /\ own' = [own EXCEPT ![a] = NothingOwn]
  /\ IF call[a].step = "creating"
     THEN /\ memberships' = [memberships EXCEPT ![a] = @ \cup {call[a].room}]
          /\ unannounced' = unannounced \cup {a}
     ELSE UNCHANGED <<memberships, unannounced>>
  /\ Done(a)
  /\ UNCHANGED <<emptyClones, branches, checkouts, abandoned, presenceVars, recordScope>>

\* The push landed, its answer did not.
MainUnanswered(a) ==
  /\ PushesMain(a) /\ Pushable(a)
  /\ main' = View(a)
  /\ UNCHANGED <<emptyClones, base, own, call, unannounced, roomVars, presenceVars, recordScope>>

\* Not a fast-forward: fetch, rebase, and again.
MainRejected(a) ==
  /\ PushesMain(a) /\ ~Pushable(a) /\ ~Conflicts(a)
  /\ Rebased(a)
  /\ UNCHANGED <<main, emptyClones, call, unannounced, roomVars, presenceVars, recordScope>>

\* The rebase stops and is aborted, the network fails, or the attempts are used up:
\* the call throws, or its caller goes on.  The commits stay.
MainGivesUp(a) ==
  /\ PushesMain(a)
  /\ Done(a)
  /\ UNCHANGED <<worktreeVars, unannounced, roomVars, presenceVars, recordScope>>

-----------------------------------------------------------------------------
\* Network.init.
\* The remote has main: it is cloned and checked out.
CloneRecord(a) ==
  /\ Unlocked(a) /\ ~HasRecord(a) /\ a \notin emptyClones /\ main # NoMain
  /\ base' = [base EXCEPT ![a] = main]
  /\ unannounced' = unannounced \cup {a}
  /\ UNCHANGED <<main, emptyClones, own, call, roomVars, presenceVars, recordScope>>

CloneEmpty(a) ==
  /\ Unlocked(a) /\ ~HasRecord(a) /\ a \notin emptyClones /\ main = NoMain
  /\ emptyClones' = emptyClones \cup {a}
  /\ UNCHANGED <<main, base, own, call, unannounced, roomVars, presenceVars, recordScope>>

\* The clone has no main: it begins here, with the manifest.  (init may have died after
\* the clone, and runs again on what it left.)
FoundRecord(a, name) ==
  /\ Unlocked(a) /\ a \in emptyClones
  /\ own' = [own EXCEPT ![a].manifest = name]
  /\ emptyClones' = emptyClones \ {a}
  /\ Does(a, "founding", NoRoom)
  /\ UNCHANGED <<main, base, unannounced, roomVars, presenceVars, recordScope>>

\* pushNewBranch of main.
FoundPushed(a) ==
  /\ call[a].step = "founding" /\ main = NoMain
  /\ main' = View(a)
  /\ base' = [base EXCEPT ![a] = View(a)]
  /\ own' = [own EXCEPT ![a] = NothingOwn]
  /\ unannounced' = unannounced \cup {a}
  /\ Done(a)
  /\ UNCHANGED <<emptyClones, roomVars, presenceVars, recordScope>>

\* Somebody was faster, or the network failed: init throws and leaves its worktree.
FoundRefused(a) ==
  /\ call[a].step = "founding"
  /\ Done(a)
  /\ UNCHANGED <<worktreeVars, unannounced, roomVars, presenceVars, recordScope>>

\* init of a home that has a worktree publishes the card.
FoundAgain(a) ==
  /\ Unlocked(a) /\ HasRecord(a) /\ a \notin unannounced
  /\ unannounced' = unannounced \cup {a}
  /\ UNCHANGED <<worktreeVars, call, roomVars, presenceVars, recordScope>>

-----------------------------------------------------------------------------
\* The rooms.
\* createRoom up to the orphan worktree, which git refuses when the branch is there.
CreateRoom(a, r) ==
  /\ Unlocked(a) /\ HasRecord(a)
  /\ r \notin branches /\ r \notin checkouts[a]
  /\ checkouts' = [checkouts EXCEPT ![a] = @ \cup {r}]
  /\ Does(a, "opening", r)
  /\ UNCHANGED <<worktreeVars, branches, memberships, abandoned, unannounced, presenceVars,
                 recordScope>>

\* pushNewBranch of the room.
BranchPushed(a) ==
  /\ call[a].step = "opening" /\ call[a].room \notin branches
  /\ branches' = branches \cup {call[a].room}
  /\ Does(a, "opened", call[a].room)
  /\ UNCHANGED <<worktreeVars, memberships, checkouts, abandoned, unannounced, presenceVars,
                 recordScope>>

\* Refused or failed: createRoom throws.
BranchRefused(a) ==
  /\ call[a].step = "opening"
  /\ Done(a)
  /\ UNCHANGED <<worktreeVars, roomVars, unannounced, presenceVars, recordScope>>

\* commitFile of room.yaml.
ConfigCommitted(a) ==
  /\ call[a].step = "opened"
  /\ own' = [own EXCEPT ![a].rooms = @ \cup {call[a].room}]
  /\ Does(a, "creating", call[a].room)
  /\ UNCHANGED <<main, emptyClones, base, roomVars, unannounced, presenceVars, recordScope>>

\* The subscription is in force although the room cannot be checked out.
JoinFails(a, r) ==
  /\ Unlocked(a) /\ HasRecord(a) /\ r \notin checkouts[a]
  /\ memberships' = [memberships EXCEPT ![a] = @ \cup {r}]
  /\ UNCHANGED <<worktreeVars, branches, checkouts, abandoned, call, unannounced, presenceVars,
                 recordScope>>

\* joinRoom.
Join(a, r) ==
  /\ Unlocked(a) /\ HasRecord(a)
  /\ r \in checkouts[a] \cup branches
  /\ memberships' = [memberships EXCEPT ![a] = @ \cup {r}]
  /\ checkouts' = [checkouts EXCEPT ![a] = @ \cup {r}]
  /\ unannounced' = unannounced \cup {a}
  /\ UNCHANGED <<worktreeVars, branches, abandoned, call, presenceVars, recordScope>>

\* machineRoom creates the room of the machine, and joins it when createRoom says "already
\* exists"; git says that too, of a branch that an earlier attempt has left in the clone.
MachineRoom(a, r) ==
  /\ r \notin memberships[a]
  /\ CreateRoom(a, r) \/ (r \in checkouts[a] \cup branches /\ Join(a, r))

\* leaveRoom: the branch stays in the clone.
Leave(a, r) ==
  /\ recordScope.leaves /\ Unlocked(a) /\ r \in memberships[a]
  /\ memberships' = [memberships EXCEPT ![a] = @ \ {r}]
  /\ unannounced' = unannounced \cup {a}
  /\ UNCHANGED <<worktreeVars, branches, checkouts, abandoned, call, presenceVars, recordScope>>

-----------------------------------------------------------------------------
\* The card.
FirstCard == [rooms |-> {}, status |-> "away", sessions |-> <<>>]
Known(a) == IF View(a).cards[a] = NoCard THEN FirstCard ELSE View(a).cards[a]

\* A declaration: of one session, of no session, or none at all.
Declarations == {"live", "away", "none"}

\* What is left of a list of sessions without some of them, in its order.
Remaining(list, without) ==
  LET kept[i \in 0..Len(list)] ==
        IF i = 0 THEN <<>>
        ELSE IF list[i] \in without THEN kept[i - 1] ELSE Append(kept[i - 1], list[i])
  IN  kept[Len(list)]

\* The sessions that are still within the window, oldest first.
Within12h(a) == Remaining(Known(a).sessions, lapsed[a])

MutReconciled(a, how, s) == [status |-> how, sessions |-> Within12h(a)]

\* reconcileSessions of a declaration by session s.
Reconciled(a, how, s) ==
  LET kept == Within12h(a)
      left == Remaining(kept, {s})
      all == IF s \in ToSet(kept) THEN kept ELSE Append(kept, s)
      next == IF how = "away" THEN left
              ELSE SubSeq(all, Len(all) - (IF Len(all) > MaxTracked THEN MaxTracked ELSE Len(all)) + 1,
                          Len(all))
  IN  [status |-> IF next = <<>> THEN "away" ELSE "live", sessions |-> next]

\* The card is committed and pushed if it says anything new.
WriteCard(a, presence) ==
  LET card == [rooms |-> memberships[a], status |-> presence.status, sessions |-> presence.sessions]
  IN  IF card = View(a).cards[a]
      THEN UNCHANGED <<own, call>>
      ELSE own' = [own EXCEPT ![a].card = card] /\ Does(a, "recording", NoRoom)

\* publishAgentCard without a word about presence, which init, createRoom, joinRoom and
\* leaveRoom end with.
PublishCard(a) ==
  /\ Unlocked(a) /\ HasRecord(a) /\ a \in unannounced
  /\ WriteCard(a, [status |-> Known(a).status, sessions |-> Known(a).sessions])
  /\ unannounced' = unannounced \ {a}
  /\ UNCHANGED <<main, emptyClones, base, roomVars, presenceVars, recordScope>>

\* It fails before its commit (the lock is busy for too long), which callers swallow.
PublishFails(a) ==
  /\ a \in unannounced
  /\ unannounced' = unannounced \ {a}
  /\ UNCHANGED <<worktreeVars, call, roomVars, presenceVars, recordScope>>

\* The sessions that are attached once s has said how, as far as anybody can know.
NowAttached(a, how, s) ==
  LET next == IF how = "live" THEN attached[a] \cup {s} ELSE attached[a] \ {s}
  IN  /\ attached' = [attached EXCEPT ![a] = next]
      /\ crowded' = IF Len(Within12h(a)) = MaxTracked /\ how = "live" THEN crowded \cup {a}
                    ELSE crowded

\* announce(status, {session}).
AnnounceSession(a, how, s) ==
  /\ Unlocked(a) /\ HasRecord(a)
  /\ WriteCard(a, Reconciled(a, how, s))
  /\ NowAttached(a, how, s)
  /\ lapsed' = [lapsed EXCEPT ![a] = {}]
  /\ UNCHANGED <<main, emptyClones, base, roomVars, unannounced, recordScope>>

\* announce(status), as the command line and a handshake do: away means all sessions.
Announce(a, how) ==
  /\ Unlocked(a) /\ HasRecord(a)
  /\ WriteCard(a, [status |-> how, sessions |-> IF how = "away" THEN <<>> ELSE Within12h(a)])
  /\ attached' = [attached EXCEPT ![a] = IF how = "away" THEN {} ELSE @]
  /\ lapsed' = [lapsed EXCEPT ![a] = {}]
  /\ UNCHANGED <<main, emptyClones, base, roomVars, unannounced, crowded, recordScope>>

\* A session has been on the card for twelve hours.
Lapse(a, s) ==
  /\ s \in ToSet(Known(a).sessions)
  /\ lapsed' = [lapsed EXCEPT ![a] = @ \cup {s}]
  /\ attached' = [attached EXCEPT ![a] = @ \ {s}]
  /\ UNCHANGED <<worktreeVars, call, unannounced, roomVars, crowded, recordScope>>

-----------------------------------------------------------------------------
\* The record branch in a sync: the outbox first; without one main is fast-forwarded.
SyncRecord(a) ==
  /\ Unlocked(a) /\ HasRecord(a)
  /\ IF own[a] # NothingOwn
     THEN Does(a, "draining", NoRoom) /\ UNCHANGED base
     ELSE base' = [base EXCEPT ![a] = main] /\ UNCHANGED call
  /\ UNCHANGED <<main, emptyClones, own, unannounced, roomVars, presenceVars, recordScope>>

\* The process dies in the middle of a call, between two runs of git; or the commit of
\* room.yaml fails.  (A rebase of main left half-way is not modelled; RoomDelivery has it.)
RecordDies(a) ==
  /\ ~Unlocked(a)
  /\ Done(a)
  /\ unannounced' = unannounced \ {a}
  /\ abandoned' = IF call[a].step = "opened" THEN abandoned \cup {call[a].room} ELSE abandoned
  /\ UNCHANGED <<worktreeVars, branches, memberships, checkouts, presenceVars, recordScope>>

PushMain(a) == MainAccepted(a) \/ MainUnanswered(a) \/ MainRejected(a) \/ MainGivesUp(a)

Found(a) ==
  \/ \E name \in recordScope.names : FoundRecord(a, name)
  \/ CloneRecord(a) \/ CloneEmpty(a) \/ FoundPushed(a) \/ FoundRefused(a) \/ FoundAgain(a)

OnRoom(a, r) ==
  CreateRoom(a, r) \/ JoinFails(a, r) \/ Join(a, r) \/ MachineRoom(a, r) \/ Leave(a, r)
OpenRoom(a) == BranchPushed(a) \/ BranchRefused(a) \/ ConfigCommitted(a)

OnCard(a) ==
  \/ PublishCard(a) \/ PublishFails(a)
  \/ \E s \in recordScope.sessions :
       Lapse(a, s) \/ \E how \in {"live", "away"} : AnnounceSession(a, how, s) \/ Announce(a, how)

RecordNext ==
  \E a \in recordScope.clones :
    \/ Found(a) \/ PushMain(a) \/ OpenRoom(a) \/ OnCard(a) \/ SyncRecord(a) \/ RecordDies(a)
    \/ \E r \in recordScope.rooms : OnRoom(a, r)

RecordSpec == RecordInit /\ [][RecordNext]_recordVars

-----------------------------------------------------------------------------
\* Nobody's push takes anything back: main keeps its manifest and the configuration
\* of its rooms, and an agent's card changes only to what that agent has in its clone.
MainKeepsRecords ==
  [][/\ main.manifest \in {NoName, main'.manifest}
     /\ main.rooms \subseteq main'.rooms
     /\ \A a \in Clones : main'.cards[a] \in {main.cards[a], View(a)'.cards[a]}]_recordVars

\* A room on the remote has its configuration on main or in a clone that is going to
\* publish it, except where its creator failed right after it had pushed the branch.
RoomsAreConfigured ==
  \A r \in branches \ abandoned :
    \/ r \in main.rooms
    \/ \E a \in Clones : r \in own[a].rooms \/ call[a] = [step |-> "opened", room |-> r]

\* "With two concurrent sessions, one leaving must not take the agent away with it":
\* while a session is attached the card says live, whoever else came, went, lapsed or
\* joined and left rooms; as long as there were never more than the card can hold.
SessionsKeepLive ==
  \A a \in Clones \ crowded : attached[a] # {} => Known(a).status = "live"

=============================================================================
