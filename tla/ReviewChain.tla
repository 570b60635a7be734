----------------------------- MODULE ReviewChain -----------------------------
(***************************************************************************)
(* A delegated review between two agents (packages/core/src/network/       *)
(* reviews.ts, review/tasks.ts, the rules of packages/protocol/src/        *)
(* review.ts), with the reply budget that send puts on its discussion      *)
(* (room/pressure.ts).                                                     *)
(*                                                                         *)
(* A review is one chain of replies in one thread: of the events that      *)
(* reply to the current one, the first in ULID order that is a transition  *)
(* is the next.  Ids, clones, publishing and sealing are as in TaskRace.   *)
(***************************************************************************)
EXTENDS Naturals, Sequences, FiniteSets

CONSTANTS Requester, Reviewer,
          ReplyBudget,   \* policy.replyBudget of the room
          MaxPost,       \* bound on ULIDs, and so on the number of messages
          ReviewScopes   \* what a behaviour may be about, see ReviewScope

VARIABLES reviewScope,  \* the bounds of this behaviour: chosen once, kept by every step
          thread,       \* the thread in the room on the remote
          copy,         \* copy[a]: the thread in the clone of participant a
          intent        \* intent[a]: an update a has decided on and not yet committed

reviewVars == <<reviewScope, thread, copy, intent>>

Participants == {Requester, Reviewer}
Posts == 1 .. MaxPost

\* ALLOWED_TRANSITIONS.
Closing == {"expired", "cancelled"}
AllowedTransitions ==
  [requested   |-> {"claimed", "reviewing", "reported", "discussing", "needs_human", "blocked"},
   claimed     |-> {"reviewing", "reported", "discussing", "needs_human", "blocked"},
   reviewing   |-> {"reported", "discussing", "needs_human", "blocked"},
   reported    |-> {"discussing", "needs_human", "completed"},
   discussing  |-> {"discussing", "reported", "needs_human", "completed", "blocked"},
   needs_human |-> {"discussing", "completed"},
   blocked     |-> {"requested"}]
TerminalReview == {"completed"} \cup Closing
ReviewStates == DOMAIN AllowedTransitions \cup TerminalReview

RequesterStates == {"requested", "completed"} \cup Closing
ReviewerStates == {"claimed", "reviewing", "reported", "blocked"}

\* The messages that ask somebody for something (reviewNeeds).
AskingStates == {"requested", "reported", "discussing", "blocked", "needs_human"}

\* Bounds: the states the participants move to, whether people answer in the thread,
\* whether the requester's clone seals, and the greatest ULID.
ReviewScope == [states: SUBSET ReviewStates, relays: BOOLEAN, seals: BOOLEAN, posts: Nat]

\* "human": a person's message, of no review event.
ReviewPost == [id: Posts, from: Participants, state: ReviewStates \cup {"human"},
         replyTo: 0 .. MaxPost]
Intent == [state: ReviewStates, replyTo: Posts]
NoIntent == [replyTo |-> 0]

ASSUME ReviewAssumption ==
  /\ Requester # Reviewer
  /\ ReplyBudget \in Nat \ {0} /\ MaxPost \in Nat
  /\ ReviewScopes \subseteq ReviewScope

\* Type invariant.
ReviewTypeOK ==
  /\ reviewScope \in ReviewScopes
  /\ \A h \in {thread} \cup {copy[a] : a \in Participants} :
       DOMAIN h = {"posted", "sealed"} /\ h.sealed \subseteq h.posted /\ h.posted \subseteq ReviewPost
  /\ DOMAIN copy = Participants
  /\ intent \in [Participants -> Intent \cup {NoIntent}]

NoPosts == [posted |-> {}, sealed |-> {}]

ReviewInit ==
  /\ reviewScope \in ReviewScopes
  /\ thread = NoPosts
  /\ copy = [a \in Participants |-> NoPosts]
  /\ intent = [a \in Participants |-> NoIntent]

-----------------------------------------------------------------------------
\* assertReviewTransition.  (The coordinates of the review are copied from its status.)
Follows(current, state, from) ==
  /\ current.state \notin TerminalReview
  /\ state \in AllowedTransitions[current.state] \cup Closing
  /\ state \in RequesterStates => from = Requester
  /\ state \in ReviewerStates => from = Reviewer

\* The reduction.  Before any event: no review.
NoReview == <<>>
CurrentEvent(chain) == chain[Len(chain)]

\* The next event of a review: the request, at the root of the thread; then a reply
\* to the current event that is a transition from it.
NextEvent(chain, e) ==
  IF chain = NoReview THEN e.state = "requested" /\ e.replyTo = 0
  ELSE e.replyTo = CurrentEvent(chain).id /\ Follows(CurrentEvent(chain), e.state, e.from)

\* reduceReviewTasks, of the messages S in ULID order.
Chain(S) ==
  LET upTo[i \in 0 .. MaxPost] ==
        IF i = 0 THEN NoReview
        ELSE LET before == upTo[i - 1]
                 next   == {e \in S : e.id = i /\ e.state # "human" /\ NextEvent(before, e)}
             IN  before \o (IF next = {} THEN <<>> ELSE <<CHOOSE e \in next : TRUE>>)
  IN  upTo[MaxPost]

LivePosts(h) == h.posted \ h.sealed
ReviewOf(a) == Chain(LivePosts(copy[a]))
Pending(chain) == chain # NoReview /\ CurrentEvent(chain).state \notin TerminalReview

-----------------------------------------------------------------------------
\* threadOrder: a message after the one it replies to (if that is there), siblings in
\* ULID order.  PathTo(S, e): the ids from e up to the root of its tree, root first.
PathTo(S, e) ==
  LET up[k \in 0 .. MaxPost] ==
        IF k = 0 THEN <<e>>
        ELSE LET below   == up[k - 1]
                 parents == {f \in S : f.id = below[1].replyTo}
             IN  IF parents = {} THEN below ELSE <<CHOOSE f \in parents : TRUE>> \o below
      path == up[MaxPost]
  IN  [i \in 1 .. Len(path) |-> path[i].id]

Precedes(S, e, f) ==
  LET p == PathTo(S, e)
      q == PathTo(S, f)
  IN  \E k \in 1 .. Len(q) :
        /\ \A i \in 1 .. k - 1 : i <= Len(p) /\ p[i] = q[i]
        /\ k > Len(p) \/ p[k] < q[k]

\* assessReviewDiscussionPressure: the discussion that no person's message follows.
Consecutive(S) ==
  Cardinality({e \in S : e.state = "discussing"
                         /\ \A h \in S : h.state = "human" => Precedes(S, h, e)})

MutShouldPark(S) == Consecutive(S) >= ReplyBudget

ShouldPark(S) == Consecutive(S) + 1 >= ReplyBudget

-----------------------------------------------------------------------------
\* ulid(): unique, and greater than this agent's earlier ones; that is all.
AllPosts == thread.posted \cup UNION {copy[a].posted : a \in Participants}
NewPosts(a) ==
  {i \in Posts : /\ i <= reviewScope.posts
                 /\ \A e \in AllPosts : e.id # i
                 /\ \A e \in copy[a].posted : e.from = a => e.id < i}

Write(a, id, state, replyTo) ==
  copy' = [copy EXCEPT ![a].posted =
             @ \cup {[id |-> id, from |-> a, state |-> state, replyTo |-> replyTo]}]

\* requestReview.  One review is modelled.
RequestReview(id) ==
  /\ AllPosts = {} /\ id \in NewPosts(Requester)
  /\ Write(Requester, id, "requested", 0)
  /\ UNCHANGED <<reviewScope, thread, intent>>

MutUpdateReview(a, state) ==
  /\ intent[a] = NoIntent
  /\ LET chain == ReviewOf(a)
     IN  /\ chain # NoReview
         /\ intent' = [intent EXCEPT ![a] = [state |-> state, replyTo |-> CurrentEvent(chain).id]]
  /\ UNCHANGED <<reviewScope, thread, copy>>

\* updateReview up to send: read the room, validate.  The lock is not held, and
\* requireApproval may take its time.
UpdateReview(a, state) ==
  /\ intent[a] = NoIntent
  /\ LET chain == ReviewOf(a)
     IN  /\ chain # NoReview
         /\ Follows(CurrentEvent(chain), state, a)
         /\ intent' = [intent EXCEPT ![a] = [state |-> state, replyTo |-> CurrentEvent(chain).id]]
  /\ UNCHANGED <<reviewScope, thread, copy>>

\* send, under the lock, in the room as it is by now: what exceeds the budget is refused.
SendUpdate(a, id) ==
  /\ intent[a] # NoIntent /\ id \in NewPosts(a)
  /\ intent[a].state = "discussing" => ~ShouldPark(LivePosts(copy[a]))
  /\ Write(a, id, intent[a].state, intent[a].replyTo)
  /\ intent' = [intent EXCEPT ![a] = NoIntent]
  /\ UNCHANGED <<reviewScope, thread>>

\* No approval, a refused send, or the end of the process.
DropUpdate(a) ==
  /\ intent[a] # NoIntent
  /\ intent' = [intent EXCEPT ![a] = NoIntent]
  /\ UNCHANGED <<reviewScope, thread, copy>>

\* A person answers a message of the thread through their agent.
Relay(a, id, e) ==
  /\ reviewScope.relays /\ id \in NewPosts(a) /\ e \in LivePosts(copy[a])
  /\ Write(a, id, "human", e.id)
  /\ UNCHANGED <<reviewScope, thread, intent>>

Joined(h, g) == [posted |-> h.posted \cup g.posted, sealed |-> h.sealed \cup g.sealed]

\* The push of send or of the outbox.
PublishCopy(a) ==
  /\ ~(copy[a].posted \subseteq thread.posted)
  /\ thread' = Joined(thread, copy[a])
  /\ copy' = [copy EXCEPT ![a] = Joined(thread, @)]
  /\ UNCHANGED <<reviewScope, intent>>

FetchCopy(a) ==
  /\ copy[a] # thread
  /\ copy' = [copy EXCEPT ![a] = Joined(@, thread)]
  /\ UNCHANGED <<reviewScope, thread, intent>>

-----------------------------------------------------------------------------
\* unresolvedMessages: the current event of a review that is not finished; without a
\* request, every message that asks for something.
OpenPosts(S) ==
  LET chain == Chain(S)
  IN  IF chain = NoReview THEN {e \in S : e.state \in AskingStates}
      ELSE IF Pending(chain) THEN {CurrentEvent(chain)} ELSE {}

MutProtectedPosts(S) == OpenPosts(S)

\* protectedOpenIds: and what they reply to, all the way.
ProtectedPosts(S) ==
  LET up[k \in 0 .. MaxPost] ==
        IF k = 0 THEN OpenPosts(S)
        ELSE LET later == up[k - 1]
             IN  later \cup {e \in S : \E f \in later : f.replyTo = e.id}
  IN  up[MaxPost]

\* A seal whose window begins after id, planned on a's clone and pushed with merges.
SealThread(a, id) ==
  /\ reviewScope.seals
  /\ LET live == LivePosts(copy[a])
         old == {e \in live : e.id <= id} \ ProtectedPosts(live)
         new == [Joined(thread, copy[a]) EXCEPT !.sealed = @ \cup old]
     IN  /\ old # {}
         /\ thread' = new
         /\ copy' = [copy EXCEPT ![a] = new]
  /\ UNCHANGED <<reviewScope, intent>>

-----------------------------------------------------------------------------
\* `komnet review`: request, and update to any state.
ReviewCommand ==
  \/ \E id \in Posts : RequestReview(id)
  \/ \E a \in Participants, state \in reviewScope.states : UpdateReview(a, state)

ReviewNext ==
  \/ ReviewCommand
  \/ \E a \in Participants :
       \/ \E id \in Posts :
            \/ SendUpdate(a, id) \/ SealThread(a, id)
            \/ \E e \in LivePosts(copy[a]) : Relay(a, id, e)
       \/ DropUpdate(a) \/ PublishCopy(a) \/ FetchCopy(a)

ReviewSpec == ReviewInit /\ [][ReviewNext]_reviewVars

-----------------------------------------------------------------------------
\* The updates of S that, like all the updates they reply to, lost no race: nothing with a
\* smaller ULID replies to the same event.
Unraced(S) ==
  LET Updates == {e \in S : e.state # "human"}
      First(e) == \A f \in Updates : f.replyTo = e.replyTo => f.id >= e.id
      Line(P)  == \A e \in P : First(e) /\ \A f \in Updates : f.id = e.replyTo => f \in P
  IN  UNION {P \in SUBSET Updates : Line(P)}

\* "Only the first valid transition in ULID order advances state": an update that was
\* valid for its author loses only to another reply to the same event, as long as every
\* reply has a greater ULID than what it answers.
OnlyRacesLose ==
  \A a \in Participants :
    LET S     == copy[a].posted
        chain == Chain(S)
    IN  (\A e \in S : e.replyTo < e.id)
          => \A e \in Unraced(S) : \E i \in 1 .. Len(chain) : chain[i] = e

\* What a says after the last message of a person that its clone has.
Talk(a) ==
  LET S == LivePosts(copy[a])
  IN  {e \in S : e.from = a /\ e.state = "discussing"
                 /\ \A h \in S : h.state = "human" => h.id < e.id}

\* "Bound autonomous back-and-forth": where no person takes part, nobody gets more
\* into the discussion than the budget allows, although everyone counts only what has
\* arrived, and updates that lost their race count too.
AutonomousTalkIsBounded ==
  \A a \in Participants :
    (\A e \in copy[a].posted : e.state # "human") => Cardinality(Talk(a)) < ReplyBudget

\* A seal does not change a review that is still open, in the clone that seals and has
\* nothing to pull: the whole chain stays readable ("an open item and its available
\* parent chain ... remain raw").
SealKeepsOpenReviews ==
  [][\A a \in Participants :
       /\ thread'.sealed # thread.sealed /\ copy'[a].sealed # copy[a].sealed
       /\ copy[a].sealed = thread.sealed /\ copy'[a].posted = copy[a].posted
       /\ Pending(ReviewOf(a))
       => ReviewOf(a)' = ReviewOf(a)]_reviewVars

=============================================================================
