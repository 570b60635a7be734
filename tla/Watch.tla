-------------------------------- MODULE Watch --------------------------------
(***************************************************************************)
(* komnet watch (packages/cli/src/main.ts cmdWatch) and what it looks at:  *)
(* the inbox, the health and the surroundings that the syncs of a network  *)
(* keep (packages/core/src/network.ts sync, health, surroundings).         *)
(*                                                                         *)
(* A watcher polls the networks in its scope one after the other.  With a  *)
(* daemon somebody else pulls; without one (own) each poll pulls first.    *)
(* Commands of the same agent drain the inbox, join and leave rooms, and   *)
(* pull, meanwhile.  What a poll reads, it reads in two calls.             *)
(***************************************************************************)
EXTENDS Naturals
LOCAL INSTANCE Sequences

CONSTANTS Hosts,         \* networks
          Places,        \* rooms of the networks
          HostOf,        \* HostOf[p]: the network of p
          Posts,         \* messages of others
          PlaceOf,       \* PlaceOf[i]: the room of i
          ForMe,         \* the messages that routing delivers to this agent
          Wanted,        \* those that pass the watcher's filters
          WatchOptions   \* the command lines, see WatchOption

VARIABLES mailed,      \* the messages on the remotes
          followed,    \* config.subscriptions
          heads,       \* heads[p]: what the delivery cursor of p stands for
          waiting,     \* inbox, pending
          cleared,     \* inbox, processed
          outage,      \* outage[h]: health.degraded
          pull,        \* pull[h]: the sync of h that holds the lock
          around,      \* rooms not followed and conversations of others, as noted by syncs
          option,      \* the command line of the watcher
          watcher,
          looked,      \* history: what the completed syncs have seen in followed rooms
          due,         \* history: looked, of one network, when the poll began to read
          overtaken,   \* history: a sync ended after the inbox was read and before health was
          old,         \* history: the inbox the watcher armed on
          news         \* history: what it has announced as new

mailVars == <<mailed, followed, heads, waiting, cleared, around>>
seenVars == <<due, overtaken, old, news>>
watchVars == <<mailVars, outage, pull, looked, option, watcher, seenVars>>

\* The command line; the rooms that other commands of the agent join and leave, and what is sent.
WatchOption == [scope: Seq(Hosts), own: BOOLEAN, newOnly: BOOLEAN, waits: BOOLEAN,
                rooms: SUBSET Places, posts: SUBSET Posts]

Pull == [step: {"idle", "begun", "delivering"}, mine: BOOLEAN, sees: SUBSET Posts,
         left: SUBSET Places, starts: SUBSET Posts]
Watcher == [step: {"arming", "pulling", "looking", "resting", "done"}, at: Nat,
            health: {"unread", "good", "degraded"}, listed: BOOLEAN, items: SUBSET Posts,
            seen: SUBSET Posts, toldRooms: SUBSET Places, toldThreads: SUBSET Posts,
            armed: BOOLEAN, confirmed: BOOLEAN, matched: BOOLEAN, exit: {0, 3, 4}]

ASSUME WatchAssumption ==
  /\ HostOf \in [Places -> Hosts] /\ PlaceOf \in [Posts -> Places]
  /\ ForMe \subseteq Posts /\ Wanted \subseteq ForMe
  /\ WatchOptions \subseteq WatchOption /\ \A o \in WatchOptions : o.scope # <<>>

NoPull == [step |-> "idle", mine |-> FALSE, sees |-> {}, left |-> {}, starts |-> {}]

\* Type invariant.
WatchTypeOK ==
  /\ mailed \subseteq Posts /\ followed \subseteq Places
  /\ heads \in [Places -> SUBSET Posts]
  /\ waiting \subseteq ForMe /\ cleared \subseteq ForMe /\ waiting \cap cleared = {}
  /\ outage \in [Hosts -> BOOLEAN] /\ pull \in [Hosts -> Pull]
  /\ around \in [rooms: SUBSET Places, threads: SUBSET Posts]
  /\ option \in WatchOptions /\ watcher \in Watcher
  /\ looked \subseteq Posts /\ due \subseteq Posts /\ overtaken \in BOOLEAN
  /\ old \subseteq Posts /\ news \subseteq Posts

\* Nothing was ever synced; the agent follows the rooms.
WatchInit ==
  /\ mailed = {} /\ followed = Places
  /\ heads = [p \in Places |-> {}] /\ waiting = {} /\ cleared = {}
  /\ outage = [h \in Hosts |-> TRUE] /\ pull = [h \in Hosts |-> NoPull]
  /\ around = [rooms |-> {}, threads |-> {}]
  /\ option \in WatchOptions
  /\ watcher = [step |-> "arming", at |-> 0, health |-> "unread", listed |-> FALSE,
                items |-> {}, seen |-> {},
                toldRooms |-> {}, toldThreads |-> {}, armed |-> FALSE, confirmed |-> FALSE,
                matched |-> FALSE, exit |-> 0]
  /\ looked = {} /\ due = {} /\ overtaken = FALSE /\ old = {} /\ news = {}

HostOfPost(i) == HostOf[PlaceOf[i]]
PostsIn(p) == {i \in Posts : PlaceOf[i] = p}
PostsOf(h) == {i \in Posts : HostOfPost(i) = h}
Current == option.scope[watcher.at]

-----------------------------------------------------------------------------
\* The watcher's way through its polls.
\* pollOne of the network at k: it pulls, or reads at once.
Onward(w, k) ==
  IF k > Len(option.scope)
  THEN [w EXCEPT !.step = "resting"]
  ELSE [w EXCEPT !.step = IF option.own THEN "pulling" ELSE "looking", !.at = k,
                 !.health = "unread", !.listed = FALSE, !.items = {}]

\* What a sync that is done by now has seen of the network that is looked at next.
Looks(w) ==
  IF w.step = "looking"
  THEN due' = looked' \cap Wanted \cap PostsOf(option.scope[w.at]) /\ overtaken' = FALSE
  ELSE UNCHANGED <<due, overtaken>>

\* The first poll, and the next one after the interval, unless the wait is over.
PollBegins ==
  /\ watcher.step \in {"arming", "resting"}
  /\ option.waits => ~watcher.matched
  /\ watcher' = Onward(watcher, 1)
  /\ UNCHANGED looked /\ Looks(watcher')
  /\ UNCHANGED <<mailVars, outage, pull, option, old, news>>

MutFailed(w) == w

\* The catch of pollOne (what it says of failures in a row is left out).
Failed(w) == [w EXCEPT !.confirmed = FALSE]

\* A call of the poll throws; its sync may do so before it begins.
PollFails ==
  /\ watcher.step = "looking" \/ (watcher.step = "pulling" /\ ~pull[Current].mine)
  /\ watcher' = Onward(Failed(watcher), watcher.at + 1)
  /\ UNCHANGED looked /\ Looks(watcher')
  /\ UNCHANGED <<mailVars, outage, pull, option, old, news>>

\* "health" and "inbox" are sent together, and answered in any order.
ReadHealth ==
  /\ watcher.step = "looking" /\ watcher.health = "unread"
  /\ watcher' = [watcher EXCEPT !.health = IF outage[Current] THEN "degraded" ELSE "good"]
  /\ UNCHANGED <<mailVars, outage, pull, looked, option, seenVars>>

\* surroundings: what is noted, as the subscriptions are now.
RoomsAround == {p \in around.rooms \ followed : HostOf[p] = Current}
ThreadsAround == {i \in around.threads : PlaceOf[i] \in followed /\ HostOfPost(i) = Current}

\* "inbox", and "surroundings", which may fail alone; a room and a conversation are told once.
ReadInbox(answers) ==
  /\ watcher.step = "looking" /\ ~watcher.listed
  /\ watcher' = [watcher EXCEPT !.listed = TRUE, !.items = waiting \cap PostsOf(Current),
                                !.toldRooms = IF answers THEN @ \cup RoomsAround ELSE @,
                                !.toldThreads = IF answers THEN @ \cup ThreadsAround ELSE @]
  /\ UNCHANGED <<mailVars, outage, pull, looked, option, seenVars>>

\* The items that the watcher has not seen and that pass its thread filter.
Hits(w) == (w.items \ w.seen) \cap Wanted

\* The rest of pollOne, once both have answered.
PollReports ==
  /\ watcher.step = "looking" /\ watcher.health # "unread" /\ watcher.listed
  /\ LET hits == Hits(watcher)
         done == [watcher EXCEPT !.confirmed = (watcher.health = "good"), !.armed = TRUE,
                                 !.seen = @ \cup watcher.items,
                                 !.matched = @ \/ (hits # {} /\ (watcher.armed \/ ~option.newOnly))]
     IN  /\ watcher' = Onward(done, watcher.at + 1)
         /\ news' = IF watcher.armed THEN news \cup hits ELSE news
         /\ old' = IF watcher.armed THEN old ELSE watcher.items
  /\ UNCHANGED looked /\ Looks(watcher')
  /\ UNCHANGED <<mailVars, outage, pull, option>>

\* --wait: something matched, or the bound has passed.
WaitEnds ==
  /\ option.waits /\ watcher.step = "resting" /\ watcher.matched
  /\ watcher' = [watcher EXCEPT !.step = "done"]
  /\ UNCHANGED <<mailVars, outage, pull, looked, option, seenVars>>

TimesOut ==
  /\ option.waits /\ watcher.step = "resting" /\ ~watcher.matched
  /\ watcher' = [watcher EXCEPT !.step = "done", !.exit = IF watcher.confirmed THEN 3 ELSE 4]
  /\ UNCHANGED <<mailVars, outage, pull, looked, option, seenVars>>

-----------------------------------------------------------------------------
\* Network.sync, by the watcher (mine) or by anybody else, under the lock.
SyncBegins(h, mine) ==
  /\ pull[h].step = "idle"
  /\ mine => watcher.step = "pulling" /\ Current = h
  /\ pull' = [pull EXCEPT ![h] = [NoPull EXCEPT !.step = "begun", !.mine = mine]]
  /\ UNCHANGED <<mailVars, outage, looked, option, watcher, seenVars>>

\* ls-remote; noteUnsubscribedRooms takes the place of what it said before.
SyncLooks(h) ==
  LET sees == {i \in mailed \cap PostsOf(h) : PlaceOf[i] \in followed}
      other == {p \in Places \ followed : HostOf[p] = h /\ PostsIn(p) \cap mailed # {}}
  IN  /\ pull[h].step = "begun"
      /\ pull' = [pull EXCEPT ![h].step = "delivering", ![h].sees = sees,
                              ![h].left = {p \in followed : HostOf[p] = h /\ PostsIn(p) \cap sees # heads[p]}]
      /\ around' = [around EXCEPT !.rooms = {p \in @ : HostOf[p] # h} \cup other]
      /\ UNCHANGED <<mailed, followed, heads, waiting, cleared, outage, looked, option, watcher, seenVars>>

\* One changed room: the inbox takes what is addressed here, and never again what it has had.
SyncRoom(h, p) ==
  LET here == pull[h].sees \cap PostsIn(p)
      fresh == here \ heads[p]
  IN  /\ pull[h].step = "delivering" /\ p \in pull[h].left
      /\ waiting' = waiting \cup ((fresh \cap ForMe) \ cleared)
      /\ heads' = [heads EXCEPT ![p] = here]
      /\ pull' = [pull EXCEPT ![h].left = @ \ {p}, ![h].starts = @ \cup (fresh \ ForMe)]
      /\ UNCHANGED <<mailed, followed, cleared, around, outage, looked, option, watcher, seenVars>>

\* A pull of its own that is over sends the watcher on: to look, or to the next network.
Returns(h, w) == IF pull[h].mine THEN watcher' = w /\ Looks(w) ELSE UNCHANGED <<watcher, due>>

\* All rooms are done: the conversations are noted and the failure is cleared.
SyncSucceeds(h) ==
  /\ pull[h].step = "delivering" /\ pull[h].left = {}
  /\ around' = [around EXCEPT !.threads = @ \cup pull[h].starts]
  /\ outage' = [outage EXCEPT ![h] = FALSE]
  /\ looked' = looked \cup pull[h].sees
  /\ pull' = [pull EXCEPT ![h] = NoPull]
  /\ Returns(h, [watcher EXCEPT !.step = "looking"])
  /\ ~pull[h].mine => overtaken' = (overtaken \/ (watcher.step = "looking" /\ Current = h /\ watcher.listed))
  /\ UNCHANGED <<mailed, followed, heads, waiting, cleared, option, old, news>>

\* sync throws at any point: the rooms that are done stay done, and what they have
\* told about conversations is lost.
SyncFails(h) ==
  /\ pull[h].step # "idle"
  /\ outage' = [outage EXCEPT ![h] = TRUE]
  /\ looked' = looked \cup pull[h].sees
  /\ pull' = [pull EXCEPT ![h] = NoPull]
  /\ Returns(h, Onward(Failed(watcher), watcher.at + 1))
  /\ ~pull[h].mine => UNCHANGED overtaken
  /\ UNCHANGED <<mailVars, option, old, news>>

-----------------------------------------------------------------------------
\* Others, and other commands of this agent.
Mail(i) ==
  /\ i \notin mailed
  /\ mailed' = mailed \cup {i}
  /\ UNCHANGED <<followed, heads, waiting, cleared, around, outage, pull, looked, option, watcher, seenVars>>

DrainOne(i) ==
  /\ i \in waiting
  /\ waiting' = waiting \ {i} /\ cleared' = cleared \cup {i}
  /\ UNCHANGED <<mailed, followed, heads, around, outage, pull, looked, option, watcher, seenVars>>

Follow(p) ==
  /\ pull[HostOf[p]].step = "idle" /\ p \notin followed
  /\ followed' = followed \cup {p}
  /\ UNCHANGED <<mailed, heads, waiting, cleared, around, outage, pull, looked, option, watcher, seenVars>>

\* leaveRoom deletes the room's cursor and its rows of the inbox.
Unfollow(p) ==
  /\ pull[HostOf[p]].step = "idle" /\ p \in followed
  /\ followed' = followed \ {p}
  /\ heads' = [heads EXCEPT ![p] = {}]
  /\ waiting' = waiting \ PostsIn(p) /\ cleared' = cleared \ PostsIn(p)
  /\ looked' = looked \ PostsIn(p) /\ due' = due \ PostsIn(p)
  /\ UNCHANGED <<mailed, around, outage, pull, option, watcher, overtaken, old, news>>

Pulling(h) ==
  \/ \E mine \in BOOLEAN : SyncBegins(h, mine)
  \/ SyncLooks(h) \/ SyncSucceeds(h) \/ SyncFails(h)
  \/ \E p \in Places : SyncRoom(h, p)

Polling ==
  \/ PollBegins \/ PollFails \/ ReadHealth \/ PollReports \/ WaitEnds \/ TimesOut
  \/ \E answers \in BOOLEAN : ReadInbox(answers)

Others ==
  \/ \E k \in DOMAIN option.scope : Pulling(option.scope[k])
  \/ \E i \in option.posts : Mail(i) \/ DrainOne(i)
  \/ \E p \in option.rooms : Follow(p) \/ Unfollow(p)

\* Until the watcher is done.
WatchNext == watcher.step # "done" /\ (Polling \/ Others)

WatchSpec == WatchInit /\ [][WatchNext]_watchVars

-----------------------------------------------------------------------------
\* "Silence is only reported when it was checked": a wait on one network that ends with
\* "nothing matched, checked=confirmed" leaves nothing untold that a completed sync,
\* good or bad, had seen in a followed room before the last poll read, except what was
\* cleared by another command and, for --new-only, what the watcher armed on.  (The race
\* it leaves: a sync that ends between the answers to inbox and to health.)
SilenceIsChecked ==
  watcher.exit = 3 /\ Len(option.scope) = 1 /\ ~overtaken => due \subseteq cleared \cup old

\* "An item already in the inbox is not an arrival": nothing that was pending in the
\* network the watcher armed on is ever announced as new.
PendingIsNotNews == news \cap old = {}

\* A watcher tells the truth about what came and about what did not.
WatchIsHonest == SilenceIsChecked /\ PendingIsNotNews

=============================================================================
