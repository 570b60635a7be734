-------------------------------- MODULE Reading --------------------------------
(***************************************************************************)
(* What one agent has read of one room, and what it says of it: the inbox  *)
(* table, the mark of what was looked at, the receipt on main, and the     *)
(* answers that settle an item (packages/core/src/network/inbox.ts,        *)
(* network/delivery.ts, network/waiting.ts, state.ts, Network.answer).     *)
(*                                                                         *)
(* A message is its ULID, here a number; they arrive in any order.  Calls  *)
(* of one agent overlap: a daemon serves several connections at once.      *)
(***************************************************************************)
EXTENDS Naturals

CONSTANTS Letters,      \* the ULIDs of the messages addressed to the agent
          Questions,    \* those that are marked needs: human
          Thread,       \* those of one thread, which a call may wait for
          Readers,      \* calls in flight, the ones that await something
          NoReading     \* a reader that does nothing

VARIABLES arrived,     \* the rows of the inbox table
          handled,     \* those with processed_at
          seenThrough, \* the mark in the meta table, 0 before the first look
          receipt,     \* read_through in the agent's receipt
          reading,     \* reading[k]: what call k is doing
          inRoom,      \* the agent is subscribed to the room
          shown,       \* history: what a call has returned to the agent
          relayed,     \* history: the letters that were answered, and by whom
          late         \* history: letters that arrived under a larger mark

readingVars == <<arrived, handled, seenThrough, receipt, reading, inRoom, shown, relayed, late>>

ASSUME ReadingAssumption ==
  /\ Letters \subseteq Nat \ {0} /\ Questions \subseteq Letters /\ Thread \subseteq Letters

Authors == {"agent", "human"}
Reading ==
  [does: {"publish"}, through: Letters]
  \cup [does: {"send", "settle", "ack", "drain"}, letter: Letters, author: Authors]

\* Type invariant.
ReadingTypeOK ==
  /\ arrived \subseteq Letters /\ handled \subseteq arrived
  /\ seenThrough \in Letters \cup {0}
  /\ receipt \in Letters \cup {0}
  /\ \A k \in Readers : reading[k] = NoReading \/ reading[k] \in Reading
  /\ inRoom \in BOOLEAN
  /\ shown \subseteq Letters /\ relayed \subseteq Letters \X Authors
  /\ late \subseteq Letters

ReadingInit ==
  /\ arrived = {} /\ handled = {} /\ seenThrough = 0
  /\ receipt = 0
  /\ reading = [k \in Readers |-> NoReading]
  /\ inRoom = TRUE
  /\ shown = {} /\ relayed = {} /\ late = {}

Pending == arrived \ handled
Idles(k) == reading[k] = NoReading
Turns(k, to) == reading' = [reading EXCEPT ![k] = to]

-----------------------------------------------------------------------------
\* addToInbox, by a sync.  A row that is there stays as it is.
Arrive(m) ==
  /\ inRoom /\ m \notin arrived
  /\ arrived' = arrived \cup {m}
  /\ late' = IF m <= seenThrough THEN late \cup {m} ELSE late
  /\ UNCHANGED <<handled, seenThrough, receipt, reading, inRoom, shown, relayed>>

\* recordSeen: the mark of the room moves up to the newest of the items.
RecordSeen(items) ==
  LET reached == items \cup {seenThrough}
  IN  seenThrough' = CHOOSE m \in reached : \A i \in reached : i <= m

\* inbox(query): what is pending, or what a filter lets through.
LookInbox(query) ==
  LET items == Pending \cap query
  IN  /\ inRoom
      /\ RecordSeen(items)
      /\ shown' = shown \cup items
      /\ UNCHANGED <<arrived, handled, receipt, reading, inRoom, relayed, late>>

\* waitForInbox for a thread: the items of the whole query are recorded, and those of
\* the thread returned; if there are none, that does not end the wait.
WaitForThread ==
  /\ RecordSeen(Pending)
  /\ shown' = shown \cup (Pending \cap Thread)
  /\ UNCHANGED <<arrived, handled, receipt, reading, inRoom, relayed, late>>

\* drainInbox: whichever ids the caller names.
Drain(ids) ==
  /\ handled' = handled \cup ((ids \cap arrived) \ Questions)
  /\ UNCHANGED <<arrived, seenThrough, receipt, reading, inRoom, shown, relayed, late>>

\* leaveRoom forgets the rows, and not the mark.
ForgetRoom ==
  /\ inRoom
  /\ inRoom' = FALSE /\ arrived' = {} /\ handled' = {}
  /\ UNCHANGED <<seenThrough, receipt, reading, shown, relayed, late>>

JoinAgain ==
  /\ ~inRoom
  /\ inRoom' = TRUE
  /\ UNCHANGED <<arrived, handled, seenThrough, receipt, reading, shown, relayed, late>>

-----------------------------------------------------------------------------
\* publishReceipt up to the network lock: what the receipt will say is read before it.
PublishReads(k) ==
  /\ Idles(k) /\ seenThrough # 0
  /\ Turns(k, [does |-> "publish", through |-> seenThrough])
  /\ UNCHANGED <<arrived, handled, seenThrough, receipt, inRoom, shown, relayed, late>>

\* And under it: the receipt is committed if it differs from the one that is there.
PublishWrites(k) ==
  /\ ~Idles(k) /\ reading[k].does = "publish"
  /\ receipt' = reading[k].through
  /\ Turns(k, NoReading)
  /\ UNCHANGED <<arrived, handled, seenThrough, inRoom, shown, relayed, late>>

\* trace: whether the agent has read m, as its receipt has it.
TracedRead(m) == receipt >= m

-----------------------------------------------------------------------------
\* answer: the row is looked up, and a person asked to confirm an answer to a question
\* for people; an answer to anything else is the agent's, or a person's if one confirms.
AnswerBegins(k, m, author) ==
  /\ Idles(k) /\ m \in arrived
  /\ m \in Questions => author = "human"
  /\ Turns(k, [does |-> "send", letter |-> m, author |-> author])
  /\ UNCHANGED <<arrived, handled, seenThrough, receipt, inRoom, shown, relayed, late>>

\* handshake with ackTo: never to a question for people.
AckBegins(k, m) ==
  /\ Idles(k) /\ m \in arrived \ Questions
  /\ Turns(k, [does |-> "ack", letter |-> m, author |-> "agent"])
  /\ UNCHANGED <<arrived, handled, seenThrough, receipt, inRoom, shown, relayed, late>>

Sends(k) == ~Idles(k) /\ reading[k].does \in {"send", "ack"}

\* What a call remembers once its message is on its way: what is left to settle.
AfterSend(r) ==
  [does |-> IF r.does = "ack" THEN "drain" ELSE "settle", letter |-> r.letter, author |-> r.author]

MutAnswerSent(k) ==
  /\ Sends(k) /\ handled' = handled \cup ({reading[k].letter} \cap arrived)
  /\ Turns(k, AfterSend(reading[k]))
  /\ UNCHANGED <<arrived, seenThrough, receipt, inRoom, shown, relayed, late>>

\* send has made its commit.
AnswerSent(k) ==
  /\ Sends(k)
  /\ relayed' = relayed \cup {<<reading[k].letter, reading[k].author>>}
  /\ Turns(k, AfterSend(reading[k]))
  /\ UNCHANGED <<arrived, handled, seenThrough, receipt, inRoom, shown, late>>

\* The person says no, send throws (the room was left, the budget is used up), or the
\* process dies.
CallEnds(k) ==
  /\ ~Idles(k)
  /\ Turns(k, NoReading)
  /\ UNCHANGED <<arrived, handled, seenThrough, receipt, inRoom, shown, relayed, late>>

\* resolveHumanItem, or markProcessed after a handshake.
AnswerSettles(k) ==
  /\ ~Idles(k) /\ reading[k].does \in {"settle", "drain"}
  /\ handled' = handled \cup (({reading[k].letter} \cap arrived)
                              \ (IF reading[k].does = "drain" THEN Questions ELSE {}))
  /\ Turns(k, NoReading)
  /\ UNCHANGED <<arrived, seenThrough, receipt, inRoom, shown, relayed, late>>

-----------------------------------------------------------------------------
OnInbox ==
  \/ \E m \in Letters : Arrive(m)
  \/ \E query \in {Letters, Questions, Thread} : LookInbox(query)
  \/ WaitForThread \/ ForgetRoom \/ JoinAgain
  \/ \E ids \in SUBSET Letters : Drain(ids)

OnCall(k) ==
  \/ PublishReads(k) \/ PublishWrites(k) \/ CallEnds(k)
  \/ \E m \in Letters : AckBegins(k, m) \/ \E author \in Authors : AnswerBegins(k, m, author)
  \/ AnswerSent(k) \/ AnswerSettles(k)

ReadingNext == OnInbox \/ \E k \in Readers : OnCall(k)

ReadingSpec == ReadingInit /\ [][ReadingNext]_readingVars

-----------------------------------------------------------------------------
\* "They remain pending until an answer is recorded through the cooperative human-relay
\* path" (state.ts on markProcessed): a question for people is never settled but by an
\* answer of a person, whatever is drained, acknowledged, forgotten or lost meanwhile.
QuestionsWaitForPeople == \A m \in handled \cap Questions : <<m, "human">> \in relayed

\* "Remember what this agent has actually looked at" (inbox.ts on recordSeen): a message
\* that the receipt covers, and that did not arrive behind it, was shown to the agent.
ReadWasShown == \A m \in arrived \ late : TracedRead(m) => m \in shown

=============================================================================
