------------------------- MODULE EventStreamProofs -------------------------
(***************************************************************************)
(* That a screen misses nothing, and applies no event twice or out of      *)
(* order, for every capacity, buffer and number of failures, when the      *)
(* numbers of a run stay behind the clock of the next start.               *)
(*                                                                         *)
(* The invariant says of every event the screen does not know yet, and     *)
(* that something further on depends on, what will make it known: a        *)
(* message ahead on the wire, a Reset ahead on the wire, or a reseed that  *)
(* has begun.                                                              *)
(*                                                                         *)
(* Then the History pane that the stream's events, and a poll, keep up to  *)
(* date (HistoryPane), for any number of executions, any page and any      *)
(* actions of the user and of others: an answer read before a change is    *)
(* still true of what it tells (AnswersTrue), the rows and a page on its   *)
(* way are an unbroken piece of the list (Pieces), and a row that says     *)
(* running is about to be read (Settling).                                 *)
(***************************************************************************)
EXTENDS EventStream, HistoryPane, FiniteSetTheorems, SequenceTheorems, TLAPS

\* The event at place i will be known once the first k - 1 messages on the
\* wire, and a reseed that has begun, are handled.
Ahead(i, k) ==
    \/ i \in seen
    \/ fpc = "reseed" /\ i <= mark
    \/ \E m \in 1..Len(wire) :
           /\ m < k
           /\ \/ wire[m].kind = "event" /\ wire[m].place = i
              \/ wire[m].kind = "reset" /\ i <= wire[m].place

AheadTo(n, k) == \A i \in 1..count : i <= n /\ i \notin outputs => Ahead(i, k)

KnownTo(n) == \A i \in 1..count : i <= n /\ i \notin outputs => i \in seen

End == Len(wire) + 1

\* Numbers of the present run and places of events.
NumbersOK ==
    up => /\ nextId - offset = count + 1
          /\ firstKept >= 3
          /\ firstKept - offset >= 1

\* A message of a dead connection carries a number the new run cannot explain.
WireOK ==
    \A k \in 1..Len(wire) :
        /\ wire[k].place <= count
        /\ wire[k].kind = "event" =>
              /\ wire[k].place >= 1
              /\ wire[k].id >= 2 /\ wire[k].id < nextId
              /\ wpc # "none" => wire[k].place = wire[k].id - offset
              /\ wpc = "none" /\ up => wire[k].id < firstKept - 1

\* Everything before the event that message k carries is known or ahead of it.
Follows(k) == wire[k].kind = "event" => AheadTo(wire[k].place - 1, k)

WireAhead == \A k \in 1..Len(wire) : Follows(k)

\* What the last number the feed received stands for.
ClientOK ==
    /\ last_event_id >= 1
    /\ last_event_id = 1 \/ last_event_id < nextId
    /\ fpc \in {"connect", "open"} => wire = <<>> /\ wpc = "none"
    /\ mark <= count

ClientKnows ==
    up /\ last_event_id >= firstKept - 1
        => KnownTo(last_event_id - offset)

WatchOK ==
    wpc # "none" =>
        /\ up
        /\ wpc = "start" => /\ wire = <<>>
                                 /\ fpc = "watching"
                                 /\ last_id \in {1, last_event_id}
        /\ wpc # "start" => last_id < nextId
        /\ wpc = "send" => /\ from = last_id + 1
                                /\ from - offset >= 1
                                /\ from >= 2
                                /\ upto < nextId

WatchAhead ==
    /\ wpc = "since" /\ last_id >= firstKept - 1
           => AheadTo(last_id - offset, End)
    /\ wpc \in {"send", "wait"} => AheadTo(last_id - offset, End)

\* Numbers ahead of the feed go up, and the call is past all it sent.
OrderOK ==
    /\ \A k \in 1..Len(wire) : wire[k].kind = "event" =>
           /\ wire[k].id > last_event_id
           /\ \A j \in 1..(k - 1) :
                  wire[j].kind = "event" => wire[j].id < wire[k].id
           /\ wpc # "none" => wire[k].id <= last_id
    /\ wpc = "since" /\ last_id >= firstKept - 1
           => last_event_id <= last_id
    /\ wpc \in {"reset", "send", "wait"}
           => last_event_id <= last_id

Closed == \A j \in seen : KnownTo(j)

StreamInv ==
    /\ StreamTypeOK /\ NumbersOK /\ WireOK /\ WireAhead /\ ClientOK
    /\ ClientKnows /\ WatchOK /\ WatchAhead /\ OrderOK /\ Closed
----------------------------------------------------------------------------
(* Sequences of messages. *)

\* The first message taken off the wire.
LEMMA PopFacts ==
    ASSUME NEW s \in Seq(Message), s # <<>>
    PROVE  /\ Len(s) \in Nat /\ Len(s) >= 1
           /\ Head(s) = s[1] /\ s[1] \in Message
           /\ Tail(s) \in Seq(Message) /\ Len(Tail(s)) = Len(s) - 1
           /\ \A k \in 1..(Len(s) - 1) : Tail(s)[k] = s[k + 1]
OBVIOUS

\* A message put on the wire.
LEMMA PushFacts ==
    ASSUME NEW s \in Seq(Message), NEW m \in Message
    PROVE  /\ Len(s) \in Nat
           /\ Append(s, m) \in Seq(Message)
           /\ Len(Append(s, m)) = Len(s) + 1
           /\ Append(s, m)[Len(s) + 1] = m
           /\ \A k \in 1..Len(s) : Append(s, m)[k] = s[k]
OBVIOUS

\* The messages that still arrive after a crash.
LEMMA CutFacts ==
    ASSUME NEW s \in Seq(Message), NEW n \in 0..Len(s)
    PROVE  /\ Len(s) \in Nat
           /\ SubSeq(s, 1, n) \in Seq(Message)
           /\ Len(SubSeq(s, 1, n)) = n
           /\ \A k \in 1..n : SubSeq(s, 1, n)[k] = s[k]
OBVIOUS

\* An empty wire.
LEMMA EmptyFacts ==
    <<>> \in Seq(Message) /\ Len(<<>>) = 0
OBVIOUS

\* Fields of messages.
LEMMA MessageFacts ==
    ASSUME NEW m \in Message
    PROVE  m.id \in Int /\ m.place \in Int /\ m.kind \in {"reset", "event"}
BY DEF Message

LEMMA NewMessage ==
    ASSUME NEW i \in Int, NEW p \in Int, NEW k \in {"reset", "event"}
    PROVE  [kind |-> k, id |-> i, place |-> p] \in Message
BY DEF Message

----------------------------------------------------------------------------
(* Types. *)

\* append and a start keep the numbers in order.
LEMMA BacklogTypeStep ==
    ASSUME BacklogTypeOK, [Next]_vars
    PROVE  BacklogTypeOK'
<1> USE StreamConstants DEF BacklogTypeOK
<1>1. CASE UNCHANGED <<firstKept, nextId, offset, count>>
  BY <1>1
<1>2. CASE StartServer
  BY <1>2 DEF StartServer, Clock, watch, feed, backlog
<1>3. CASE AppendEvent
  BY <1>3 DEF AppendEvent, watch, feed, backlog
<1> QED
  BY <1>1, <1>2, <1>3 DEF Next, WatchStep, FeedStep, vars, backlog, watch,
     feed, Crash, Drop, HandleEvent, HandleReset, Handled, HealthFails,
     HealthOK, NoWatch, Open, Reconnect, ReseedDone, StreamEnds,
     SwitchVerbose, WatchLatest, WatchReset, WatchSend, WatchSince,
     WatchStart, WatchWait

\* The call's locals are numbers.
LEMMA WatchTypeStep ==
    ASSUME BacklogTypeOK, WatchTypeOK, FeedTypeOK, [Next]_vars
    PROVE  WatchTypeOK'
<1> USE DEF BacklogTypeOK, WatchTypeOK, FeedTypeOK, WatchPCs
<1>1. CASE UNCHANGED <<wpc, last_id, from, upto>>
  BY <1>1
<1>2. CASE WatchStart
  BY <1>2 DEF WatchStart, latest_id, EarlierId, feed, backlog
<1>3. CASE WatchSince
  BY <1>3 DEF WatchSince, Unexplained, LaterId, latest_id, feed, backlog
<1>4. CASE WatchLatest
  BY <1>4 DEF WatchLatest, latest_id, feed, backlog
<1>5. CASE WatchReset
  BY <1>5 DEF WatchReset, Place, feed, backlog
<1>6. CASE WatchSend
  BY <1>6 DEF WatchSend, Wanted, Place, feed, backlog
<1>7. CASE WatchWait
  BY <1>7 DEF WatchWait, feed, backlog
<1>8. CASE Open
  BY <1>8 DEF Open, FORCE_RESET_ID, backlog
<1>9. CASE Drop
  BY <1>9 DEF Drop, Fail, Reconnect, NoWatch, backlog
<1>10. CASE SwitchVerbose
  BY <1>10 DEF SwitchVerbose, Fail, NoWatch, watch, backlog
<1>11. CASE Crash
  BY <1>11 DEF Crash, Fail, NoWatch, feed, backlog
<1> QED
  BY <1>1, <1>2, <1>3, <1>4, <1>5, <1>6, <1>7, <1>8, <1>9, <1>10, <1>11
     DEF Next, WatchStep, FeedStep, vars, backlog, watch, feed, AppendEvent,
     HandleEvent, HandleReset, Handled, HealthFails, HealthOK, Reconnect,
     ReseedDone, StartServer, StreamEnds

\* The feed's state.
LEMMA FeedTypeStep ==
    ASSUME BacklogTypeOK, FeedTypeOK, WireTypeOK, [Next]_vars
    PROVE  FeedTypeOK'
<1> USE StreamConstants DEF BacklogTypeOK, FeedTypeOK, WireTypeOK, FeedPCs
<1>1. CASE UNCHANGED <<fpc, last_event_id, mark, breaks>>
  BY <1>1
<1>2. CASE HealthOK
  BY <1>2 DEF HealthOK, watch, backlog
<1>3. CASE Open
  BY <1>3 DEF Open, FORCE_RESET_ID, backlog
<1>4. CASE HandleReset
  BY <1>4 DEF HandleReset, Handled, watch, backlog
<1>5. CASE HandleEvent
  <2>1. wire # <<>> /\ last_event_id' = Head(wire).id
    BY <1>5 DEF HandleEvent, Handled
  <2>2. Head(wire) \in Message
    BY <2>1, PopFacts
  <2>3. last_event_id' \in Int
    BY <2>1, <2>2, MessageFacts
  <2> QED
    BY <1>5, <2>3 DEF HandleEvent, Handled
<1>6. CASE ReseedDone
  BY <1>6 DEF ReseedDone, watch, backlog
<1>7. CASE StreamEnds
  BY <1>7 DEF StreamEnds, Reconnect, watch, backlog
<1>8. CASE HealthFails
  BY <1>8 DEF HealthFails, Fail, watch, backlog
<1>9. CASE Drop
  BY <1>9 DEF Drop, Fail, Reconnect, NoWatch, backlog
<1>10. CASE SwitchVerbose
  BY <1>10 DEF SwitchVerbose, Fail, NoWatch, watch, backlog
<1>11. CASE Crash
  BY <1>11 DEF Crash, Fail, NoWatch, feed, backlog
<1> QED
  BY <1>1, <1>2, <1>3, <1>4, <1>5, <1>6, <1>7, <1>8, <1>9, <1>10, <1>11
     DEF Next, WatchStep, FeedStep, vars, backlog, watch, feed, AppendEvent,
     StartServer, WatchLatest, WatchReset, WatchSend, WatchSince, WatchStart,
     WatchWait

\* The wire holds messages, and no more than it buffers.
LEMMA WireTypeStep ==
    ASSUME BacklogTypeOK, WatchTypeOK, WireTypeOK, [Next]_vars
    PROVE  WireTypeOK'
<1> USE StreamConstants DEF BacklogTypeOK, WatchTypeOK, WireTypeOK
<1>1. CASE UNCHANGED <<wire>>
  BY <1>1
<1>2. CASE WatchReset
  <2> DEFINE m == [kind |-> "reset", id |-> 0, place |-> last_id - offset]
  <2>0. 0 \in Int /\ last_id - offset \in Int
    OBVIOUS
  <2>1. m \in Message
    BY <2>0, NewMessage
  <2>2. wire' = Append(wire, m) /\ Len(wire) < MaxWire
    BY <1>2 DEF WatchReset, Place
  <2> QED
    BY <2>1, <2>2, PushFacts
<1>3. CASE WatchSend
  <2> DEFINE m == [kind |-> "event", id |-> from, place |-> from - offset]
  <2>0. from \in Int /\ from - offset \in Int
    OBVIOUS
  <2>1. m \in Message
    BY <2>0, NewMessage
  <2>2. \/ wire' = Append(wire, m) /\ Len(wire) < MaxWire
        \/ wire' = wire
    BY <1>3 DEF WatchSend, Place
  <2> QED
    BY <2>1, <2>2, PushFacts
<1>4. CASE HandleReset
  <2>1. wire # <<>> /\ wire' = Tail(wire)
    BY <1>4 DEF HandleReset, Handled
  <2> QED
    BY <2>1, PopFacts
<1>5. CASE HandleEvent
  <2>1. wire # <<>> /\ wire' = Tail(wire)
    BY <1>5 DEF HandleEvent, Handled
  <2> QED
    BY <2>1, PopFacts
<1>6. CASE StreamEnds
  BY <1>6, EmptyFacts DEF StreamEnds, Reconnect
<1>7. CASE Drop
  BY <1>7, EmptyFacts DEF Drop, Reconnect
<1>8. CASE SwitchVerbose
  <2>1. wire' = wire \/ wire' = <<>>
    BY <1>8 DEF SwitchVerbose
  <2>2. CASE wire' = wire
    BY <2>2
  <2>3. CASE wire' = <<>>
    BY <2>3, EmptyFacts
  <2> QED
    BY <2>1, <2>2, <2>3
<1>9. CASE Crash
  <2>1. PICK n \in 0..Len(wire) : wire' = SubSeq(wire, 1, n)
    BY <1>9 DEF Crash
  <2> QED
    BY <2>1, CutFacts
<1> QED
  BY <1>1, <1>2, <1>3, <1>4, <1>5, <1>6, <1>7, <1>8, <1>9 DEF Next,
     WatchStep, FeedStep, vars, backlog, watch, feed, AppendEvent,
     HealthFails, HealthOK, Open, ReseedDone, StartServer, WatchLatest,
     WatchSince, WatchStart, WatchWait

\* The screen knows events that happened.
LEMMA KnownTypeStep ==
    ASSUME BacklogTypeOK, KnownTypeOK, FeedTypeOK, WireTypeOK, WireOK,
           ClientOK, [Next]_vars
    PROVE  KnownTypeOK'
<1> USE DEF BacklogTypeOK, KnownTypeOK, FeedTypeOK, WireTypeOK, WireOK,
    ClientOK
<1>1. CASE UNCHANGED <<outputs, seen, count>>
  BY <1>1
<1>2. CASE AppendEvent
  <2>1. /\ count' = count + 1 /\ seen' = seen
        /\ outputs' \subseteq outputs \cup {count + 1}
    BY <1>2 DEF AppendEvent
  <2>2. 1..count \subseteq 1..(count + 1) /\ count + 1 \in 1..(count + 1)
    OBVIOUS
  <2> QED
    BY <2>1, <2>2
<1>3. CASE HandleEvent
  <2>1. /\ wire # <<>> /\ Head(wire).kind = "event"
        /\ seen' = seen \cup {Head(wire).place}
        /\ count' = count /\ outputs' = outputs
    BY <1>3 DEF HandleEvent, Handled, backlog
  <2>2. /\ Head(wire) = wire[1] /\ wire[1] \in Message
        /\ 1 \in 1..Len(wire)
    BY <2>1, PopFacts
  <2>3. wire[1].place \in 1..count
    BY <2>1, <2>2, MessageFacts
  <2> QED
    BY <2>1, <2>2, <2>3
<1>4. CASE ReseedDone
  BY <1>4 DEF ReseedDone, watch, backlog
<1> QED
  BY <1>1, <1>2, <1>3, <1>4 DEF Next, WatchStep, FeedStep, vars, backlog,
     watch, feed, Crash, Drop, HandleReset, Handled, HealthFails, HealthOK,
     NoWatch, Open, Reconnect, StartServer, StreamEnds, SwitchVerbose,
     WatchLatest, WatchReset, WatchSend, WatchSince, WatchStart, WatchWait

\* Flags.
LEMMA FlagTypeStep ==
    ASSUME FlagTypeOK, [Next]_vars
    PROVE  FlagTypeOK'
<1> USE DEF FlagTypeOK
<1>1. CASE UNCHANGED <<up, include_output, reopen_fresh, connected,
       wants_output>>
  BY <1>1
<1>2. CASE StartServer
  BY <1>2 DEF StartServer, Clock, watch, feed, backlog
<1>3. CASE Open
  BY <1>3 DEF Open, FORCE_RESET_ID, backlog
<1>4. CASE HandleReset
  BY <1>4 DEF HandleReset, Handled, watch, backlog
<1>5. CASE HandleEvent
  BY <1>5 DEF HandleEvent, Handled, watch, backlog
<1>6. CASE ReseedDone
  BY <1>6 DEF ReseedDone, watch, backlog
<1>7. CASE StreamEnds
  BY <1>7 DEF StreamEnds, Reconnect, watch, backlog
<1>8. CASE HealthFails
  BY <1>8 DEF HealthFails, Fail, watch, backlog
<1>9. CASE Drop
  BY <1>9 DEF Drop, Fail, Reconnect, NoWatch, backlog
<1>10. CASE SwitchVerbose
  BY <1>10 DEF SwitchVerbose, NoWatch, watch, backlog
<1>11. CASE Crash
  BY <1>11 DEF Crash, Fail, NoWatch, feed, backlog
<1> QED
  BY <1>1, <1>2, <1>3, <1>4, <1>5, <1>6, <1>7, <1>8, <1>9, <1>10, <1>11
     DEF Next, WatchStep, FeedStep, vars, backlog, watch, feed, AppendEvent,
     HealthOK, WatchLatest, WatchReset, WatchSend, WatchSince, WatchStart,
     WatchWait

----------------------------------------------------------------------------
(* Numbers. *)

\* Numbers and places of a run go together.
LEMMA NumbersStep ==
    ASSUME BacklogTypeOK, NumbersOK, [Next]_vars
    PROVE  NumbersOK'
<1> USE StreamConstants DEF BacklogTypeOK, NumbersOK
<1>1. CASE UNCHANGED <<up, firstKept, nextId, offset, count>>
  BY <1>1
<1>2. CASE StartServer
  BY <1>2 DEF StartServer, Clock, watch, feed, backlog
<1>3. CASE AppendEvent
  BY <1>3 DEF AppendEvent, watch, feed, backlog
<1>4. CASE Crash
  BY <1>4 DEF Crash, Fail, NoWatch, feed, backlog
<1> QED
  BY <1>1, <1>2, <1>3, <1>4 DEF Next, WatchStep, FeedStep, vars, backlog,
     watch, feed, Drop, HandleEvent, HandleReset, Handled, HealthFails,
     HealthOK, NoWatch, Open, Reconnect, ReseedDone, StreamEnds,
     SwitchVerbose, WatchLatest, WatchReset, WatchSend, WatchSince,
     WatchStart, WatchWait

\* The call's own numbers.
LEMMA WatchOKStep ==
    ASSUME BacklogTypeOK, WatchTypeOK, FeedTypeOK, NumbersOK, ClientOK,
           WatchOK, [Next]_vars
    PROVE  WatchOK'
<1> USE StreamConstants DEF BacklogTypeOK, WatchTypeOK, FeedTypeOK,
    NumbersOK, ClientOK, WatchOK
<1>1. CASE UNCHANGED <<up, firstKept, nextId, offset, wpc, last_id, from, upto,
       wire, fpc, last_event_id>>
  BY <1>1
<1>2. CASE StartServer
  BY <1>2 DEF StartServer, Clock, watch, feed, backlog
<1>3. CASE AppendEvent
  BY <1>3 DEF AppendEvent, watch, feed, backlog
<1>4. CASE WatchStart
  BY <1>4 DEF WatchStart, latest_id, EarlierId, feed, backlog
<1>5. CASE WatchSince
  BY <1>5 DEF WatchSince, Unexplained, LaterId, latest_id, feed, backlog
<1>6. CASE WatchLatest
  BY <1>6 DEF WatchLatest, latest_id, feed, backlog
<1>7. CASE WatchReset
  BY <1>7 DEF WatchReset, Place, feed, backlog
<1>8. CASE WatchSend
  BY <1>8 DEF WatchSend, Wanted, Place, feed, backlog
<1>9. CASE WatchWait
  BY <1>9 DEF WatchWait, feed, backlog
<1>10. CASE HealthOK
  BY <1>10 DEF HealthOK, watch, backlog
<1>11. CASE Open
  BY <1>11 DEF Open, FORCE_RESET_ID, backlog
<1>12. CASE HandleReset
  BY <1>12 DEF HandleReset, Handled, watch, backlog
<1>13. CASE HandleEvent
  <2>1. /\ wire # <<>> /\ wpc' = wpc /\ last_id' = last_id /\ from' = from
        /\ upto' = upto /\ up' = up /\ nextId' = nextId /\ offset' = offset
    BY <1>13 DEF HandleEvent, Handled, watch, backlog
  <2>2. wpc # "start"
    BY <2>1
  <2> QED
    BY <2>1, <2>2
<1>14. CASE ReseedDone
  BY <1>14 DEF ReseedDone, watch, backlog
<1>15. CASE StreamEnds
  BY <1>15 DEF StreamEnds, Reconnect, watch, backlog
<1>16. CASE Drop
  BY <1>16 DEF Drop, Fail, Reconnect, NoWatch, backlog
<1>17. CASE SwitchVerbose
  BY <1>17 DEF SwitchVerbose, Fail, NoWatch, watch, backlog
<1>18. CASE Crash
  BY <1>18 DEF Crash, Fail, NoWatch, feed, backlog
<1> QED
  BY <1>1, <1>2, <1>3, <1>4, <1>5, <1>6, <1>7, <1>8, <1>9, <1>10, <1>11,
     <1>12, <1>13, <1>14, <1>15, <1>16, <1>17, <1>18 DEF Next, WatchStep,
     FeedStep, vars, backlog, watch, feed, HealthFails

\* The feed's own numbers.
LEMMA ClientStep ==
    ASSUME ~ClockBack, BacklogTypeOK, FeedTypeOK, WireTypeOK, NumbersOK,
           WireOK, ClientOK, WatchOK, [Next]_vars
    PROVE  ClientOK'
<1> USE StreamConstants DEF BacklogTypeOK, FeedTypeOK, WireTypeOK, NumbersOK,
    WireOK, ClientOK, WatchOK
<1>1. CASE UNCHANGED <<last_event_id, nextId, fpc, wire, wpc, mark, count>>
  BY <1>1
<1>2. CASE StartServer
  BY <1>2 DEF StartServer, Clock, watch, feed, backlog
<1>3. CASE AppendEvent
  BY <1>3 DEF AppendEvent, watch, feed, backlog
<1>4. CASE WatchStart
  BY <1>4 DEF WatchStart, latest_id, EarlierId, feed, backlog
<1>5. CASE WatchSince
  BY <1>5 DEF WatchSince, Unexplained, LaterId, latest_id, feed, backlog
<1>6. CASE WatchLatest
  BY <1>6 DEF WatchLatest, latest_id, feed, backlog
<1>7. CASE WatchReset
  BY <1>7 DEF WatchReset, Place, feed, backlog
<1>8. CASE WatchSend
  BY <1>8 DEF WatchSend, Wanted, Place, feed, backlog
<1>9. CASE WatchWait
  BY <1>9 DEF WatchWait, feed, backlog
<1>10. CASE HealthOK
  BY <1>10 DEF HealthOK, watch, backlog
<1>11. CASE Open
  BY <1>11 DEF Open, FORCE_RESET_ID, backlog
<1>12. CASE HandleReset
  BY <1>12 DEF HandleReset, Handled, watch, backlog
<1>13. CASE HandleEvent
  <2>1. /\ wire # <<>> /\ Head(wire).kind = "event" /\ fpc = "watching"
        /\ last_event_id' = Head(wire).id /\ fpc' = fpc /\ mark' = mark
        /\ nextId' = nextId /\ count' = count
    BY <1>13 DEF HandleEvent, Handled, backlog
  <2>2. Head(wire) = wire[1] /\ 1 \in 1..Len(wire) /\ wire[1] \in Message
    BY <2>1, PopFacts
  <2>3. last_event_id' \in Int /\ last_event_id' >= 2 /\ last_event_id' < nextId
    BY <2>1, <2>2, MessageFacts
  <2> QED
    BY <2>1, <2>3
<1>14. CASE ReseedDone
  BY <1>14 DEF ReseedDone, watch, backlog
<1>15. CASE StreamEnds
  BY <1>15 DEF StreamEnds, Reconnect, watch, backlog
<1>16. CASE Drop
  BY <1>16 DEF Drop, Fail, Reconnect, NoWatch, backlog
<1>17. CASE SwitchVerbose
  BY <1>17 DEF SwitchVerbose, Fail, NoWatch, watch, backlog
<1>18. CASE Crash
  BY <1>18 DEF Crash, Fail, NoWatch, feed, backlog
<1> QED
  BY <1>1, <1>2, <1>3, <1>4, <1>5, <1>6, <1>7, <1>8, <1>9, <1>10, <1>11,
     <1>12, <1>13, <1>14, <1>15, <1>16, <1>17, <1>18 DEF Next, WatchStep,
     FeedStep, vars, backlog, watch, feed, HealthFails

\* What the messages on the wire carry; those of a dead connection are old to the next run.
LEMMA WireStep ==
    ASSUME ~ClockBack, BacklogTypeOK, WatchTypeOK, WireTypeOK, NumbersOK,
           WireOK, ClientOK, WatchOK, [Next]_vars
    PROVE  WireOK'
<1> USE StreamConstants, MessageFacts DEF BacklogTypeOK, WatchTypeOK,
    WireTypeOK, NumbersOK, WireOK, ClientOK, WatchOK
<1>1. CASE UNCHANGED <<wire, count, nextId, wpc, offset, up, firstKept>>
  BY <1>1
<1>2. CASE StartServer
  BY <1>2 DEF StartServer, Clock, watch, feed, backlog
<1>3. CASE AppendEvent
  BY <1>3 DEF AppendEvent, watch, feed, backlog
<1>4. CASE WatchStart
  BY <1>4 DEF WatchStart, latest_id, EarlierId, feed, backlog
<1>5. CASE WatchSince
  BY <1>5 DEF WatchSince, Unexplained, LaterId, latest_id, feed, backlog
<1>6. CASE WatchLatest
  BY <1>6 DEF WatchLatest, latest_id, feed, backlog
<1>7. CASE WatchReset
  BY <1>7 DEF WatchReset, Place, feed, backlog
<1>8. CASE WatchSend
  <2> DEFINE m == [kind |-> "event", id |-> from, place |-> from - offset]
  <2>0. from \in Int /\ from - offset \in Int
    OBVIOUS
  <2>1. m \in Message
    BY <2>0, NewMessage
  <2>2. /\ wire' = Append(wire, m) \/ wire' = wire
        /\ from <= upto /\ wpc = "send" /\ wpc' = wpc
        /\ count' = count /\ nextId' = nextId /\ offset' = offset
    BY <1>8 DEF WatchSend, Place, backlog
  <2>3. from < nextId /\ from - offset >= 1 /\ from - offset <= count /\ from >= 2
    BY <2>2
  <2>4. CASE wire' = wire
    BY <2>2, <2>4
  <2>5. CASE wire' = Append(wire, m)
    BY <2>1, <2>2, <2>3, <2>5, PushFacts
  <2> QED
    BY <2>2, <2>4, <2>5
<1>9. CASE WatchWait
  BY <1>9 DEF WatchWait, feed, backlog
<1>10. CASE Open
  BY <1>10 DEF Open, FORCE_RESET_ID, backlog
<1>11. CASE HandleReset
  BY <1>11 DEF HandleReset, Handled, watch, backlog
<1>12. CASE HandleEvent
  BY <1>12 DEF HandleEvent, Handled, watch, backlog
<1>13. CASE StreamEnds
  BY <1>13 DEF StreamEnds, Reconnect, watch, backlog
<1>14. CASE Drop
  BY <1>14 DEF Drop, Fail, Reconnect, NoWatch, backlog
<1>15. CASE SwitchVerbose
  BY <1>15 DEF SwitchVerbose, Fail, NoWatch, watch, backlog
<1>16. CASE Crash
  BY <1>16 DEF Crash, Fail, NoWatch, feed, backlog
<1> QED
  BY <1>1, <1>2, <1>3, <1>4, <1>5, <1>6, <1>7, <1>8, <1>9, <1>10, <1>11,
     <1>12, <1>13, <1>14, <1>15, <1>16 DEF Next, WatchStep, FeedStep, vars,
     backlog, watch, feed, HealthFails, HealthOK, ReseedDone

\* The numbers ahead of the feed go up.
LEMMA OrderStep ==
    ASSUME ~ClockBack, BacklogTypeOK, WatchTypeOK, FeedTypeOK, WireTypeOK,
           NumbersOK, WireOK, ClientOK, WatchOK, OrderOK, [Next]_vars
    PROVE  OrderOK'
<1> USE StreamConstants, MessageFacts DEF BacklogTypeOK, WatchTypeOK,
    FeedTypeOK, WireTypeOK, NumbersOK, WireOK, ClientOK, WatchOK, OrderOK
<1>1. CASE UNCHANGED <<wire, wpc, last_id, firstKept, last_event_id>>
  BY <1>1
<1>2. CASE StartServer
  BY <1>2 DEF StartServer, Clock, watch, feed, backlog
<1>3. CASE AppendEvent
  BY <1>3 DEF AppendEvent, watch, feed, backlog
<1>4. CASE WatchStart
  BY <1>4 DEF WatchStart, latest_id, EarlierId, feed, backlog
<1>5. CASE WatchSince
  BY <1>5 DEF WatchSince, Unexplained, LaterId, latest_id, feed, backlog
<1>6. CASE WatchLatest
  BY <1>6 DEF WatchLatest, latest_id, feed, backlog
<1>7. CASE WatchReset
  BY <1>7 DEF WatchReset, Place, feed, backlog
<1>8. CASE WatchSend
  <2> DEFINE m == [kind |-> "event", id |-> from, place |-> from - offset]
  <2>0. from \in Int /\ from - offset \in Int
    OBVIOUS
  <2>1. m \in Message
    BY <2>0, NewMessage
  <2>2. /\ wire' = Append(wire, m) \/ wire' = wire
        /\ wpc = "send" /\ wpc' = wpc /\ last_id' = from
        /\ last_event_id' = last_event_id
    BY <1>8 DEF WatchSend, Place, feed
  <2>3. from > last_id /\ from > last_event_id
    BY <2>2
  <2>4. CASE wire' = wire
    BY <2>2, <2>3, <2>4
  <2>5. CASE wire' = Append(wire, m)
    BY <2>1, <2>2, <2>3, <2>5, PushFacts
  <2> QED
    BY <2>2, <2>4, <2>5
<1>9. CASE WatchWait
  BY <1>9 DEF WatchWait, feed, backlog
<1>10. CASE Open
  BY <1>10 DEF Open, FORCE_RESET_ID, backlog
<1>11. CASE HandleReset
  BY <1>11 DEF HandleReset, Handled, watch, backlog
<1>12. CASE HandleEvent
  BY <1>12 DEF HandleEvent, Handled, watch, backlog
<1>13. CASE StreamEnds
  BY <1>13 DEF StreamEnds, Reconnect, watch, backlog
<1>14. CASE Drop
  BY <1>14 DEF Drop, Fail, Reconnect, NoWatch, backlog
<1>15. CASE SwitchVerbose
  BY <1>15 DEF SwitchVerbose, Fail, NoWatch, watch, backlog
<1>16. CASE Crash
  BY <1>16 DEF Crash, Fail, NoWatch, feed, backlog
<1> QED
  BY <1>1, <1>2, <1>3, <1>4, <1>5, <1>6, <1>7, <1>8, <1>9, <1>10, <1>11,
     <1>12, <1>13, <1>14, <1>15, <1>16 DEF Next, WatchStep, FeedStep, vars,
     backlog, watch, feed, HealthFails, HealthOK, ReseedDone

----------------------------------------------------------------------------
(* What is known, and what is ahead. *)

\* When the head of the wire is an event, everything before it is known.
LEMMA HeadKnown ==
    ASSUME BacklogTypeOK, WireTypeOK, WireOK, WireAhead, HandleEvent
    PROVE  /\ 1 \in 1..Len(wire) /\ Head(wire) = wire[1] /\ wire[1] \in Message
           /\ wire[1].kind = "event" /\ wire[1].place \in 1..count
           /\ KnownTo(wire[1].place - 1)
<1>1. wire # <<>> /\ Head(wire).kind = "event" /\ fpc = "watching"
  BY DEF HandleEvent, Handled
<1>2. /\ 1 \in 1..Len(wire) /\ Head(wire) = wire[1] /\ wire[1] \in Message
  BY <1>1, PopFacts DEF WireTypeOK
<1>3. wire[1].place \in 1..count
  BY <1>1, <1>2, MessageFacts DEF WireOK, BacklogTypeOK
<1>4. AheadTo(wire[1].place - 1, 1)
  BY <1>1, <1>2 DEF WireAhead, Follows
<1>5. \A i : Ahead(i, 1) => i \in seen
  BY <1>1 DEF Ahead
<1> QED
  BY <1>1, <1>2, <1>3, <1>4, <1>5 DEF AheadTo, KnownTo

\* What the screen knows has no gap.
LEMMA KnownStep ==
    ASSUME BacklogTypeOK, WireTypeOK, KnownTypeOK, FeedTypeOK, ClientOK,
           WireOK, WireAhead, Closed, [Next]_vars
    PROVE  Closed'
<1> USE DEF BacklogTypeOK, WireTypeOK, KnownTypeOK, FeedTypeOK, ClientOK,
    Closed
<1>1. CASE UNCHANGED <<outputs, count, seen>>
  BY <1>1 DEF KnownTo
<1>2. CASE AppendEvent
  BY <1>2 DEF AppendEvent, KnownTo
<1>3. CASE HandleEvent
  <2>1. PICK p \in Int, q \in Int :
            /\ p = wire[1].place /\ q = wire[1].id /\ Head(wire) = wire[1]
            /\ p \in 1..count /\ KnownTo(p - 1) /\ wire[1].kind = "event"
            /\ 1 \in 1..Len(wire)
    BY <1>3, HeadKnown, MessageFacts
  <2>3. /\ seen' = seen \cup {p} /\ last_event_id' = q
        /\ outputs' = outputs /\ count' = count /\ up' = up /\ firstKept' = firstKept
        /\ offset' = offset
    BY <1>3, <2>1 DEF HandleEvent, Handled, backlog
  <2>4. KnownTo(p)'
    BY <2>1, <2>3 DEF KnownTo
  <2>5. \A j \in seen : KnownTo(j)'
    BY <2>3 DEF KnownTo
  <2> QED
    BY <2>3, <2>4, <2>5
<1>4. CASE ReseedDone
  BY <1>4 DEF ReseedDone, KnownTo, backlog
<1> QED
  BY <1>1, <1>2, <1>3, <1>4 DEF Next, WatchStep, FeedStep, vars, backlog,
     watch, feed, Crash, Drop, HandleReset, Handled, HealthFails, HealthOK,
     NoWatch, Open, Reconnect, StartServer, StreamEnds, SwitchVerbose,
     WatchLatest, WatchReset, WatchSend, WatchSince, WatchStart, WatchWait

\* The last number the feed received stands for all events before it.
LEMMA ClientKnowsStep ==
    ASSUME ~ClockBack, BacklogTypeOK, WireTypeOK, FeedTypeOK, KnownTypeOK,
           NumbersOK, ClientOK, WireOK, WireAhead, ClientKnows, [Next]_vars
    PROVE  ClientKnows'
<1> USE StreamConstants DEF BacklogTypeOK, FeedTypeOK, NumbersOK, ClientOK,
    ClientKnows
<1>1. CASE UNCHANGED <<up, firstKept, last_event_id, offset, outputs, count, seen>>
  BY <1>1 DEF KnownTo
<1>2. CASE StartServer
  BY <1>2 DEF StartServer, Clock, watch, feed, backlog
<1>3. CASE AppendEvent
  <2>1. /\ up' = up /\ up /\ count' = count + 1 /\ outputs \subseteq outputs'
        /\ seen' = seen /\ last_event_id' = last_event_id /\ offset' = offset
        /\ (firstKept' = firstKept \/ firstKept' = firstKept + 1)
    BY <1>3 DEF AppendEvent, feed
  <2>2. CASE last_event_id >= firstKept - 1
    <3>1. last_event_id < nextId
      BY <2>1, <2>2
    <3>2. last_event_id - offset < count + 1
      BY <2>1, <3>1
    <3> QED
      BY <2>1, <2>2, <3>2 DEF KnownTo
  <2>3. CASE last_event_id < firstKept - 1
    BY <2>1, <2>3
  <2> QED
    BY <2>2, <2>3
<1>4. CASE HandleEvent
  <2>1. PICK p \in Int, q \in Int :
            /\ p = wire[1].place /\ q = wire[1].id /\ Head(wire) = wire[1]
            /\ p \in 1..count /\ KnownTo(p - 1) /\ wire[1].kind = "event"
            /\ 1 \in 1..Len(wire)
    BY <1>4, HeadKnown, MessageFacts
  <2>3. /\ seen' = seen \cup {p} /\ last_event_id' = q
        /\ outputs' = outputs /\ count' = count /\ up' = up /\ firstKept' = firstKept
        /\ offset' = offset
    BY <1>4, <2>1 DEF HandleEvent, Handled, backlog
  <2>4. KnownTo(p)'
    BY <2>1, <2>3 DEF KnownTo
  <2>5. up /\ q >= firstKept - 1 => p = q - offset
    BY <2>1 DEF WireOK
  <2> QED
    BY <2>3, <2>4, <2>5
<1>5. CASE ReseedDone
  BY <1>5 DEF ReseedDone, KnownTo, backlog
<1>6. CASE Crash
  BY <1>6 DEF Crash, Fail, NoWatch, feed, backlog
<1> QED
  BY <1>1, <1>2, <1>3, <1>4, <1>5, <1>6 DEF Next, WatchStep, FeedStep, vars,
     backlog, watch, feed, Drop, HandleReset, Handled, HealthFails, HealthOK,
     NoWatch, Open, Reconnect, StreamEnds, SwitchVerbose, WatchLatest,
     WatchReset, WatchSend, WatchSince, WatchStart, WatchWait

\* What is ahead stays ahead when the head of the wire is handled, when a
\* reseed ends, when messages are added and when events happen.
LEMMA AheadShift ==
    ASSUME BacklogTypeOK, WireTypeOK, WireOK, HandleReset \/ HandleEvent,
           NEW i \in Int, NEW k \in Int, Ahead(i, k)
    PROVE  Ahead(i, k - 1)'
<1>1. /\ wire # <<>> /\ wire' = Tail(wire) /\ fpc = "watching"
      /\ seen \subseteq seen' /\ count' = count
  BY DEF HandleReset, HandleEvent, Handled, backlog
<1>2. /\ Len(wire) \in Nat /\ Len(wire) >= 1 /\ Len(wire') = Len(wire) - 1
      /\ Head(wire) = wire[1] /\ wire[1] \in Message
      /\ \A m \in 1..(Len(wire) - 1) : wire'[m] = wire[m + 1]
  BY <1>1, PopFacts DEF WireTypeOK
<1>3. CASE i \in seen
  BY <1>1, <1>3 DEF Ahead
<1>4. ASSUME NEW m \in 1..Len(wire), m < k,
             \/ wire[m].kind = "event" /\ wire[m].place = i
             \/ wire[m].kind = "reset" /\ i <= wire[m].place
      PROVE  Ahead(i, k - 1)'
  <2>1. CASE m # 1
    <3>1. /\ m - 1 \in 1..Len(wire') /\ m - 1 < k - 1
          /\ wire'[m - 1] = wire[m]
      BY <1>2, <1>4, <2>1
    <3> QED
      BY <1>4, <3>1 DEF Ahead
  <2>2. CASE m = 1 /\ wire[m].kind = "event"
    <3>1. HandleEvent
      BY <1>2, <2>2 DEF HandleReset, HandleEvent
    <3>2. i \in seen'
      BY <1>2, <1>4, <2>2, <3>1 DEF HandleEvent
    <3> QED
      BY <3>2 DEF Ahead
  <2>3. CASE m = 1 /\ wire[m].kind = "reset"
    <3>1. HandleReset
      BY <1>2, <2>3 DEF HandleReset, HandleEvent
    <3>2. fpc' = "reseed" /\ mark' = count
      BY <3>1 DEF HandleReset
    <3>3. i <= mark'
      BY <1>2, <1>4, <2>3, <3>2, MessageFacts DEF WireOK, BacklogTypeOK
    <3> QED
      BY <3>2, <3>3 DEF Ahead
  <2> QED
    BY <1>2, <1>4, <2>1, <2>2, <2>3, MessageFacts
<1> QED
  BY <1>1, <1>3, <1>4 DEF Ahead

\* What is ahead stays ahead in a step that keeps the messages before k,
\* what is known and a reseed that has begun, or completes it.
LEMMA AheadStays ==
    ASSUME BacklogTypeOK, FeedTypeOK, count' \in Nat,
           NEW n \in Int, NEW k \in Int, NEW l \in Int, l >= k,
           AheadTo(n, k), n <= count, count' >= count,
           outputs \subseteq outputs', seen \subseteq seen',
           \/ fpc # "reseed"
           \/ fpc' = "reseed" /\ mark' = mark
           \/ 1..mark \subseteq seen',
           \A m \in 1..Len(wire) :
               m < k => m \in 1..Len(wire') /\ wire'[m] = wire[m]
    PROVE  AheadTo(n, l)'
<1> SUFFICES ASSUME NEW i \in 1..count', i <= n, i \notin outputs'
             PROVE  Ahead(i, l)'
  BY DEF AheadTo
<1>1. Ahead(i, k)
  BY DEF AheadTo, BacklogTypeOK
<1>2. CASE i \in seen
  BY <1>2 DEF Ahead
<1>3. CASE fpc = "reseed" /\ i <= mark
  BY <1>3 DEF Ahead, FeedTypeOK
<1>4. ASSUME NEW m \in 1..Len(wire), m < k,
             \/ wire[m].kind = "event" /\ wire[m].place = i
             \/ wire[m].kind = "reset" /\ i <= wire[m].place
      PROVE  Ahead(i, l)'
  BY <1>4 DEF Ahead
<1> QED
  BY <1>1, <1>2, <1>3, <1>4 DEF Ahead

\* The same over a step that handles the head of the wire.
LEMMA AheadToShift ==
    ASSUME BacklogTypeOK, WireTypeOK, WireOK, HandleReset \/ HandleEvent,
           NEW n \in Int, NEW k \in Int, AheadTo(n, k)
    PROVE  AheadTo(n, k - 1)'
<1>1. count' = count /\ outputs' = outputs
  BY DEF HandleReset, HandleEvent, Handled, backlog
<1>2. \A i \in 1..count : Ahead(i, k) => Ahead(i, k - 1)'
  BY AheadShift
<1> QED
  BY <1>1, <1>2 DEF AheadTo

\* What is known is ahead, whatever is on the wire.
LEMMA KnownIsAhead ==
    ASSUME NEW n \in Int, NEW k \in Int, KnownTo(n)
    PROVE  AheadTo(n, k)
BY DEF KnownTo, AheadTo, Ahead

\* What the call has behind it stays known or ahead while it stands still.
LEMMA WatchAheadKeeps ==
    ASSUME BacklogTypeOK, WatchTypeOK, FeedTypeOK, WireTypeOK, NumbersOK,
           WatchOK, wpc # "none", wpc # "start",
           AheadTo(last_id - offset, Len(wire) + 1),
           last_id' = last_id, offset' = offset,
           count' \in Nat, count' >= count, outputs \subseteq outputs',
           seen \subseteq seen', wire' = wire,
           \/ fpc # "reseed"
           \/ fpc' = "reseed" /\ mark' = mark
           \/ 1..mark \subseteq seen'
    PROVE  WatchAhead'
<1>1. PICK n \in Int, k \in Int : n = last_id - offset /\ k = Len(wire) + 1
  BY DEF BacklogTypeOK, WatchTypeOK, WireTypeOK
<1>2. n <= count
  BY <1>1 DEF WatchOK, NumbersOK, BacklogTypeOK, WatchTypeOK
<1>3. \A m \in 1..Len(wire) : m \in 1..Len(wire') /\ wire'[m] = wire[m]
  OBVIOUS
<1>4. AheadTo(n, k)
  BY <1>1
<1>5. AheadTo(n, k)'
  BY <1>2, <1>3, <1>4, AheadStays
<1> QED
  BY <1>1, <1>5 DEF WatchAhead, End

\* Everything up to the call's last_id is known or ahead.
LEMMA WatchAheadStep ==
    ASSUME BacklogTypeOK, WatchTypeOK, FeedTypeOK, WireTypeOK, KnownTypeOK,
           NumbersOK, WireOK, ClientOK, ClientKnows, WatchOK, WatchAhead,
           [Next]_vars
    PROVE  WatchAhead'
<1> USE DEF WatchPCs
<1> DEFINE Behind == AheadTo(last_id - offset, Len(wire) + 1)
<1>a. /\ wpc = "since" /\ last_id >= firstKept - 1 => Behind
      /\ wpc \in {"send", "wait"} => Behind
  BY DEF WatchAhead, End
<1>b. ASSUME wpc' \notin {"since", "send", "wait"}
      PROVE  WatchAhead'
  BY <1>b DEF WatchAhead
<1>1. CASE UNCHANGED <<wpc, last_id, firstKept, offset, count, outputs, seen, fpc,
                       mark, wire>>
  BY <1>1, <1>a, <1>b, WatchAheadKeeps DEF WatchAhead, WatchTypeOK,
     BacklogTypeOK
<1>2. CASE StartServer
  BY <1>2, <1>b DEF StartServer, watch, WatchOK
<1>3. CASE AppendEvent
  <2>1. /\ seen' = seen /\ fpc' = fpc /\ mark' = mark /\ wire' = wire
        /\ count' = count + 1 /\ outputs \subseteq outputs' /\ offset' = offset
        /\ wpc' = wpc /\ last_id' = last_id
        /\ (firstKept' = firstKept \/ firstKept' = firstKept + 1)
    BY <1>3 DEF AppendEvent, watch, feed
  <2>2. count' \in Nat /\ count' >= count
    BY <2>1 DEF BacklogTypeOK
  <2>3. wpc = "since" /\ last_id' >= firstKept' - 1 => last_id >= firstKept - 1
    BY <2>1 DEF BacklogTypeOK, WatchTypeOK
  <2>4. CASE Behind /\ wpc # "none" /\ wpc # "start"
    BY <2>1, <2>2, <2>4, WatchAheadKeeps
  <2>5. CASE ~Behind
    BY <1>a, <2>1, <2>3, <2>5 DEF WatchAhead
  <2> QED
    BY <1>b, <2>1, <2>4, <2>5
<1>4. CASE WatchStart
  <2>1. /\ wpc = "start" /\ offset' = offset /\ firstKept' = firstKept /\ count' = count
        /\ outputs' = outputs /\ seen' = seen /\ wpc' = "since"
        /\ last_id' = IF last_id = 0 THEN nextId - 1
                      ELSE IF last_id < nextId - 1 THEN last_id ELSE nextId - 1
    BY <1>4 DEF WatchStart, latest_id, EarlierId, backlog
  <2>2. /\ up /\ firstKept >= 3 /\ last_event_id >= 1
        /\ (last_event_id = 1 \/ last_event_id < nextId)
        /\ (last_id = 1 \/ last_id = last_event_id)
    BY <2>1 DEF WatchOK, NumbersOK, ClientOK
  <2>3. last_id' = last_id
    BY <2>1, <2>2 DEF BacklogTypeOK, WatchTypeOK, FeedTypeOK
  <2>4. CASE last_id >= firstKept - 1
    <3>1. last_id = last_event_id
      BY <2>2, <2>4 DEF BacklogTypeOK
    <3>2. PICK n \in Int,
        k \in Int : n = last_id - offset /\ k = Len(wire') + 1
      BY <1>4 DEF BacklogTypeOK, WatchTypeOK, WireTypeOK, WatchStart
    <3>3. KnownTo(n)
      BY <2>2, <2>4, <3>1, <3>2 DEF ClientKnows
    <3>4. AheadTo(n, k)'
      BY <2>1, <3>3 DEF KnownTo, AheadTo, Ahead
    <3> QED
      BY <2>1, <2>3, <3>2, <3>4 DEF WatchAhead, End
  <2>5. CASE last_id < firstKept - 1
    BY <2>1, <2>3, <2>5 DEF WatchAhead, BacklogTypeOK, WatchTypeOK
  <2> QED
    BY <2>4, <2>5 DEF BacklogTypeOK, WatchTypeOK
<1>5. CASE WatchSince
  <2>1. /\ seen' = seen /\ fpc' = fpc /\ mark' = mark /\ wire' = wire
        /\ count' = count /\ outputs' = outputs /\ offset' = offset
        /\ last_id' = last_id /\ wpc = "since"
        /\ (wpc' = "latest" \/ ~(last_id < firstKept - 1))
    BY <1>5 DEF WatchSince, Unexplained, backlog, feed
  <2>2. CASE wpc' = "latest"
    BY <1>b, <2>2
  <2>3. CASE ~(last_id < firstKept - 1)
    <3>1. last_id >= firstKept - 1
      BY <2>3 DEF BacklogTypeOK, WatchTypeOK
    <3> QED
      BY <1>a, <2>1, <3>1, WatchAheadKeeps DEF BacklogTypeOK
  <2> QED
    BY <2>1, <2>2, <2>3
<1>6. CASE WatchLatest
  BY <1>6, <1>b DEF WatchLatest
<1>7. CASE WatchReset
  <2>1. PICK n \in Int : n = last_id - offset
    BY DEF BacklogTypeOK, WatchTypeOK
  <2> DEFINE m == [kind |-> "reset", id |-> 0, place |-> n]
  <2>0. 0 \in Int
    OBVIOUS
  <2>2. m \in Message
    BY <2>0, NewMessage
  <2>3. /\ wire' = Append(wire, m) /\ last_id' = last_id /\ offset' = offset
        /\ wpc' = "since"
    BY <1>7, <2>1 DEF WatchReset, Place, backlog
  <2>4. PICK e \in Nat : /\ e = Len(wire') /\ e >= 1 /\ e \in 1..Len(wire')
                         /\ wire'[e] = m
    BY <2>2, <2>3, PushFacts DEF WireTypeOK
  <2>5. AheadTo(n, e + 1)'
    BY <2>4 DEF AheadTo, Ahead
  <2> QED
    BY <2>1, <2>3, <2>4, <2>5 DEF WatchAhead, End
<1>8. CASE WatchSend
  <2>1. PICK n \in Int : n = from - offset
    BY DEF BacklogTypeOK, WatchTypeOK
  <2> DEFINE m == [kind |-> "event", id |-> from, place |-> n]
  <2>2. m \in Message
    BY NewMessage DEF WatchTypeOK
  <2>3. /\ last_id' = from /\ offset' = offset /\ wpc = "send"
        /\ from = last_id + 1 /\ from <= upto /\ upto < nextId
        /\ seen' = seen /\ outputs' = outputs /\ count' = count
        /\ fpc' = fpc /\ mark' = mark /\ wpc' = "send"
        /\ \/ wire' = Append(wire, m)
           \/ wire' = wire /\ n \in outputs
    BY <1>8, <2>1 DEF WatchSend, Wanted, Place, WatchOK, backlog, feed
  <2>4. /\ Len(wire) \in Nat /\ Len(wire') \in Nat /\ Len(wire') >= Len(wire)
        /\ \A j \in 1..Len(wire) : j \in 1..Len(wire') /\ wire'[j] = wire[j]
        /\ \/ n \in outputs
           \/ Len(wire') >= 1 /\ wire'[Len(wire')] = m
    BY <2>2, <2>3, PushFacts DEF WireTypeOK
  <2>5. PICK k \in Int, l \in Int : k = Len(wire) + 1 /\ l = Len(wire') + 1
    BY <2>4
  <2>6. AheadTo(n - 1, k)
    BY <1>a, <2>1, <2>3, <2>5 DEF BacklogTypeOK, WatchTypeOK
  <2>7. n - 1 <= count
    BY <2>1, <2>3 DEF WatchOK, NumbersOK, BacklogTypeOK, WatchTypeOK
  <2>8. AheadTo(n - 1, l)'
    BY <2>3, <2>4, <2>5, <2>6, <2>7, AheadStays DEF BacklogTypeOK
  <2>9. n \in outputs' \/ Ahead(n, l)'
    BY <2>3, <2>4, <2>5 DEF Ahead
  <2>10. AheadTo(n, l)'
    BY <2>3, <2>8, <2>9 DEF AheadTo
  <2> QED
    BY <2>1, <2>3, <2>5, <2>10 DEF WatchAhead, End
<1>9. CASE WatchWait
  <2>1. /\ seen' = seen /\ fpc' = fpc /\ mark' = mark /\ wire' = wire
        /\ count' = count /\ outputs' = outputs /\ offset' = offset
        /\ last_id' = last_id /\ wpc \in {"send", "wait"}
    BY <1>9 DEF WatchWait, backlog, feed
  <2> QED
    BY <1>a, <2>1, WatchAheadKeeps DEF BacklogTypeOK
<1>10. CASE HealthOK \/ HealthFails \/ StreamEnds
  <2>1. wpc' = wpc /\ last_id' = last_id /\ offset' = offset /\ firstKept' = firstKept
    BY <1>10 DEF HealthOK, HealthFails, StreamEnds, Reconnect, watch, backlog
  <2>2. wpc = "none"
    BY <1>10 DEF HealthOK, HealthFails, StreamEnds, ClientOK, WatchOK
  <2> QED
    BY <1>b, <2>1, <2>2
<1>11. CASE Open
  BY <1>11, <1>b DEF Open
<1>12. CASE HandleReset \/ HandleEvent
  <2>1. /\ wire # <<>> /\ wire' = Tail(wire) /\ wpc' = wpc /\ last_id' = last_id
        /\ offset' = offset /\ firstKept' = firstKept
    BY <1>12 DEF HandleReset, HandleEvent, Handled, watch, backlog
  <2>2. Len(wire) \in Nat /\ Len(wire') = Len(wire) - 1
    BY <2>1, PopFacts DEF WireTypeOK
  <2>3. PICK n \in Int, k \in Int : n = last_id - offset /\ k = Len(wire) + 1
    BY <2>2 DEF BacklogTypeOK, WatchTypeOK
  <2>4. CASE Behind
    <3>1. AheadTo(n, k - 1)'
      BY <1>12, <2>3, <2>4, AheadToShift
    <3> QED
      BY <2>1, <2>2, <2>3, <3>1 DEF WatchAhead, End
  <2>5. CASE ~Behind
    BY <1>a, <2>1, <2>5 DEF WatchAhead
  <2> QED
    BY <2>4, <2>5
<1>14. CASE ReseedDone
  <2>1. /\ seen \subseteq seen' /\ 1..mark \subseteq seen' /\ wire' = wire
        /\ count' = count /\ outputs' = outputs /\ offset' = offset
        /\ last_id' = last_id /\ wpc' = wpc /\ firstKept' = firstKept
    BY <1>14 DEF ReseedDone, backlog, watch
  <2>2. CASE Behind /\ wpc # "none" /\ wpc # "start"
    BY <2>1, <2>2, WatchAheadKeeps DEF BacklogTypeOK
  <2>3. CASE ~Behind
    BY <1>a, <2>1, <2>3 DEF WatchAhead
  <2> QED
    BY <1>b, <2>1, <2>2, <2>3
<1>15. CASE Drop \/ Crash
  BY <1>15, <1>b DEF Drop, Crash, NoWatch
<1>16. CASE SwitchVerbose
  <2>1. CASE wpc' = "none"
    BY <1>b, <2>1
  <2>2. CASE UNCHANGED <<fpc, watch, wire>>
    BY <1>1, <1>16, <2>2 DEF SwitchVerbose, watch, backlog
  <2> QED
    BY <1>16, <2>1, <2>2 DEF SwitchVerbose, NoWatch
<1> QED
  BY <1>1, <1>2, <1>3, <1>4, <1>5, <1>6, <1>7, <1>8, <1>9, <1>10, <1>11,
     <1>12, <1>14, <1>15, <1>16
     DEF Next, WatchStep, FeedStep, vars, backlog, watch, feed

\* Everything before a message on the wire is known or ahead of it, over a
\* step that keeps the wire or cuts its end.
LEMMA WireAheadKeeps ==
    ASSUME BacklogTypeOK, FeedTypeOK, WireTypeOK, WireOK, WireAhead,
           count' \in Nat, count' >= count,
           outputs \subseteq outputs', seen \subseteq seen',
           \/ fpc # "reseed"
           \/ fpc' = "reseed" /\ mark' = mark
           \/ 1..mark \subseteq seen',
           NEW e \in Nat, e <= Len(wire), e <= Len(wire'), Len(wire') \in Nat,
           \A m \in 1..e : wire'[m] = wire[m]
    PROVE  \A k \in 1..e : Follows(k)'
<1> SUFFICES ASSUME NEW k \in 1..e, wire[k].kind = "event"
             PROVE  Follows(k)'
  BY DEF Follows
<1>1. k \in 1..Len(wire) /\ Len(wire) \in Nat /\ wire[k] \in Message
  BY DEF WireTypeOK
<1>2. PICK n \in Int : n = wire[k].place - 1
  BY <1>1, MessageFacts
<1>3. AheadTo(n, k) /\ n <= count
  BY <1>1, <1>2, MessageFacts DEF WireAhead, Follows, WireOK, BacklogTypeOK
<1>4. \A m \in 1..Len(wire) : m < k => m \in 1..Len(wire') /\ wire'[m] = wire[m]
  BY <1>1
<1>5. AheadTo(n, k)'
  BY <1>3, <1>4, AheadStays
<1> QED
  BY <1>2, <1>5 DEF Follows

LEMMA WireAheadStep ==
    ASSUME BacklogTypeOK, WatchTypeOK, FeedTypeOK, WireTypeOK, KnownTypeOK,
           NumbersOK, WireOK, WireAhead, ClientOK, WatchOK, WatchAhead,
           [Next]_vars
    PROVE  WireAhead'
<1>0. Len(wire) \in Nat
  BY DEF WireTypeOK
<1>a. ASSUME wire' = wire, count' \in Nat, count' >= count,
             outputs \subseteq outputs', seen \subseteq seen',
             \/ fpc # "reseed"
             \/ fpc' = "reseed" /\ mark' = mark
             \/ 1..mark \subseteq seen'
      PROVE  WireAhead'
  <2>1. \A k \in 1..Len(wire) : Follows(k)'
    BY <1>0, <1>a, WireAheadKeeps
  <2> QED
    BY <1>a, <2>1 DEF WireAhead
<1>b. ASSUME wire' = <<>>
      PROVE  WireAhead'
  BY <1>b, EmptyFacts DEF WireAhead
<1>1. CASE UNCHANGED <<wire, count, outputs, seen, fpc, mark>>
  BY <1>1, <1>a DEF BacklogTypeOK
<1>2. CASE AppendEvent
  <2>1. /\ seen' = seen /\ fpc' = fpc /\ mark' = mark /\ wire' = wire
        /\ count' = count + 1 /\ outputs \subseteq outputs'
    BY <1>2 DEF AppendEvent, feed
  <2> QED
    BY <1>a, <2>1 DEF BacklogTypeOK
<1>3. CASE WatchReset
  <2> DEFINE m == [kind |-> "reset", id |-> 0, place |-> last_id - offset]
  <2>1. 0 \in Int /\ last_id - offset \in Int
    BY DEF BacklogTypeOK, WatchTypeOK
  <2>2. m \in Message
    BY <2>1, NewMessage
  <2>3. /\ wire' = Append(wire, m) /\ seen' = seen /\ outputs' = outputs
        /\ count' = count /\ fpc' = fpc /\ mark' = mark
    BY <1>3 DEF WatchReset, Place, backlog, feed
  <2>4. /\ Len(wire') = Len(wire) + 1 /\ wire'[Len(wire) + 1] = m
        /\ \A k \in 1..Len(wire) : wire'[k] = wire[k]
    BY <2>2, <2>3, PushFacts DEF WireTypeOK
  <2>5. \A k \in 1..Len(wire) : Follows(k)'
    BY <1>0, <2>3, <2>4, WireAheadKeeps DEF BacklogTypeOK
  <2>6. PICK e \in Int : e = Len(wire) + 1
    BY <1>0
  <2>7. Follows(e)'
    BY <2>4, <2>6 DEF Follows
  <2>8. \A k \in 1..e : k \in 1..Len(wire) \/ k = e
    BY <1>0, <2>6
  <2> QED
    BY <2>4, <2>5, <2>6, <2>7, <2>8 DEF WireAhead
<1>4. CASE WatchSend
  <2>1. PICK n \in Int : n = from - offset
    BY DEF BacklogTypeOK, WatchTypeOK
  <2> DEFINE m == [kind |-> "event", id |-> from, place |-> n]
  <2>2. m \in Message
    BY NewMessage DEF WatchTypeOK
  <2>3. /\ wire' = Append(wire, m) \/ wire' = wire
        /\ seen' = seen /\ outputs' = outputs /\ count' = count
        /\ fpc' = fpc /\ mark' = mark /\ wpc = "send" /\ from = last_id + 1
        /\ from <= upto /\ upto < nextId /\ up
    BY <1>4, <2>1 DEF WatchSend, Place, WatchOK, backlog, feed
  <2>4. CASE wire' = wire
    BY <1>a, <2>3, <2>4 DEF BacklogTypeOK
  <2>5. CASE wire' = Append(wire, m)
    <3>1. /\ Len(wire') = Len(wire) + 1 /\ wire'[Len(wire) + 1] = m
          /\ \A k \in 1..Len(wire) : wire'[k] = wire[k]
      BY <2>2, <2>5, PushFacts DEF WireTypeOK
    <3>2. \A k \in 1..Len(wire) : Follows(k)'
      BY <1>0, <2>3, <3>1, WireAheadKeeps DEF BacklogTypeOK
    <3>3. PICK e \in Int : e = Len(wire) + 1
      BY <1>0
    <3>4. AheadTo(n - 1, e)
      BY <2>1, <2>3, <3>3 DEF WatchAhead, End, BacklogTypeOK, WatchTypeOK
    <3>5. n - 1 <= count
      BY <2>1, <2>3 DEF NumbersOK, BacklogTypeOK, WatchTypeOK
    <3>6. \A k \in 1..Len(wire) : k \in 1..Len(wire') /\ wire'[k] = wire[k]
      BY <1>0, <3>1
    <3>7. AheadTo(n - 1, e)'
      BY <2>3, <3>3, <3>4, <3>5, <3>6, AheadStays DEF BacklogTypeOK
    <3>8. Follows(e)'
      BY <3>1, <3>3, <3>7 DEF Follows
    <3>9. \A k \in 1..e : k \in 1..Len(wire) \/ k = e
      BY <1>0, <3>3
    <3> QED
      BY <3>1, <3>2, <3>3, <3>8, <3>9 DEF WireAhead
  <2> QED
    BY <2>3, <2>4, <2>5
<1>5. CASE HealthOK
  BY <1>5, <1>a DEF HealthOK, backlog, BacklogTypeOK
<1>6. CASE Open
  BY <1>6, <1>a DEF Open, backlog, BacklogTypeOK
<1>7. CASE HandleReset \/ HandleEvent
  <2>1. wire # <<>> /\ wire' = Tail(wire)
    BY <1>7 DEF HandleReset, HandleEvent, Handled
  <2>2. /\ Len(wire) >= 1 /\ Len(wire') = Len(wire) - 1
        /\ \A k \in 1..(Len(wire) - 1) : wire'[k] = wire[k + 1]
    BY <2>1, PopFacts DEF WireTypeOK
  <2>3. SUFFICES ASSUME NEW k \in 1..(Len(wire) - 1),
         wire[k + 1].kind = "event"
                 PROVE  Follows(k)'
    BY <2>2 DEF WireAhead, Follows
  <2>4. k \in Int /\ k + 1 \in 1..Len(wire) /\ k + 1 \in Int
    BY <1>0, <2>3
  <2>5. PICK n \in Int : n = wire[k + 1].place - 1
    BY <2>4, MessageFacts DEF WireTypeOK
  <2>6. AheadTo(n, k + 1)
    BY <2>3, <2>4, <2>5 DEF WireAhead, Follows
  <2>7. AheadTo(n, (k + 1) - 1)'
    BY <1>7, <2>4, <2>6, AheadToShift
  <2>8. AheadTo(n, k)'
    BY <2>4, <2>7
  <2> QED
    BY <2>2, <2>5, <2>8 DEF Follows
<1>8. CASE ReseedDone
  <2>1. /\ seen \subseteq seen' /\ 1..mark \subseteq seen' /\ wire' = wire
        /\ count' = count /\ outputs' = outputs
    BY <1>8 DEF ReseedDone, backlog
  <2> QED
    BY <1>a, <2>1 DEF BacklogTypeOK
<1>9. CASE StreamEnds \/ Drop
  BY <1>9, <1>b DEF StreamEnds, Drop, Reconnect
<1>10. CASE SwitchVerbose
  <2>1. CASE wire' = <<>>
    BY <1>b, <2>1
  <2>2. CASE UNCHANGED <<fpc, watch, wire>>
    BY <1>1, <1>10, <2>2 DEF SwitchVerbose, backlog
  <2> QED
    BY <1>10, <2>1, <2>2 DEF SwitchVerbose
<1>11. CASE Crash
  <2>1. /\ seen' = seen /\ outputs' = outputs /\ count' = count
        /\ fpc' = fpc /\ mark' = mark
    BY <1>11 DEF Crash, feed
  <2>2. PICK e \in 0..Len(wire) : wire' = SubSeq(wire, 1, e)
    BY <1>11 DEF Crash
  <2>3. e \in Nat /\ Len(wire') = e /\ \A k \in 1..e : wire'[k] = wire[k]
    BY <1>0, <2>2, CutFacts DEF WireTypeOK
  <2>4. \A k \in 1..e : Follows(k)'
    BY <1>0, <2>1, <2>2, <2>3, WireAheadKeeps DEF BacklogTypeOK
  <2> QED
    BY <2>3, <2>4 DEF WireAhead
<1> QED
  BY <1>1, <1>2, <1>3, <1>4, <1>5, <1>6, <1>7, <1>8, <1>9, <1>10, <1>11
     DEF Next, WatchStep, FeedStep, vars, backlog, watch, feed, StartServer,
         WatchStart, WatchSince, WatchLatest, WatchWait, HealthFails

----------------------------------------------------------------------------
(* The theorems. *)

LEMMA InvInit == Init => StreamInv
<1> SUFFICES ASSUME Init PROVE StreamInv
  OBVIOUS
<1> USE StreamConstants DEF Init
<1>1. wire = <<>> /\ Len(wire) = 0 /\ wire \in Seq(Message)
  BY EmptyFacts
<1>2. BacklogTypeOK /\ KnownTypeOK
  BY DEF BacklogTypeOK, KnownTypeOK
<1>3. WatchTypeOK /\ FeedTypeOK
  BY DEF WatchTypeOK, FeedTypeOK, WatchPCs, FeedPCs, FORCE_RESET_ID
<1>4. FlagTypeOK
  BY DEF FlagTypeOK
<1>5. WireTypeOK /\ WireOK /\ WireAhead
  BY <1>1 DEF WireTypeOK, WireOK, WireAhead
<1>6. NumbersOK /\ ClientOK /\ ClientKnows /\ WatchOK
  BY DEF NumbersOK, ClientOK, ClientKnows, WatchOK, FORCE_RESET_ID
<1>7. WatchAhead /\ OrderOK /\ Closed
  BY <1>1 DEF WatchAhead, OrderOK, Closed
<1> QED
  BY <1>2, <1>3, <1>4, <1>5, <1>6, <1>7 DEF StreamInv, StreamTypeOK

LEMMA InvStep ==
    ASSUME ~ClockBack, StreamInv, [Next]_vars
    PROVE  StreamInv'
<1> USE DEF StreamInv, StreamTypeOK
<1>1. BacklogTypeOK' /\ WatchTypeOK' /\ FeedTypeOK'
  BY BacklogTypeStep, WatchTypeStep, FeedTypeStep
<1>2. WireTypeOK' /\ KnownTypeOK' /\ FlagTypeOK'
  BY WireTypeStep, KnownTypeStep, FlagTypeStep
<1>3. NumbersOK' /\ WatchOK' /\ ClientOK' /\ WireOK' /\ OrderOK'
  BY NumbersStep, WatchOKStep, ClientStep, WireStep, OrderStep
<1>4. Closed' /\ ClientKnows' /\ WatchAhead' /\ WireAhead'
  BY KnownStep, ClientKnowsStep, WatchAheadStep, WireAheadStep
<1> QED
  BY <1>1, <1>2, <1>3, <1>4

LEMMA InvAlways == ~ClockBack /\ Spec => []StreamInv
<1>1. ~ClockBack /\ StreamInv /\ [Next]_vars => StreamInv'
  BY InvStep
<1>2. CASE ~ClockBack
  BY <1>1, <1>2, InvInit, PTL DEF Spec
<1>3. CASE ClockBack
  BY <1>3
<1> QED
  BY <1>2, <1>3

\* While the numbers of a run stay behind the clock of the next start, the
\* screen misses no event, for every capacity, buffer and number of failures:
\* the backlog, the order of the reads in WatchEvents and the Reset suffice.
THEOREM NothingMissedThm == ~ClockBack /\ Spec => []NothingMissed
<1>1. StreamInv => NothingMissed
  <2> SUFFICES ASSUME StreamInv, NEW j \in seen, NEW i \in (1..j) \ outputs
               PROVE  i \in seen
    BY DEF NothingMissed
  <2>1. j \in 1..count /\ count \in Nat
    BY DEF StreamInv, StreamTypeOK, KnownTypeOK, BacklogTypeOK
  <2>2. i \in 1..count /\ i <= j /\ i \notin outputs
    BY <2>1
  <2> QED
    BY <2>2 DEF StreamInv, Closed, KnownTo
<1> QED
  BY <1>1, InvAlways, PTL

\* No event is applied twice or out of order.
THEOREM IdsGoUpThm == ~ClockBack /\ Spec => IdsGoUp
<1>1. StreamInv /\ [Next]_vars => [HandleEvent => Head(wire).id > last_event_id]_vars
  <2> SUFFICES ASSUME StreamInv, HandleEvent
               PROVE  Head(wire).id > last_event_id
    OBVIOUS
  <2>1. /\ Head(wire) = wire[1] /\ 1 \in 1..Len(wire) /\ wire[1].kind = "event"
    BY HeadKnown DEF StreamInv, StreamTypeOK
  <2> QED
    BY <2>1 DEF StreamInv, OrderOK
<1> QED
  BY <1>1, InvAlways, PTL DEF Spec, IdsGoUp

\* The types; the backlog keeps no more than its capacity.
THEOREM StreamTypeThm == ~ClockBack /\ Spec => []StreamTypeOK
<1>1. StreamInv => StreamTypeOK
  BY DEF StreamInv
<1> QED
  BY <1>1, InvAlways, PTL
------------------------------------------------------------------------------
(* The Execution History list.                                                *)

Shows == {"running", "over", "interrupted"}
Pages == [at : {"none", "asked", "read"}, filter : {"all", "over"}, offset : Nat, limit : Nat,
          list : Seq(Executions \X Shows), complete : BOOLEAN]
Checks == [at : {"none", "asked", "read"}, newest : BOOLEAN, top : Nat, running : SUBSET Executions]
Updates == [at : {"none", "asked", "read"}, newest : BOOLEAN, ids : SUBSET Executions,
            status : [Executions -> Shows \cup {"-"}]]
Deletions == [at : {"none", "dialog", "over"}, todo : Seq(Executions), done : SUBSET Executions]
Panes == [busy : BOOLEAN, other : BOOLEAN, filter : {"all", "over"}, reading : BOOLEAN, allRead : BOOLEAN]

PaneTypeOK ==
  /\ history \in [Executions -> {"none", "running", "over", "gone"}]
  /\ holder \in {"free", "server", "other"} /\ told \in Seq({"started", "ended"})
  /\ pane \in Panes /\ rows \in [Executions -> Shows \cup {"-"}] /\ marks \in SUBSET Executions
  /\ page \in Pages /\ check \in Checks /\ update \in Updates /\ deletion \in Deletions
  /\ removed \in SUBSET Executions /\ moved \in SUBSET {"rows", "page"} /\ missed \in BOOLEAN

\* Executions begin in the order of their numbers, and only the newest runs.
Numbered ==
  /\ \A e \in Executions : history[e] # "none" => \A d \in Executions : d < e => history[d] # "none"
  /\ \A e \in Executions : history[e] = "running" => \A d \in Executions : d > e => history[d] = "none"

\* What was read of an execution that had ended stays true.
Known(e, status) == history[e] # "none" /\ (status \in {"over", "interrupted"} => history[e] # "running" \/ holder = "free")

\* Each answer tells of executions that began; the newest is the only read under way.
AnswersTrue ==
  /\ \A e \in ShownRows : Known(e, rows[e])
  /\ page.at = "read" => \A i \in DOMAIN page.list : Known(page.list[i][1], page.list[i][2])
  /\ check.at # "none" => \A e \in check.running : history[e] # "none"
  /\ update.at # "none" => \A e \in update.ids : history[e] # "none"
  /\ update.at = "read" => \A e \in Executions :
        /\ update.status[e] # "-" => Known(e, update.status[e])
        /\ update.status[e] = "-" => e \notin update.ids \/ history[e] = "gone"
  /\ pane.reading <=> page.at # "none"
  /\ page.at # "none" => page.filter = pane.filter /\ page.limit > 0
  /\ page.at # "none" /\ page.offset > 0 => page.offset = Cardinality(ShownRows)
  /\ (check.at # "none" /\ check.newest) \/ (update.at # "none" /\ update.newest) => page.at = "none"

\* What a deletion took away is gone, and no page read tells of it.
Removed ==
  /\ \A e \in removed \cup deletion.done : history[e] = "gone"
  /\ deletion.at = "dialog" => deletion.todo # <<>>
  /\ page.at = "read" => Numbers(page.list) \cap removed = {}
  /\ NoGhosts

\* A row said to run is asked about, and an answer makes no row run that did not.
Asked ==
  /\ check.at # "none" /\ check.newest => RunningRows \subseteq check.running
  /\ update.at = "read" /\ update.newest => \A e \in ShownRows : update.status[e] = "running" => rows[e] = "running"

\* Once the job is over and the pane has seen it, each row still said to run is about to be read.
Settled == holder = "free" /\ told = <<>> /\ ~pane.busy /\ ~pane.other /\ ~missed
Covered(e) ==
  \/ page.at # "none" /\ page.offset = 0
  \/ check.at # "none"
  \/ update.at # "none" /\ (update.newest => e \in update.ids /\ (update.at = "read" => update.status[e] # "running"))
Settling ==
  Settled =>
    /\ \A e \in RunningRows \cap Stored : Covered(e)
    /\ page.at = "read" => \A i \in DOMAIN page.list : page.list[i][2] = "running" => page.list[i][1] \notin Stored
    /\ update.at = "read" /\ update.newest => \A e \in ShownRows \cap Stored : update.status[e] = "running" => check.at # "none"

\* The executions of set are an unbroken piece of the filter's list, to its end when it is read in full.
Unbroken(set, complete) ==
  /\ set \subseteq Matching(pane.filter)
  /\ \A e \in Matching(pane.filter) \ set : (\A d \in set : d < e) \/ (~complete /\ \A d \in set : d > e)

Pieces ==
  /\ "rows" \notin moved => Unbroken(ShownRows, pane.allRead)
  /\ page.at = "read" /\ "page" \notin moved =>
       /\ page.offset = 0 => Unbroken(Numbers(page.list), page.complete)
       /\ page.offset > 0 /\ "rows" \notin moved => Unbroken(ShownRows \cup Numbers(page.list), page.complete)
  /\ page.at = "read" /\ page.offset > 0 /\ "page" \in moved => "rows" \in moved

PaneInv == PaneTypeOK /\ Numbered /\ AnswersTrue /\ Removed /\ Asked /\ Settling /\ Pieces

\* Of executions in a row, each has its place, counted from the newest.
LEMMA Ranked ==
  ASSUME NEW S \in SUBSET Nat, IsFiniteSet(S)
  PROVE  /\ Cardinality(S) \in Nat /\ NewestFirst(S) \in Seq(S) /\ Len(NewestFirst(S)) = Cardinality(S)
         /\ \A i \in 1 .. Cardinality(S) : NewestFirst(S)[i] \in S /\ Cardinality(NoOlder(S, NewestFirst(S)[i])) = i
         /\ \A e \in S : /\ Cardinality(NoOlder(S, e)) \in 1 .. Cardinality(S)
                         /\ NewestFirst(S)[Cardinality(NoOlder(S, e))] = e
         /\ \A d, e \in S : d < e => Cardinality(NoOlder(S, e)) < Cardinality(NoOlder(S, d))
<1> DEFINE f == [e \in S |-> Cardinality(NoOlder(S, e))]
           n == Cardinality(S)
<1>1. n \in Nat
  BY FS_CardinalityType
<1>2. ASSUME NEW e \in S
      PROVE  IsFiniteSet(NoOlder(S, e)) /\ f[e] \in 1 .. n
  <2>1. NoOlder(S, e) \in SUBSET S /\ e \in NoOlder(S, e)
    BY DEF NoOlder
  <2>2. IsFiniteSet(NoOlder(S, e)) /\ Cardinality(NoOlder(S, e)) <= n /\ Cardinality(NoOlder(S, e)) \in Nat
    BY <2>1, FS_Subset, FS_CardinalityType
  <2>3. Cardinality(NoOlder(S, e)) # 0
    BY <2>1, <2>2, FS_EmptySet
  <2> QED BY <1>1, <2>2, <2>3
<1>3. ASSUME NEW d \in S, NEW e \in S, d < e
      PROVE  f[e] < f[d]
  <2>1. NoOlder(S, e) \in SUBSET NoOlder(S, d) /\ d \in NoOlder(S, d) /\ d \notin NoOlder(S, e)
    <3>1. d \in Nat /\ e \in Nat /\ \A x \in S : x \in Nat /\ (x >= e => x >= d)
      BY <1>3
    <3>2. NoOlder(S, e) \in SUBSET NoOlder(S, d)
      BY <3>1 DEF NoOlder
    <3>3. d >= d /\ ~(d >= e)
      BY <1>3, <3>1
    <3> QED BY <3>2, <3>3 DEF NoOlder
  <2>2. Cardinality(NoOlder(S, e)) <= Cardinality(NoOlder(S, d)) /\ Cardinality(NoOlder(S, e)) # Cardinality(NoOlder(S, d))
    BY <1>2, <2>1, FS_Subset
  <2> QED BY <1>1, <1>2, <2>2
<1>4. f \in Injection(S, 1 .. n)
  <2>1. f \in [S -> 1 .. n]
    BY <1>2
  <2>2. ASSUME NEW d \in S, NEW e \in S, f[d] = f[e]
        PROVE  d = e
    BY <1>1, <1>2, <1>3, <2>2
  <2> HIDE DEF f, n
  <2> QED BY <2>1, <2>2 DEF Injection, IsInjective
<1>5. f \in Surjection(S, 1 .. n)
  <2>1. IsFiniteSet(1 .. n) /\ Cardinality(1 .. n) = n
    BY <1>1, FS_Interval
  <2> HIDE DEF f
  <2> QED BY <1>4, <2>1, FS_Injection
<1>6. \A i \in 1 .. n : \E e \in S : f[e] = i
  BY <1>5 DEF Surjection
<1>7. ASSUME NEW i \in 1 .. n
      PROVE  NewestFirst(S)[i] \in S /\ f[NewestFirst(S)[i]] = i
  <2>1. NewestFirst(S)[i] = CHOOSE e \in S : Cardinality(NoOlder(S, e)) = i
    BY DEF NewestFirst
  <2>2. \E e \in S : Cardinality(NoOlder(S, e)) = i
    BY <1>6
  <2> QED BY <2>1, <2>2
<1>8. ASSUME NEW e \in S
      PROVE  NewestFirst(S)[f[e]] = e
  <2>1. f[e] \in 1 .. n
    BY <1>2
  <2>2. NewestFirst(S)[f[e]] \in S /\ f[NewestFirst(S)[f[e]]] = f[e]
    BY <1>7, <2>1
  <2> HIDE DEF f
  <2> QED BY <1>4, <2>2 DEF Injection, IsInjective
<1>9. NewestFirst(S) \in Seq(S) /\ Len(NewestFirst(S)) = n
  <2>1. NewestFirst(S) \in [1 .. n -> S]
    BY <1>7 DEF NewestFirst
  <2> QED BY <1>1, <2>1
<1> QED
  BY <1>1, <1>2, <1>3, <1>7, <1>8, <1>9

\* Executions are finitely many.
LEMMA ExecutionSets ==
  /\ Executions \in SUBSET Nat /\ IsFiniteSet(Executions)
  /\ \A set \in SUBSET Executions : set \in SUBSET Nat /\ IsFiniteSet(set) /\ Cardinality(set) \in Nat
  /\ Stored \in SUBSET Executions /\ ShownRows \in SUBSET Executions /\ RunningRows \in SUBSET ShownRows
  /\ \A filter : Matching(filter) \in SUBSET Stored
<1>1. Executions \in SUBSET Nat /\ IsFiniteSet(Executions)
  BY PaneAssumption, FS_Interval DEF Executions
<1>2. ASSUME NEW set \in SUBSET Executions
      PROVE  set \in SUBSET Nat /\ IsFiniteSet(set) /\ Cardinality(set) \in Nat
  BY <1>1, FS_Subset, FS_CardinalityType
<1>3. /\ Stored \in SUBSET Executions /\ ShownRows \in SUBSET Executions /\ RunningRows \in SUBSET ShownRows
      /\ \A filter : Matching(filter) \in SUBSET Stored
  BY DEF Stored, ShownRows, RunningRows, Matching
<1> QED BY <1>1, <1>2, <1>3

\* A page: the rows from one place to another.
PageEnd(S, above, limit) == IF Len(NewestFirst(S)) < above + limit THEN Len(NewestFirst(S)) ELSE above + limit
PageRows(S, above, limit) == SubSeq(NewestFirst(S), above + 1, PageEnd(S, above, limit))

\* What a page holds: those of the rows that have these places.
LEMMA PageOfList ==
  ASSUME NEW S \in SUBSET Executions, NEW above \in Nat, NEW limit \in Nat
  PROVE  /\ PageRows(S, above, limit) \in Seq(S) /\ Len(NewestFirst(S)) = Cardinality(S)
         /\ Len(PageRows(S, above, limit)) = (IF above + 1 <= PageEnd(S, above, limit) THEN PageEnd(S, above, limit) - above ELSE 0)
         /\ \A i \in DOMAIN PageRows(S, above, limit) :
               PageRows(S, above, limit)[i] \in S /\ Cardinality(NoOlder(S, PageRows(S, above, limit)[i])) = above + i
         /\ \A e \in S : Cardinality(NoOlder(S, e)) \in (above + 1) .. PageEnd(S, above, limit) =>
               \E i \in DOMAIN PageRows(S, above, limit) : PageRows(S, above, limit)[i] = e
<1> DEFINE all == NewestFirst(S)
           last == IF Len(all) < above + limit THEN Len(all) ELSE above + limit
           list == SubSeq(all, above + 1, last)
<1>0. PageEnd(S, above, limit) = last /\ PageRows(S, above, limit) = list
  BY DEF PageEnd, PageRows
<1>1. /\ S \in SUBSET Nat /\ IsFiniteSet(S) /\ all \in Seq(S) /\ Len(all) = Cardinality(S) /\ Len(all) \in Nat
      /\ \A i \in 1 .. Len(all) : all[i] \in S /\ Cardinality(NoOlder(S, all[i])) = i
      /\ \A e \in S : Cardinality(NoOlder(S, e)) \in 1 .. Len(all) /\ all[Cardinality(NoOlder(S, e))] = e
  BY ExecutionSets, Ranked
<1> HIDE DEF all
<1>2. last \in Nat /\ last <= Len(all) /\ above + 1 \in Nat /\ above + 1 >= 1
  BY <1>1
<1> HIDE DEF last
<1>3. /\ list \in Seq(S) /\ Len(list) = (IF above + 1 <= last THEN last - above ELSE 0)
      /\ \A i \in 1 .. Len(list) : list[i] = all[above + i] /\ above + i \in 1 .. Len(all)
  <2>1. CASE above + 1 <= last
    <3>1. list = [i \in 1 .. (last - above) |-> all[above + i]]
      BY <1>1, <1>2, <2>1
    <3>2. \A i \in 1 .. (last - above) : above + i \in 1 .. Len(all) /\ all[above + i] \in S
      BY <1>1, <1>2
    <3>3. last - above \in Nat
      BY <1>2, <2>1
    <3> HIDE DEF list
    <3>4. list \in [1 .. (last - above) -> S]
      BY <1>1, <3>1, <3>2
    <3>5. list \in Seq(S) /\ Len(list) = last - above
      BY <3>3, <3>4
    <3> QED BY <2>1, <3>1, <3>2, <3>5
  <2>2. CASE ~(above + 1 <= last)
    <3>1. list = <<>>
      BY <1>1, <1>2, <2>2
    <3> HIDE DEF list
    <3>2. list \in Seq(S) /\ Len(list) = 0
      BY <3>1
    <3> QED BY <2>2, <3>2
  <2> QED BY <2>1, <2>2
<1> HIDE DEF list
<1>4. DOMAIN list = 1 .. Len(list)
  BY <1>3
<1>5. ASSUME NEW e \in S, Cardinality(NoOlder(S, e)) \in (above + 1) .. last
      PROVE  \E i \in DOMAIN list : list[i] = e
  <2>1. PICK i \in Nat : Cardinality(NoOlder(S, e)) = above + i /\ i > 0 /\ above + i <= last
    <3>1. PICK k \in Int : k = Cardinality(NoOlder(S, e))
      BY <1>5
    <3> QED BY <1>2, <1>5, <3>1
  <2>2. i \in DOMAIN list
    BY <1>2, <1>3, <1>4, <2>1
  <2> QED BY <1>1, <1>3, <1>4, <2>1, <2>2
<1> QED
  BY <1>0, <1>1, <1>3, <1>4, <1>5 DEF all

\* The store goes on: what began has begun, what is gone is gone, and what was known stays true.
HistoryGoes ==
  /\ history' \in [Executions -> {"none", "running", "over", "gone"}] /\ holder' \in {"free", "server", "other"} /\ Numbered'
  /\ \A e \in Executions : /\ history[e] # "none" => history'[e] # "none"
                           /\ history[e] = "gone" => history'[e] = "gone"
  /\ \A e \in Executions, status \in Shows \cup {"-"} : Known(e, status) => Known(e, status)'

\* Each list only grows, by executions newer than all in it.
ListsGrow ==
  \A filter : /\ Matching(filter) \subseteq Matching(filter)'
              /\ \A e \in Matching(filter)' \ Matching(filter), d \in Matching(filter) : d < e

\* Without a change of the store everything read of it is the same.
LEMMA StoreSame ==
  ASSUME UNCHANGED <<history, holder>>
  PROVE  /\ Stored' = Stored /\ \A filter : Matching(filter)' = Matching(filter)
         /\ \A e : Status(e)' = Status(e)
         /\ \A e, status : Known(e, status)' <=> Known(e, status)
BY DEF Stored, Matching, Status, Known

\* A step that leaves the store alone lets it go on.
LEMMA StoreKept ==
  ASSUME PaneInv, UNCHANGED <<history, holder>>
  PROVE  HistoryGoes /\ ListsGrow
<1>1. Numbered'
  BY DEF PaneInv, Numbered
<1> QED
  BY <1>1, StoreSame DEF PaneInv, PaneTypeOK, HistoryGoes, ListsGrow

\* A job starts: what a dead process left is over, and the new execution is newer than all.
LEMMA StartGoes ==
  ASSUME PaneInv, JobStarts
  PROVE  HistoryGoes /\ ListsGrow /\ holder' # "free" /\ told' \in Seq({"started", "ended"})
<1> PICK e \in Executions, who \in {"server", "other"} :
      /\ holder = "free" /\ history[e] = "none" /\ \A d \in Executions : d < e => history[d] # "none"
      /\ history' = [d \in Executions |-> IF d = e THEN "running" ELSE IF history[d] = "running" THEN "over" ELSE history[d]]
      /\ holder' = who /\ told' = IF who = "server" THEN Append(told, "started") ELSE told
  BY DEF JobStarts
<1>0. Executions \in SUBSET Nat /\ PaneTypeOK /\ Numbered
  BY ExecutionSets DEF PaneInv
<1>1. \A d \in Executions : d > e => history[d] = "none"
  BY <1>0 DEF Numbered
<1>2. history' \in [Executions -> {"none", "running", "over", "gone"}] /\ holder' # "free" /\ holder' \in {"free", "server", "other"}
  BY <1>0 DEF PaneTypeOK
<1>3. \A d \in Executions : history'[d] = IF d = e THEN "running" ELSE IF history[d] = "running" THEN "over" ELSE history[d]
  OBVIOUS
<1>4. Numbered'
  BY <1>0, <1>1, <1>3 DEF Numbered
<1>5. \A d \in Executions, status \in Shows \cup {"-"} : Known(d, status) => Known(d, status)'
  BY <1>3 DEF Known, Shows
<1>6. ASSUME NEW filter
      PROVE  /\ Matching(filter) \subseteq Matching(filter)'
             /\ \A x \in Matching(filter)' \ Matching(filter), d \in Matching(filter) : d < x
  <2>1. Matching(filter) \subseteq Matching(filter)'
    BY <1>3 DEF Matching, Stored
  <2>2. ASSUME NEW x \in Matching(filter)' \ Matching(filter), NEW d \in Matching(filter)
        PROVE  d < x
    <3>1. x \in Executions /\ d \in Executions /\ x # d /\ history[d] \in {"running", "over"} /\ (history[x] # "over" \/ x = e)
      BY <1>3, <2>1, <2>2 DEF Matching, Stored
    <3>2. x = e \/ history[x] = "running"
      BY <1>3, <2>2, <3>1 DEF Matching, Stored
    <3>3. \A y \in Executions : y > x => history[y] = "none"
      BY <1>0, <1>1, <3>1, <3>2 DEF Numbered
    <3> QED BY <1>0, <3>1, <3>3
  <2> QED BY <2>1, <2>2
<1>7. told' \in Seq({"started", "ended"})
  BY <1>0 DEF PaneTypeOK
<1> QED
  BY <1>2, <1>3, <1>4, <1>5, <1>6, <1>7 DEF HistoryGoes, ListsGrow

\* It ends: its execution is over, or reads as interrupted.
LEMMA EndGoes ==
  ASSUME PaneInv, JobEnds
  PROVE  HistoryGoes /\ ListsGrow /\ ~Settled' /\ told' \in Seq({"started", "ended"}) /\ missed' \in BOOLEAN
<1> PICK clean \in BOOLEAN :
      /\ holder # "free" /\ (clean \/ holder = "other") /\ holder' = "free"
      /\ history' = [e \in Executions |-> IF history[e] = "running" /\ clean THEN "over" ELSE history[e]]
      /\ told' = IF holder = "server" THEN Append(told, "ended") ELSE told
      /\ missed' = (missed \/ (holder = "other" /\ ~pane.other)) /\ pane' = pane
  BY DEF JobEnds
<1>0. Executions \in SUBSET Nat /\ PaneTypeOK /\ Numbered
  BY ExecutionSets DEF PaneInv
<1>2. history' \in [Executions -> {"none", "running", "over", "gone"}] /\ holder' \in {"free", "server", "other"}
  BY <1>0 DEF PaneTypeOK
<1>3. \A d \in Executions : history'[d] = IF history[d] = "running" /\ clean THEN "over" ELSE history[d]
  OBVIOUS
<1>4. Numbered'
  BY <1>0, <1>3 DEF Numbered
<1>5. \A d \in Executions, status \in Shows \cup {"-"} : Known(d, status) => Known(d, status)'
  BY <1>3 DEF Known, Shows
<1>6. ASSUME NEW filter
      PROVE  /\ Matching(filter) \subseteq Matching(filter)'
             /\ \A x \in Matching(filter)' \ Matching(filter), d \in Matching(filter) : d < x
  <2>1. Matching(filter) \subseteq Matching(filter)'
    BY <1>3 DEF Matching, Stored
  <2>2. ASSUME NEW x \in Matching(filter)' \ Matching(filter), NEW d \in Matching(filter)
        PROVE  d < x
    <3>1. x \in Executions /\ d \in Executions /\ x # d /\ history[d] \in {"running", "over"} /\ history[x] = "running"
      BY <1>3, <2>1, <2>2 DEF Matching, Stored
    <3>3. \A y \in Executions : y > x => history[y] = "none"
      BY <1>0, <3>1 DEF Numbered
    <3> QED BY <1>0, <3>1, <3>3
  <2> QED BY <2>1, <2>2
<1>7. ~Settled'
  <2>1. CASE holder = "server"
    <3>1. told' # <<>>
      BY <1>0, <2>1 DEF PaneTypeOK
    <3> QED BY <3>1 DEF Settled
  <2>2. CASE holder # "server"
    BY <1>0, <2>2 DEF Settled, PaneTypeOK
  <2> QED BY <2>1, <2>2
<1>8. told' \in Seq({"started", "ended"}) /\ missed' \in BOOLEAN
  BY <1>0 DEF PaneTypeOK
<1> QED
  BY <1>2, <1>3, <1>4, <1>5, <1>6, <1>7, <1>8 DEF HistoryGoes, ListsGrow

\* Executions that are over are deleted.
LEMMA DeleteGoes ==
  ASSUME PaneInv, NEW set \in SUBSET Executions, \A e \in set : history[e] = "over", holder' = holder,
         history' = [e \in Executions |-> IF e \in set THEN "gone" ELSE history[e]]
  PROVE  HistoryGoes /\ Stored' \subseteq Stored /\ \A e \in set : history'[e] = "gone"
<1>0. Executions \in SUBSET Nat /\ PaneTypeOK /\ Numbered
  BY ExecutionSets DEF PaneInv
<1>1. \A e \in Executions : history'[e] = IF e \in set THEN "gone" ELSE history[e]
  OBVIOUS
<1>2. history' \in [Executions -> {"none", "running", "over", "gone"}] /\ holder' \in {"free", "server", "other"}
  BY <1>0 DEF PaneTypeOK
<1>3. Numbered'
  BY <1>0, <1>1 DEF Numbered
<1>4. \A e \in Executions, status \in Shows \cup {"-"} : Known(e, status) => Known(e, status)'
  BY <1>1 DEF Known
<1>5. Stored' \subseteq Stored
  BY <1>1 DEF Stored
<1> QED
  BY <1>1, <1>2, <1>3, <1>4, <1>5 DEF HistoryGoes

\* What the pane knows outlives a step of the store alone: the lists grow, or the pane is told of what left them.
LEMMA HistoryPart ==
  ASSUME PaneInv, HistoryGoes, UNCHANGED <<pane, rows, page, check, update, removed>>,
         told' \in Seq({"started", "ended"}), missed' \in BOOLEAN,
         marks' \in SUBSET ShownRows,
         deletion' \in Deletions, \A e \in deletion'.done : history'[e] = "gone", deletion'.at = "dialog" => deletion'.todo # <<>>,
         moved' \in SUBSET {"rows", "page"},
         \/ ListsGrow /\ moved' = moved
         \/ Leaves,
         Settled' => Settled /\ Stored' \subseteq Stored
  PROVE  PaneInv'
<1>0. PaneTypeOK /\ ShownRows' = ShownRows /\ RunningRows' = RunningRows /\ ShownRows \in SUBSET Executions
  BY ExecutionSets DEF PaneInv, ShownRows, RunningRows
<1>1. PaneTypeOK'
  BY <1>0 DEF PaneTypeOK, HistoryGoes
<1>2. AnswersTrue'
  <2>1. \A e \in ShownRows : Known(e, rows[e])'
    BY <1>0 DEF PaneInv, AnswersTrue, HistoryGoes, PaneTypeOK
  <2>2. page.at = "read" => \A i \in DOMAIN page.list : Known(page.list[i][1], page.list[i][2])'
    <3>1. \A i \in DOMAIN page.list : page.list[i][1] \in Executions /\ page.list[i][2] \in Shows
      BY <1>0 DEF PaneTypeOK, Pages
    <3> QED BY <3>1 DEF PaneInv, AnswersTrue, HistoryGoes
  <2>3. check.at # "none" => \A e \in check.running : history'[e] # "none"
    BY <1>0 DEF PaneInv, AnswersTrue, HistoryGoes, PaneTypeOK, Checks
  <2>4. update.at # "none" => \A e \in update.ids : history'[e] # "none"
    BY <1>0 DEF PaneInv, AnswersTrue, HistoryGoes, PaneTypeOK, Updates
  <2>5. update.at = "read" => \A e \in Executions : update.status[e] # "-" => Known(e, update.status[e])'
    BY <1>0 DEF PaneInv, AnswersTrue, HistoryGoes, PaneTypeOK, Updates
  <2>6. update.at = "read" => \A e \in Executions : update.status[e] = "-" => e \notin update.ids \/ history'[e] = "gone"
    BY DEF PaneInv, AnswersTrue, HistoryGoes
  <2>7. /\ pane.reading <=> page.at # "none"
        /\ page.at # "none" => page.filter = pane.filter /\ page.limit > 0
        /\ page.at # "none" /\ page.offset > 0 => page.offset = Cardinality(ShownRows)
        /\ (check.at # "none" /\ check.newest) \/ (update.at # "none" /\ update.newest) => page.at = "none"
    BY DEF PaneInv, AnswersTrue
  <2> QED
    BY <1>0, <2>1, <2>2, <2>3, <2>4, <2>5, <2>6, <2>7 DEF AnswersTrue
<1>3. Removed'
  BY <1>0 DEF PaneInv, Removed, NoGhosts, HistoryGoes, PaneTypeOK, Numbers
<1>4. Asked'
  BY <1>0 DEF PaneInv, Asked
<1>5. Settling'
  <2>1. \A e : Covered(e)' <=> Covered(e)
    BY DEF Covered
  <2> QED
    BY <1>0, <2>1 DEF PaneInv, Settling
<1>6. Pieces'
  <2>1. CASE ListsGrow /\ moved' = moved
    <3>1. ASSUME NEW set, NEW complete, Unbroken(set, complete)
          PROVE  /\ set \subseteq Matching(pane.filter)'
                 /\ \A e \in Matching(pane.filter)' \ set : (\A d \in set : d < e) \/ (~complete /\ \A d \in set : d > e)
      BY <2>1, <3>1 DEF ListsGrow, Unbroken
    <3>2. Numbers(page.list)' = Numbers(page.list)
      BY DEF Numbers
    <3>3. "rows" \notin moved => Unbroken(ShownRows, pane.allRead)'
      BY <1>0, <3>1 DEF PaneInv, Pieces, Unbroken
    <3>4. page.at = "read" /\ "page" \notin moved /\ page.offset = 0 => Unbroken(Numbers(page.list), page.complete)'
      BY <1>0, <3>1, <3>2 DEF PaneInv, Pieces, Unbroken
    <3>5. page.at = "read" /\ "page" \notin moved /\ page.offset > 0 /\ "rows" \notin moved => Unbroken(ShownRows \cup Numbers(page.list), page.complete)'
      BY <1>0, <3>1, <3>2 DEF PaneInv, Pieces, Unbroken
    <3> QED
      BY <2>1, <3>3, <3>4, <3>5 DEF PaneInv, Pieces
  <2>2. CASE Leaves
    <3>1. "rows" \in moved' /\ (page.at = "read" => "page" \in moved')
      BY <2>2 DEF Leaves
    <3> QED BY <3>1 DEF Pieces
  <2> QED BY <2>1, <2>2
<1> QED
  BY <1>1, <1>2, <1>3, <1>4, <1>5, <1>6 DEF PaneInv, HistoryGoes

\* A job starts.
LEMMA StartKeeps ==
  ASSUME PaneInv, JobStarts
  PROVE  PaneInv'
<1>1. UNCHANGED <<pane, rows, marks, page, check, update, deletion, removed, moved, missed>>
  BY DEF JobStarts
<1>2. ~Settled'
  BY StartGoes DEF Settled
<1>3. /\ deletion' \in Deletions /\ marks' \in SUBSET ShownRows /\ moved' \in SUBSET {"rows", "page"} /\ missed' \in BOOLEAN
      /\ \A e \in deletion.done : e \in Executions /\ history[e] = "gone"
      /\ deletion'.at = "dialog" => deletion'.todo # <<>>
  BY <1>1 DEF PaneInv, PaneTypeOK, Removed, NoGhosts, Deletions
<1>4. \A e \in deletion'.done : history'[e] = "gone"
  BY <1>1, <1>3, StartGoes DEF HistoryGoes
<1> QED
  BY <1>1, <1>2, <1>3, <1>4, StartGoes, HistoryPart

\* A job ends, or its process dies.
LEMMA EndKeeps ==
  ASSUME PaneInv, JobEnds
  PROVE  PaneInv'
<1>1. UNCHANGED <<pane, rows, marks, page, check, update, deletion, removed, moved>>
  BY DEF JobEnds
<1>3. /\ deletion' \in Deletions /\ marks' \in SUBSET ShownRows /\ moved' \in SUBSET {"rows", "page"}
      /\ \A e \in deletion.done : e \in Executions /\ history[e] = "gone"
      /\ deletion'.at = "dialog" => deletion'.todo # <<>>
  BY <1>1 DEF PaneInv, PaneTypeOK, Removed, NoGhosts, Deletions
<1>4. \A e \in deletion'.done : history'[e] = "gone"
  BY <1>1, <1>3, EndGoes DEF HistoryGoes
<1> QED
  BY <1>1, <1>3, <1>4, EndGoes, HistoryPart

\* Others delete.
LEMMA OtherDeletesKeeps ==
  ASSUME PaneInv, OtherDeletes
  PROVE  PaneInv'
<1>1. UNCHANGED <<holder, told, pane, rows, marks, page, check, update, deletion, removed, missed>> /\ Leaves
  BY DEF OtherDeletes
<1>2. PICK x \in Executions : history[x] = "over" /\ history' = [history EXCEPT ![x] = "gone"]
  BY DEF OtherDeletes
<1>3. history' = [e \in Executions |-> IF e \in {x} THEN "gone" ELSE history[e]]
  BY <1>2 DEF PaneInv, PaneTypeOK
<1>4. HistoryGoes /\ Stored' \subseteq Stored
  BY <1>1, <1>2, <1>3, DeleteGoes
<1>5. /\ deletion' \in Deletions /\ marks' \in SUBSET ShownRows /\ missed' \in BOOLEAN /\ told' \in Seq({"started", "ended"})
      /\ \A e \in deletion.done : e \in Executions /\ history[e] = "gone"
      /\ deletion'.at = "dialog" => deletion'.todo # <<>>
  BY <1>1 DEF PaneInv, PaneTypeOK, Removed, NoGhosts, Deletions
<1>6. \A e \in deletion'.done : history'[e] = "gone"
  BY <1>1, <1>4, <1>5 DEF HistoryGoes
<1>7. moved' \in SUBSET {"rows", "page"} /\ (Settled' => Settled)
  BY <1>1 DEF Leaves, Settled
<1> QED
  BY <1>1, <1>4, <1>5, <1>6, <1>7, HistoryPart

\* Marks, and the dialog of a deletion, leave the store as it is.
LEMMA QuietKeeps ==
  ASSUME PaneInv, UNCHANGED <<history, holder, told, pane, rows, page, check, update, removed, moved, missed>>,
         marks' \in SUBSET ShownRows, deletion' \in Deletions, deletion'.done \subseteq deletion.done,
         deletion'.at = "dialog" => deletion'.todo # <<>>
  PROVE  PaneInv'
<1>1. Stored' = Stored /\ (Settled' => Settled)
  BY StoreSame DEF Settled
<1>2. \A e \in deletion'.done : history'[e] = "gone"
  BY DEF PaneInv, Removed
<1>3. told' \in Seq({"started", "ended"}) /\ missed' \in BOOLEAN /\ moved' \in SUBSET {"rows", "page"}
  BY DEF PaneInv, PaneTypeOK
<1> QED
  BY <1>1, <1>2, <1>3, StoreKept, HistoryPart

\* A row is marked.
LEMMA MarkKeeps ==
  ASSUME PaneInv, Mark
  PROVE  PaneInv'
<1>1. UNCHANGED <<history, holder, told, pane, rows, page, check, update, deletion, removed, moved, missed>> /\ marks' \in SUBSET ShownRows
  BY DEF Mark, PaneInv, Removed, NoGhosts
<1>2. deletion' \in Deletions /\ deletion'.done \subseteq deletion.done /\ (deletion'.at = "dialog" => deletion'.todo # <<>>)
  BY <1>1 DEF PaneInv, PaneTypeOK, Removed
<1> QED
  BY <1>1, <1>2, QuietKeeps

\* A deletion is asked about, execution by execution.
LEMMA AskToDeleteKeeps ==
  ASSUME PaneInv, AskToDelete
  PROVE  PaneInv'
<1>1. UNCHANGED <<history, holder, told, pane, rows, marks, page, check, update, removed, moved, missed>>
  BY DEF AskToDelete
<1>2. PICK chosen \in {marks \cap ShownRows} \cup (IF marks = {} THEN {{e} : e \in ShownRows} ELSE {}) \cup {Range(Listing(pane.filter))} :
        LET deletable == {e \in chosen : history[e] = "over"}
        IN  /\ deletable # {}
            /\ deletion' = [at |-> "dialog", todo |-> NewestFirst(deletable), done |-> {}]
  BY DEF AskToDelete
<1> DEFINE deletable == {e \in chosen : history[e] = "over"}
<1>3. chosen \in SUBSET Executions
  <2>1. CASE chosen = Range(Listing(pane.filter))
    <3>1. Matching(pane.filter) \in SUBSET Executions
      BY ExecutionSets
    <3>2. Listing(pane.filter) \in Seq(Matching(pane.filter))
      BY <3>1, ExecutionSets, Ranked DEF Listing
    <3>3. \A x \in Range(Listing(pane.filter)) : x \in Matching(pane.filter)
      BY <3>2 DEF Range
    <3> QED BY <2>1, <3>1, <3>3
  <2>2. CASE chosen # Range(Listing(pane.filter))
    BY <1>2, <2>2, ExecutionSets
  <2> QED BY <2>1, <2>2
<1>4. deletable \in SUBSET Executions /\ deletable # {}
  BY <1>2, <1>3
<1> HIDE DEF deletable
<1>5. NewestFirst(deletable) \in Seq(deletable) /\ Len(NewestFirst(deletable)) # 0
  BY <1>4, ExecutionSets, Ranked, FS_EmptySet
<1>6. NewestFirst(deletable) \in Seq(Executions) /\ NewestFirst(deletable) # <<>>
  BY <1>4, <1>5
<1>7. deletion' = [at |-> "dialog", todo |-> NewestFirst(deletable), done |-> {}]
  BY <1>2 DEF deletable
<1>8. deletion' \in Deletions /\ deletion'.done \subseteq deletion.done /\ deletion'.todo # <<>>
  BY <1>6, <1>7 DEF Deletions
<1>9. marks' \in SUBSET ShownRows
  BY <1>1 DEF PaneInv, Removed, NoGhosts
<1> QED
  BY <1>1, <1>8, <1>9, QuietKeeps

\* A request for it never arrives.
LEMMA AnswerLostKeeps ==
  ASSUME PaneInv, AnswerLost
  PROVE  PaneInv'
<1>1. UNCHANGED <<history, holder, told, pane, rows, marks, page, check, update, removed, moved, missed>>
      /\ deletion' = [deletion EXCEPT !.at = "over"]
  BY DEF AnswerLost
<1>2. deletion' \in Deletions /\ deletion'.done \subseteq deletion.done /\ deletion'.at = "over" /\ marks' \in SUBSET ShownRows
  BY <1>1 DEF PaneInv, PaneTypeOK, Removed, NoGhosts, Deletions
<1> QED
  BY <1>1, <1>2, QuietKeeps

\* The dialog is answered: some executions are skipped, deleted, or deleted without the answer coming back.
LEMMA AnswerKeeps ==
  ASSUME PaneInv, Answer
  PROVE  PaneInv'
<1>0. UNCHANGED <<holder, told, pane, rows, marks, page, check, update, removed, missed>> /\ deletion.at = "dialog"
  BY DEF Answer
<1>1. /\ deletion.todo \in Seq(Executions) /\ deletion.todo # <<>> /\ deletion.done \in SUBSET Executions /\ deletion \in Deletions
      /\ marks' \in SUBSET ShownRows /\ missed' \in BOOLEAN /\ told' \in Seq({"started", "ended"})
      /\ \A e \in deletion.done : history[e] = "gone"
  BY <1>0 DEF PaneInv, PaneTypeOK, Removed, NoGhosts, Deletions
<1>2. Len(deletion.todo) \in Nat \ {0} /\ Tail(deletion.todo) \in Seq(Executions) /\ Len(Tail(deletion.todo)) = Len(deletion.todo) - 1
      /\ Head(deletion.todo) \in Executions
  BY <1>1
<1>3. Len(deletion.todo) # 1 => Tail(deletion.todo) # <<>>
  <2>1. Len(deletion.todo) # 1 => Len(Tail(deletion.todo)) # 0
    BY <1>2
  <2> QED BY <2>1
<1>4. CASE \/ deletion' = [deletion EXCEPT !.todo = Tail(@), !.at = IF Len(deletion.todo) = 1 THEN "over" ELSE "dialog"] /\ UNCHANGED <<history, moved, actions>>
           \/ deletion' = [deletion EXCEPT !.at = "over"] /\ UNCHANGED <<history, moved, actions>>
  <2>1. deletion' \in Deletions /\ deletion'.done \subseteq deletion.done
    BY <1>1, <1>2, <1>4 DEF Deletions
  <2>2. deletion'.at = "dialog" => deletion'.todo # <<>>
    BY <1>1, <1>3, <1>4 DEF Deletions
  <2> QED
    BY <1>0, <1>1, <1>4, <2>1, <2>2, QuietKeeps
<1>5. CASE \E all \in BOOLEAN :
            LET named == IF all THEN Range(deletion.todo) ELSE {Head(deletion.todo)}
            IN  /\ ServerDeletes(named) /\ Leaves
                /\ \/ /\ deletion' = [at |-> IF all \/ Len(deletion.todo) = 1 THEN "over" ELSE "dialog", todo |-> IF all THEN <<>> ELSE Tail(deletion.todo),
                                      done |-> deletion.done \cup Deletable(named)]
                      /\ UNCHANGED actions
                   \/ /\ actions < MaxActions /\ actions' = actions + 1
                      /\ deletion' = [deletion EXCEPT !.at = "over"]
  <2> PICK all \in BOOLEAN :
         LET named == IF all THEN Range(deletion.todo) ELSE {Head(deletion.todo)}
         IN  /\ ServerDeletes(named) /\ Leaves
             /\ \/ deletion' = [at |-> IF all \/ Len(deletion.todo) = 1 THEN "over" ELSE "dialog", todo |-> IF all THEN <<>> ELSE Tail(deletion.todo),
                                done |-> deletion.done \cup Deletable(named)]
                \/ deletion' = [deletion EXCEPT !.at = "over"]
    BY <1>5
  <2>1. PICK named :
            /\ named = IF all THEN Range(deletion.todo) ELSE {Head(deletion.todo)}
            /\ ServerDeletes(named) /\ Leaves
            /\ \/ deletion' = [at |-> IF all \/ Len(deletion.todo) = 1 THEN "over" ELSE "dialog", todo |-> IF all THEN <<>> ELSE Tail(deletion.todo),
                               done |-> deletion.done \cup Deletable(named)]
               \/ deletion' = [deletion EXCEPT !.at = "over"]
    OBVIOUS
  <2>2. named \in SUBSET Executions
    BY <1>1, <1>2, <2>1 DEF Range
  <2>3. Deletable(named) \in SUBSET Executions /\ \A e \in Deletable(named) : history[e] = "over"
    BY <2>2 DEF Deletable
  <2>4. history' = [e \in Executions |-> IF e \in Deletable(named) THEN "gone" ELSE history[e]]
    BY <2>1 DEF ServerDeletes
  <2>5. HistoryGoes /\ Stored' \subseteq Stored /\ \A e \in Deletable(named) : history'[e] = "gone"
    BY <1>0, <2>3, <2>4, DeleteGoes
  <2>6. deletion' \in Deletions
    <3>1. deletion.done \cup Deletable(named) \in SUBSET Executions /\ <<>> \in Seq(Executions)
      BY <1>1, <2>3
    <3>2. ASSUME NEW at \in {"over", "dialog"}, NEW todo \in Seq(Executions)
          PROVE  [at |-> at, todo |-> todo, done |-> deletion.done \cup Deletable(named)] \in Deletions
      BY <3>1, <3>2 DEF Deletions
    <3>3. CASE deletion' = [deletion EXCEPT !.at = "over"]
      BY <1>1, <3>3 DEF Deletions
    <3>4. CASE deletion' = [at |-> IF all \/ Len(deletion.todo) = 1 THEN "over" ELSE "dialog", todo |-> IF all THEN <<>> ELSE Tail(deletion.todo),
                            done |-> deletion.done \cup Deletable(named)]
      <4>1. (IF all \/ Len(deletion.todo) = 1 THEN "over" ELSE "dialog") \in {"over", "dialog"}
            /\ (IF all THEN <<>> ELSE Tail(deletion.todo)) \in Seq(Executions)
        BY <1>2, <3>1
      <4> QED BY <3>2, <3>4, <4>1
    <3> QED BY <2>1, <3>3, <3>4
  <2>7. deletion'.at = "dialog" => deletion'.todo # <<>>
    BY <1>1, <1>3, <2>1 DEF Deletions
  <2>8. \A e \in deletion'.done : e \in deletion.done \/ e \in Deletable(named)
    <3>1. CASE deletion' = [deletion EXCEPT !.at = "over"]
      BY <1>1, <3>1 DEF Deletions
    <3>2. CASE deletion' = [at |-> IF all \/ Len(deletion.todo) = 1 THEN "over" ELSE "dialog", todo |-> IF all THEN <<>> ELSE Tail(deletion.todo),
                            done |-> deletion.done \cup Deletable(named)]
      <4>1. deletion'.done = deletion.done \cup Deletable(named)
        BY <3>2
      <4> QED BY <4>1
    <3> QED BY <2>1, <3>1, <3>2
  <2>9. \A e \in deletion'.done : history'[e] = "gone"
    BY <1>1, <2>5, <2>8 DEF HistoryGoes
  <2>10. moved' \in SUBSET {"rows", "page"} /\ (Settled' => Settled)
    BY <1>0, <2>1 DEF Leaves, Settled
  <2> QED
    BY <1>0, <1>1, <2>1, <2>5, <2>6, <2>7, <2>9, <2>10, HistoryPart
<1> QED BY <1>4, <1>5 DEF Answer

\* What load sets going: a page, and no other read is the newest any more.
LEMMA LoadShape ==
  ASSUME PaneTypeOK, NEW filter \in {"all", "over"}, NEW above \in Nat, NEW shown \in Nat, Load(filter, above, shown)
  PROVE  /\ page' \in Pages /\ page'.at = "asked" /\ page'.filter = filter /\ page'.offset = above /\ page'.limit > 0
         /\ check' \in Checks /\ check'.at = check.at /\ check'.running = check.running /\ (check'.newest <=> check.at = "none")
         /\ update' \in Updates /\ update'.at = update.at /\ update'.ids = update.ids /\ update'.status = update.status
         /\ (update'.newest <=> update.at = "none")
<1>1. PICK limit \in Nat : limit > 0 /\ limit = IF above > 0 \/ shown < PageSize THEN PageSize ELSE shown
  BY PaneAssumption
<1>2. page' = [at |-> "asked", filter |-> filter, offset |-> above, limit |-> limit, list |-> <<>>, complete |-> TRUE]
  BY <1>1 DEF Load, NoPage
<1>3. <<>> \in Seq(Executions \X Shows)
  OBVIOUS
<1>4. page' \in Pages
  BY <1>1, <1>2, <1>3 DEF Pages
<1>5. check' = [check EXCEPT !.newest = check.at = "none"] /\ update' = [update EXCEPT !.newest = update.at = "none"]
      /\ check \in Checks /\ update \in Updates
  BY DEF Load, PaneTypeOK
<1>6. /\ check' \in Checks /\ check'.at = check.at /\ check'.running = check.running /\ (check'.newest <=> check.at = "none")
  BY <1>5 DEF Checks
<1>7. /\ update' \in Updates /\ update'.at = update.at /\ update'.ids = update.ids /\ update'.status = update.status
      /\ (update'.newest <=> update.at = "none")
  BY <1>5 DEF Updates
<1> QED
  BY <1>1, <1>2, <1>4, <1>6, <1>7

\* A page is asked for: from the top, or from below the rows, which stay as they are.
ReadBegins ==
  /\ page' \in Pages /\ page'.at = "asked" /\ page'.filter = pane'.filter /\ page'.limit > 0
  /\ check' \in Checks /\ (check'.at # "none" => check.at # "none" /\ check'.running = check.running /\ ~check'.newest)
  /\ update' \in Updates
  /\ update'.at # "none" => update'.at = update.at /\ update'.ids = update.ids /\ update'.status = update.status /\ ~update'.newest
  /\ \/ page'.offset = 0
     \/ /\ page'.offset = Cardinality(ShownRows) /\ page.at = "none" /\ check'.at = check.at /\ update'.at = update.at
        /\ rows' = rows /\ (Settled' => Settled)

\* A read that begins makes every other read an old one, and keeps what the pane knows.
LEMMA ReadBeginsKeeps ==
  ASSUME PaneInv, ReadBegins, UNCHANGED <<history, holder>>, told' \in Seq({"started", "ended"}), missed' \in BOOLEAN,
         pane' \in Panes, pane'.reading,
         rows' \in [Executions -> Shows \cup {"-"}], \A e \in ShownRows' : e \in ShownRows /\ rows'[e] = rows[e],
         deletion' \in Deletions, \A e \in deletion'.done : history[e] = "gone", deletion'.at = "dialog" => deletion'.todo # <<>>,
         removed' \in SUBSET Executions, \A e \in removed' : history[e] = "gone", removed' \cap ShownRows' = {},
         marks' \in SUBSET ShownRows', moved' \in SUBSET {"rows", "page"},
         "rows" \notin moved' => Unbroken(ShownRows, pane.allRead)'
  PROVE  PaneInv'
<1>0. PaneTypeOK /\ ShownRows \in SUBSET Executions /\ ShownRows' \in SUBSET Executions /\ RunningRows' \in SUBSET RunningRows
  BY ExecutionSets DEF PaneInv, ShownRows, RunningRows
<1>1. PaneTypeOK'
  <2>1. marks' \in SUBSET Executions
    BY <1>0
  <2> QED BY <1>0, <2>1 DEF PaneTypeOK, ReadBegins
<1>2. Numbered'
  BY DEF PaneInv, Numbered
<1>3. AnswersTrue'
  <2>1. \A e \in ShownRows' : Known(e, rows[e])'
    BY StoreSame DEF PaneInv, AnswersTrue
  <2>2. check'.at # "none" => \A e \in check'.running : history'[e] # "none"
    BY DEF PaneInv, AnswersTrue, ReadBegins
  <2>3. update'.at # "none" => \A e \in update'.ids : history'[e] # "none"
    BY DEF PaneInv, AnswersTrue, ReadBegins
  <2>4. update'.at = "read" => \A e \in Executions :
            /\ update'.status[e] # "-" => Known(e, update.status[e])'
            /\ update'.status[e] = "-" => e \notin update'.ids \/ history'[e] = "gone"
    BY StoreSame DEF PaneInv, AnswersTrue, ReadBegins
  <2>5. page'.offset > 0 => page'.offset = Cardinality(ShownRows')
    <3>1. rows' = rows => ShownRows' = ShownRows
      BY DEF ShownRows
    <3> QED BY <3>1 DEF ReadBegins
  <2>6. page'.at = "asked" /\ page'.filter = pane'.filter /\ page'.limit > 0
        /\ (check'.at # "none" => ~check'.newest) /\ (update'.at # "none" => ~update'.newest)
    BY DEF ReadBegins
  <2> QED
    BY <2>1, <2>2, <2>3, <2>4, <2>5, <2>6 DEF AnswersTrue
<1>4. Removed'
  BY DEF ReadBegins, Removed, NoGhosts
<1>5. Asked'
  BY DEF Asked, ReadBegins
<1>6. Settling'
  <2>1. ASSUME Settled', NEW e \in RunningRows', e \in Stored'
        PROVE  Covered(e)'
    <3>1. CASE page'.offset = 0
      BY <3>1 DEF Covered, ReadBegins
    <3>2. CASE page'.offset # 0
      <4>1. page.at = "none" /\ check'.at = check.at /\ update'.at = update.at /\ Settled
        BY <2>1, <3>2 DEF ReadBegins
      <4>2. Covered(e)
        BY <1>0, <2>1, <4>1, StoreSame DEF PaneInv, Settling
      <4> QED BY <4>1, <4>2 DEF Covered, ReadBegins
    <3> QED BY <3>1, <3>2
  <2>2. update'.at # "none" => ~update'.newest
    BY DEF ReadBegins
  <2> QED BY <2>1, <2>2 DEF Settling, ReadBegins
<1>7. Pieces'
  BY DEF Pieces, ReadBegins
<1> QED
  BY <1>1, <1>2, <1>3, <1>4, <1>5, <1>6, <1>7 DEF PaneInv

\* The pieces a list is in are the same when neither it nor the rows change.
LEMMA PieceStays ==
  ASSUME UNCHANGED <<history, holder, rows>>, pane'.filter = pane.filter
  PROVE  /\ \A set, complete : Unbroken(set, complete)' <=> Unbroken(set, complete)
         /\ ShownRows' = ShownRows /\ RunningRows' = RunningRows
<1>1. Matching(pane.filter)' = Matching(pane.filter)
  BY DEF Matching, Stored
<1> QED
  BY <1>1 DEF Unbroken, ShownRows, RunningRows

\* The rows below are read.
LEMMA ReadOnKeeps ==
  ASSUME PaneInv, ReadOn
  PROVE  PaneInv'
<1>0. /\ PaneTypeOK /\ ShownRows # {} /\ ~pane.allRead /\ ~pane.reading /\ pane' = [pane EXCEPT !.reading = TRUE]
      /\ Load(pane.filter, NextOffset, NextOffset)
      /\ UNCHANGED <<history, holder, told, rows, marks, deletion, actions, removed, moved, missed>>
  BY DEF PaneInv, ReadOn, MayReadOn
<1>1. NextOffset = Cardinality(ShownRows) /\ NextOffset \in Nat
  BY ExecutionSets DEF NextOffset
<1>2. pane \in Panes /\ pane.filter \in {"all", "over"}
  BY <1>0 DEF PaneTypeOK, Panes
<1>3. pane' \in Panes /\ pane'.reading /\ pane'.filter = pane.filter /\ pane'.allRead = pane.allRead /\ pane'.busy = pane.busy /\ pane'.other = pane.other
  BY <1>0, <1>2 DEF Panes
<1>4. page.at = "none" /\ ShownRows' = ShownRows
  BY <1>0, <1>3, PieceStays DEF PaneInv, AnswersTrue
<1>5. ReadBegins
  BY <1>0, <1>1, <1>2, <1>3, <1>4, LoadShape DEF ReadBegins, Settled
<1>6. "rows" \notin moved' => Unbroken(ShownRows, pane.allRead)'
  BY <1>0, <1>3, PieceStays DEF PaneInv, Pieces, Unbroken
<1>7. /\ deletion' \in Deletions /\ (\A e \in deletion'.done : history[e] = "gone") /\ (deletion'.at = "dialog" => deletion'.todo # <<>>)
      /\ removed' \in SUBSET Executions /\ (\A e \in removed' : history[e] = "gone") /\ removed' \cap ShownRows' = {} /\ marks' \in SUBSET ShownRows'
      /\ moved' \in SUBSET {"rows", "page"} /\ told' \in Seq({"started", "ended"}) /\ missed' \in BOOLEAN /\ rows' \in [Executions -> Shows \cup {"-"}]
  BY <1>0, <1>4 DEF PaneInv, PaneTypeOK, Removed, NoGhosts
<1> QED
  BY <1>0, <1>3, <1>4, <1>5, <1>6, <1>7, ReadBeginsKeeps

\* The server's job starts or ends, and the feed says so.
LEMMA JobEventKeeps ==
  ASSUME PaneInv, JobEvent
  PROVE  PaneInv'
<1>0. /\ PaneTypeOK /\ told # <<>> /\ told' = Tail(told)
      /\ pane' = [pane EXCEPT !.busy = Head(told) = "started", !.reading = TRUE]
      /\ Load(pane.filter, 0, NextOffset)
      /\ UNCHANGED <<history, holder, rows, marks, deletion, actions, removed, moved, missed>>
  BY DEF PaneInv, JobEvent
<1>1. NextOffset \in Nat
  BY ExecutionSets DEF NextOffset
<1>2. pane \in Panes /\ pane.filter \in {"all", "over"} /\ told \in Seq({"started", "ended"})
  BY <1>0 DEF PaneTypeOK, Panes
<1>3. pane' \in Panes /\ pane'.reading /\ pane'.filter = pane.filter /\ pane'.allRead = pane.allRead
  BY <1>0, <1>2 DEF Panes
<1>4. ShownRows' = ShownRows
  BY <1>0, <1>3, PieceStays
<1>5. ReadBegins
  BY <1>0, <1>1, <1>2, <1>3, LoadShape DEF ReadBegins
<1>6. "rows" \notin moved' => Unbroken(ShownRows, pane.allRead)'
  BY <1>0, <1>3, PieceStays DEF PaneInv, Pieces, Unbroken
<1>7. /\ deletion' \in Deletions /\ (\A e \in deletion'.done : history[e] = "gone") /\ (deletion'.at = "dialog" => deletion'.todo # <<>>)
      /\ removed' \in SUBSET Executions /\ (\A e \in removed' : history[e] = "gone") /\ removed' \cap ShownRows' = {} /\ marks' \in SUBSET ShownRows'
      /\ moved' \in SUBSET {"rows", "page"} /\ missed' \in BOOLEAN /\ rows' \in [Executions -> Shows \cup {"-"}]
  BY <1>0, <1>4 DEF PaneInv, PaneTypeOK, Removed, NoGhosts
<1>8. told' \in Seq({"started", "ended"})
  BY <1>0, <1>2
<1> QED
  BY <1>0, <1>3, <1>4, <1>5, <1>6, <1>7, <1>8, ReadBeginsKeeps

\* Another filter is set, in a pane without rows.
LEMMA SetFilterKeeps ==
  ASSUME PaneInv, SetFilter
  PROVE  PaneInv'
<1> PICK filter \in {"all", "over"} : pane' = [pane EXCEPT !.filter = filter, !.reading = TRUE] /\ Load(filter, 0, 0)
  BY DEF SetFilter
<1>0. /\ PaneTypeOK /\ rows' = [e \in Executions |-> "-"] /\ marks' = {} /\ moved' = moved \ {"rows"}
      /\ UNCHANGED <<history, holder, told, deletion, removed, missed>>
  BY DEF PaneInv, SetFilter
<1>1. pane \in Panes
  BY <1>0 DEF PaneTypeOK
<1>2. pane' \in Panes /\ pane'.reading /\ pane'.filter = filter
  BY <1>1 DEF Panes
<1>3. ShownRows' = {} /\ rows' \in [Executions -> Shows \cup {"-"}]
  BY <1>0 DEF ShownRows
<1>4. ReadBegins
  BY <1>0, <1>2, LoadShape DEF ReadBegins
<1>5. Unbroken(ShownRows, pane.allRead)'
  BY <1>3 DEF Unbroken
<1>6. /\ deletion' \in Deletions /\ (\A e \in deletion'.done : history[e] = "gone") /\ (deletion'.at = "dialog" => deletion'.todo # <<>>)
      /\ removed' \in SUBSET Executions /\ (\A e \in removed' : history[e] = "gone") /\ removed' \cap ShownRows' = {} /\ marks' \in SUBSET ShownRows'
      /\ moved' \in SUBSET {"rows", "page"} /\ missed' \in BOOLEAN /\ told' \in Seq({"started", "ended"})
  BY <1>0, <1>3 DEF PaneInv, PaneTypeOK, Removed
<1> QED
  BY <1>0, <1>2, <1>3, <1>4, <1>5, <1>6, ReadBeginsKeeps

\* A deletion ends, and what it took away goes from the rows.
LEMMA DeletionEndsKeeps ==
  ASSUME PaneInv, DeletionEnds
  PROVE  PaneInv'
<1>0. /\ PaneTypeOK /\ deletion' = NoDeletion /\ removed' = removed \cup deletion.done
      /\ UNCHANGED <<history, holder, told, actions, moved, missed>>
  BY DEF PaneInv, DeletionEnds
<1>1. deletion \in Deletions /\ deletion.done \in SUBSET Executions /\ (\A e \in removed \cup deletion.done : history[e] = "gone")
  BY <1>0 DEF PaneInv, PaneTypeOK, Removed, Deletions
<1>2. deletion' \in Deletions /\ deletion'.done = {} /\ deletion'.at = "none"
  <2>1. <<>> \in Seq(Executions) /\ {} \in SUBSET Executions
    OBVIOUS
  <2> QED BY <1>0, <2>1 DEF NoDeletion, Deletions
<1>3. CASE deletion.done = {}
  <2>1. UNCHANGED <<rows, marks, pane, page, update, check>>
    BY <1>3 DEF DeletionEnds
  <2>2. removed' = removed
    BY <1>0, <1>3
  <2>3. marks' \in SUBSET ShownRows
    BY <2>1 DEF PaneInv, Removed, NoGhosts
  <2> QED
    BY <1>0, <1>2, <2>1, <2>2, <2>3, QuietKeeps
<1>4. CASE deletion.done # {}
  <2>1. /\ rows' = [e \in Executions |-> IF e \in deletion.done THEN "-" ELSE rows[e]] /\ marks' = {}
        /\ pane' = [pane EXCEPT !.reading = TRUE] /\ Load(pane.filter, 0, Cardinality(ShownRows \ deletion.done))
    BY <1>4 DEF DeletionEnds, RereadAfterRemoval
  <2>2. pane \in Panes /\ pane.filter \in {"all", "over"}
    BY <1>0 DEF PaneTypeOK, Panes
  <2>3. pane' \in Panes /\ pane'.reading /\ pane'.filter = pane.filter /\ pane'.allRead = pane.allRead
    BY <2>1, <2>2 DEF Panes
  <2>4. Cardinality(ShownRows \ deletion.done) \in Nat
    <3>1. ShownRows \ deletion.done \in SUBSET Executions
      BY ExecutionSets
    <3> QED BY <3>1, ExecutionSets
  <2>5. ReadBegins
    BY <1>0, <2>1, <2>2, <2>3, <2>4, LoadShape DEF ReadBegins
  <2>6. rows' \in [Executions -> Shows \cup {"-"}] /\ ShownRows' = ShownRows \ deletion.done /\ (\A e \in ShownRows' : rows'[e] = rows[e])
    BY <1>0, <2>1 DEF PaneTypeOK, ShownRows
  <2>7. "rows" \notin moved' => Unbroken(ShownRows, pane.allRead)'
    <3>1. SUFFICES ASSUME "rows" \notin moved
                   PROVE  Unbroken(ShownRows, pane.allRead)'
      BY <1>0
    <3>2. Unbroken(ShownRows, pane.allRead)
      BY <3>1 DEF PaneInv, Pieces
    <3>3. ShownRows' = ShownRows
      BY <1>1, <2>6, <3>2 DEF Unbroken, Matching, Stored
    <3>4. Matching(pane.filter)' = Matching(pane.filter)
      BY <1>0, <2>3 DEF Matching, Stored
    <3> QED BY <2>3, <3>2, <3>3, <3>4 DEF Unbroken
  <2>8. removed' \in SUBSET Executions /\ removed' \cap ShownRows' = {}
    BY <1>0, <1>1, <2>6 DEF PaneInv, PaneTypeOK, Removed, NoGhosts
  <2>9. told' \in Seq({"started", "ended"}) /\ missed' \in BOOLEAN /\ moved' \in SUBSET {"rows", "page"}
    BY <1>0 DEF PaneTypeOK
  <2> QED
    BY <1>0, <1>1, <1>2, <2>1, <2>3, <2>5, <2>6, <2>7, <2>8, <2>9, ReadBeginsKeeps
<1> QED BY <1>3, <1>4

\* A step of the poll: which rows show stays, and what they and the answers say is true.
LEMMA PollPart ==
  ASSUME PaneInv, UNCHANGED <<history, holder, told, marks, page, deletion, removed, moved>>,
         rows' \in [Executions -> Shows \cup {"-"}], ShownRows' = ShownRows, \A e \in ShownRows : Known(e, rows'[e]),
         pane' \in Panes, pane'.filter = pane.filter, pane'.reading = pane.reading, pane'.allRead = pane.allRead, missed' \in BOOLEAN,
         check' \in Checks, check'.at # "none" => \A e \in check'.running : history[e] # "none",
         update' \in Updates, update'.at # "none" => \A e \in update'.ids : history[e] # "none",
         update'.at = "read" => \A e \in Executions :
            /\ update'.status[e] # "-" => Known(e, update'.status[e])
            /\ update'.status[e] = "-" => e \notin update'.ids \/ history[e] = "gone",
         (check'.at # "none" /\ check'.newest) \/ (update'.at # "none" /\ update'.newest) => page.at = "none",
         Asked', Settling'
  PROVE  PaneInv'
<1>1. PaneTypeOK' /\ Numbered'
  BY DEF PaneInv, PaneTypeOK, Numbered
<1>2. \A e, status : Known(e, status)' <=> Known(e, status)
  BY DEF Known
<1>3. AnswersTrue'
  <2>1. \A e \in ShownRows' : Known(e, rows[e])'
    BY <1>2, ExecutionSets DEF Known
  <2>2. page.at = "read" => \A i \in DOMAIN page.list : Known(page.list[i][1], page.list[i][2])'
    BY DEF PaneInv, AnswersTrue, Known
  <2>3. update'.at = "read" => \A e \in Executions : update'.status[e] # "-" => Known(e, update.status[e])'
    BY DEF Known
  <2>4. /\ pane'.reading <=> page.at # "none"
        /\ page.at # "none" => page.filter = pane'.filter /\ page.limit > 0
        /\ page.at # "none" /\ page.offset > 0 => page.offset = Cardinality(ShownRows')
    BY DEF PaneInv, AnswersTrue
  <2> QED BY <2>1, <2>2, <2>3, <2>4 DEF AnswersTrue
<1>4. Removed'
  BY DEF PaneInv, Removed, NoGhosts, Numbers
<1>5. Pieces'
  <2>1. Matching(pane.filter)' = Matching(pane.filter)
    BY DEF Matching, Stored
  <2>2. \A set, complete : Unbroken(set, complete)' <=> Unbroken(set, complete)
    BY <2>1 DEF Unbroken
  <2>3. Numbers(page.list)' = Numbers(page.list)
    BY DEF Numbers
  <2>4. "rows" \notin moved => Unbroken(ShownRows, pane.allRead)'
    BY <2>1 DEF PaneInv, Pieces, Unbroken
  <2>5. page.at = "read" /\ "page" \notin moved /\ page.offset = 0 => Unbroken(Numbers(page.list), page.complete)'
    BY <2>1, <2>3 DEF PaneInv, Pieces, Unbroken
  <2>6. page.at = "read" /\ "page" \notin moved /\ page.offset > 0 /\ "rows" \notin moved => Unbroken(ShownRows \cup Numbers(page.list), page.complete)'
    BY <2>1, <2>3 DEF PaneInv, Pieces, Unbroken
  <2> QED BY <2>4, <2>5, <2>6 DEF PaneInv, Pieces
<1> QED
  BY <1>1, <1>3, <1>4, <1>5 DEF PaneInv

\* The poll sees who holds the lock, and asks.
LEMMA PollHistoryKeeps ==
  ASSUME PaneInv, PollHistory
  PROVE  PaneInv'
<1>0. /\ PaneTypeOK /\ ~pane.busy /\ ~pane.reading /\ pane' = [pane EXCEPT !.other = holder # "free"]
      /\ IF MayCheck(holder # "free") THEN check' = [NoCheck EXCEPT !.at = "asked", !.running = RunningRows] ELSE UNCHANGED check
      /\ missed' = (missed \/ (check.at # "none" /\ MayCheck(holder # "free")))
      /\ (holder # "free") # pane.other \/ holder # "free"
      /\ UNCHANGED <<history, holder, told, rows, marks, page, update, deletion, actions, removed, moved>>
  BY DEF PaneInv, PollHistory
<1>1. pane \in Panes /\ missed \in BOOLEAN
  BY <1>0 DEF PaneTypeOK
<1>2. /\ pane' \in Panes /\ pane'.filter = pane.filter /\ pane'.reading = pane.reading /\ pane'.allRead = pane.allRead
      /\ pane'.other = (holder # "free") /\ missed' \in BOOLEAN
  BY <1>0, <1>1 DEF Panes
<1>3. MayCheck(holder # "free")
  BY <1>0, <1>1 DEF MayCheck, Panes
<1>4. check' = [at |-> "asked", newest |-> TRUE, top |-> 0, running |-> RunningRows]
  BY <1>0, <1>3 DEF NoCheck
<1>5. RunningRows \in SUBSET Executions /\ RunningRows \in SUBSET ShownRows
  BY ExecutionSets
<1>6. check' \in Checks
  BY <1>4, <1>5 DEF Checks
<1>7. page.at = "none" /\ (\A e \in check'.running : history[e] # "none") /\ (\A e \in ShownRows : Known(e, rows'[e]))
  BY <1>0, <1>4, <1>5 DEF PaneInv, AnswersTrue, Known
<1>8. ShownRows' = ShownRows /\ RunningRows' = RunningRows
  BY <1>0 DEF ShownRows, RunningRows
<1>9. Asked'
  BY <1>0, <1>4, <1>8 DEF PaneInv, Asked
<1>10. Settling'
  BY <1>0, <1>4, <1>7 DEF Settling, Covered
<1>11. update' \in Updates /\ rows' \in [Executions -> Shows \cup {"-"}]
  BY <1>0 DEF PaneTypeOK
<1>12. /\ update'.at # "none" => \A e \in update'.ids : history[e] # "none"
       /\ update'.at = "read" => \A e \in Executions :
            /\ update'.status[e] # "-" => Known(e, update'.status[e])
            /\ update'.status[e] = "-" => e \notin update'.ids \/ history[e] = "gone"
  BY <1>0 DEF PaneInv, AnswersTrue
<1> QED
  BY <1>0, <1>2, <1>6, <1>7, <1>8, <1>9, <1>10, <1>11, <1>12, PollPart

\* The feed connects, or is lost.
LEMMA FeedChangesKeeps ==
  ASSUME PaneInv, FeedChanges
  PROVE  PaneInv'
<1>0. /\ PaneTypeOK /\ pane' = [pane EXCEPT !.other = ~@] /\ missed' = (missed \/ pane.other)
      /\ UNCHANGED <<history, holder, told, rows, marks, page, check, update, deletion, actions, removed, moved>>
  BY DEF PaneInv, FeedChanges
<1>1. pane \in Panes /\ missed \in BOOLEAN /\ check' \in Checks /\ update' \in Updates /\ rows' \in [Executions -> Shows \cup {"-"}]
  BY <1>0 DEF PaneTypeOK
<1>2. /\ pane' \in Panes /\ pane'.filter = pane.filter /\ pane'.reading = pane.reading /\ pane'.allRead = pane.allRead
      /\ pane'.other = ~pane.other /\ missed' \in BOOLEAN
  BY <1>0, <1>1 DEF Panes
<1>3. Settling'
  BY <1>0, <1>1, <1>2 DEF Settling, Settled, Panes
<1>4. ShownRows' = ShownRows /\ RunningRows' = RunningRows
  BY <1>0 DEF ShownRows, RunningRows
<1>5. Asked'
  BY <1>0, <1>4 DEF PaneInv, Asked
<1>6. /\ \A e \in ShownRows : Known(e, rows'[e])
      /\ check'.at # "none" => \A e \in check'.running : history[e] # "none"
      /\ update'.at # "none" => \A e \in update'.ids : history[e] # "none"
      /\ update'.at = "read" => \A e \in Executions :
            /\ update'.status[e] # "-" => Known(e, update'.status[e])
            /\ update'.status[e] = "-" => e \notin update'.ids \/ history[e] = "gone"
      /\ (check'.at # "none" /\ check'.newest) \/ (update'.at # "none" /\ update'.newest) => page.at = "none"
  BY <1>0 DEF PaneInv, AnswersTrue
<1> QED
  BY <1>0, <1>1, <1>2, <1>3, <1>4, <1>5, <1>6, PollPart

\* What the steps of the poll that leave the rows alone may rely on.
LEMMA PollFacts ==
  ASSUME PaneInv, UNCHANGED <<history, holder, rows>>
  PROVE  /\ ShownRows' = ShownRows /\ RunningRows' = RunningRows /\ Stored' = Stored /\ ShownRows \in SUBSET Executions
         /\ rows' \in [Executions -> Shows \cup {"-"}] /\ \A e \in ShownRows : Known(e, rows'[e])
         /\ pane \in Panes /\ check \in Checks /\ update \in Updates /\ missed \in BOOLEAN
         /\ check.at # "none" => \A e \in check.running : history[e] # "none"
         /\ update.at # "none" => \A e \in update.ids : history[e] # "none"
         /\ update.at = "read" => \A e \in Executions :
               /\ update.status[e] # "-" => Known(e, update.status[e])
               /\ update.status[e] = "-" => e \notin update.ids \/ history[e] = "gone"
         /\ (check.at # "none" /\ check.newest) \/ (update.at # "none" /\ update.newest) => page.at = "none"
<1>1. ShownRows' = ShownRows /\ RunningRows' = RunningRows /\ Stored' = Stored /\ ShownRows \in SUBSET Executions
  BY ExecutionSets DEF ShownRows, RunningRows, Stored
<1> QED
  BY <1>1 DEF PaneInv, PaneTypeOK, AnswersTrue

\* The check reads the newest execution.
LEMMA CheckReadKeeps ==
  ASSUME PaneInv, CheckRead
  PROVE  PaneInv'
<1> DEFINE all == Listing(pane.filter)
<1>0. /\ check.at = "asked" /\ check' = [check EXCEPT !.at = "read", !.top = IF all = <<>> THEN 0 ELSE all[1]]
      /\ UNCHANGED <<history, holder, told, pane, rows, marks, page, update, deletion, actions, removed, moved, missed>>
  BY DEF CheckRead
<1>1. PICK top \in Nat : top = IF all = <<>> THEN 0 ELSE all[1]
  <2>1. Matching(pane.filter) \in SUBSET Nat /\ IsFiniteSet(Matching(pane.filter))
    BY ExecutionSets
  <2>2. all \in Seq(Matching(pane.filter))
    BY <2>1, Ranked DEF Listing
  <2>3. all # <<>> => all[1] \in Matching(pane.filter)
    BY <2>2
  <2> QED BY <2>1, <2>3
<1> HIDE DEF all
<1>2. check' = [check EXCEPT !.at = "read", !.top = top] /\ check \in Checks
  BY <1>0, <1>1 DEF PaneInv, PaneTypeOK
<1>3. check' \in Checks /\ check'.at = "read" /\ check'.running = check.running /\ check'.newest = check.newest
  BY <1>2 DEF Checks
<1>4. Asked'
  BY <1>0, <1>3, PollFacts DEF PaneInv, Asked
<1>5. Settling'
  <2>1. \A e : Covered(e) => Covered(e)'
    BY <1>0, <1>3 DEF Covered
  <2>2. Settled' => Settled
    BY <1>0 DEF Settled
  <2>3. /\ Settled => \A e \in RunningRows \cap Stored : Covered(e)
        /\ Settled /\ page.at = "read" => \A i \in DOMAIN page.list : page.list[i][2] = "running" => page.list[i][1] \notin Stored
    BY DEF PaneInv, Settling
  <2>4. RunningRows' = RunningRows /\ Stored' = Stored
    BY <1>0, PollFacts
  <2> QED BY <1>0, <1>3, <2>1, <2>2, <2>3, <2>4 DEF Settling
<1>6. /\ pane' \in Panes /\ pane'.filter = pane.filter /\ pane'.reading = pane.reading /\ pane'.allRead = pane.allRead
      /\ missed' \in BOOLEAN /\ update' \in Updates
  BY <1>0, PollFacts
<1> QED
  BY <1>0, <1>3, <1>4, <1>5, <1>6, PollFacts, PollPart

\* What it found is acted on: a page from the top, the rows said to run, or nothing.
LEMMA AfterCheckKeeps ==
  ASSUME PaneInv, AfterCheck
  PROVE  PaneInv'
<1>0. /\ check.at = "read" /\ missed' = (missed \/ ~check.newest) /\ check' = NoCheck
      /\ UNCHANGED <<history, holder, told, rows, marks, deletion, actions, removed, moved>>
  BY DEF AfterCheck
<1>1. check' \in Checks /\ check'.at = "none"
  <2>1. {} \in SUBSET Executions
    OBVIOUS
  <2> QED BY <1>0, <2>1 DEF NoCheck, Checks
<1>2. missed' \in BOOLEAN
  BY <1>0, PollFacts DEF Checks
<1>3. CASE ~check.newest
  <2>1. UNCHANGED <<pane, page, update>> /\ ~Settled'
    BY <1>0, <1>3 DEF AfterCheck, Settled
  <2>2. Asked' /\ Settling'
    BY <1>0, <1>1, <2>1, PollFacts DEF PaneInv, Asked, Settling
  <2>3. /\ pane' \in Panes /\ pane'.filter = pane.filter /\ pane'.reading = pane.reading /\ pane'.allRead = pane.allRead
        /\ update' \in Updates /\ update'.at = update.at /\ update'.ids = update.ids /\ update'.status = update.status /\ update'.newest = update.newest
    BY <1>0, <2>1, PollFacts
  <2> QED
    BY <1>0, <1>1, <1>2, <2>1, <2>2, <2>3, PollFacts, PollPart
<1>4. CASE check.newest /\ check.top # 0 /\ check.top \notin ShownRows
  <2>1. /\ pane' = [pane EXCEPT !.reading = TRUE]
        /\ page' = [NoPage EXCEPT !.at = "asked", !.filter = pane.filter, !.limit = IF NextOffset < PageSize THEN PageSize ELSE NextOffset]
        /\ update' = [update EXCEPT !.newest = update.at = "none"]
    BY <1>4 DEF AfterCheck
  <2>2. pane \in Panes /\ pane.filter \in {"all", "over"} /\ update \in Updates
    BY <1>0, PollFacts DEF Panes
  <2>3. PICK limit \in Nat : limit > 0 /\ limit = IF NextOffset < PageSize THEN PageSize ELSE NextOffset
    <3>1. NextOffset \in Nat
      BY ExecutionSets DEF NextOffset
    <3> QED BY <3>1, PaneAssumption
  <2>4. page' = [at |-> "asked", filter |-> pane.filter, offset |-> 0, limit |-> limit, list |-> <<>>, complete |-> TRUE]
    BY <2>1, <2>3 DEF NoPage
  <2>5. page' \in Pages /\ page'.at = "asked" /\ page'.filter = pane.filter /\ page'.offset = 0 /\ page'.limit > 0
    <3>1. <<>> \in Seq(Executions \X Shows) /\ 0 \in Nat
      OBVIOUS
    <3> QED BY <2>2, <2>3, <2>4, <3>1 DEF Pages
  <2>6. pane' \in Panes /\ pane'.reading /\ pane'.filter = pane.filter /\ pane'.allRead = pane.allRead
    BY <2>1, <2>2 DEF Panes
  <2>7. /\ update' \in Updates
        /\ update'.at # "none" => update'.at = update.at /\ update'.ids = update.ids /\ update'.status = update.status /\ ~update'.newest
    BY <2>1, <2>2 DEF Updates
  <2>8. ReadBegins
    BY <1>1, <2>5, <2>6, <2>7 DEF ReadBegins
  <2>9. "rows" \notin moved' => Unbroken(ShownRows, pane.allRead)'
    BY <1>0, <2>6, PieceStays DEF PaneInv, Pieces, Unbroken
  <2>10. /\ deletion' \in Deletions /\ (\A e \in deletion'.done : history[e] = "gone") /\ (deletion'.at = "dialog" => deletion'.todo # <<>>)
         /\ removed' \in SUBSET Executions /\ (\A e \in removed' : history[e] = "gone") /\ removed' \cap ShownRows' = {} /\ marks' \in SUBSET ShownRows'
         /\ moved' \in SUBSET {"rows", "page"} /\ told' \in Seq({"started", "ended"}) /\ rows' \in [Executions -> Shows \cup {"-"}]
    BY <1>0, PollFacts DEF PaneInv, PaneTypeOK, Removed, NoGhosts
  <2>11. \A e \in ShownRows' : e \in ShownRows /\ rows'[e] = rows[e]
    BY <1>0, PollFacts
  <2> QED
    BY <1>0, <1>2, <2>6, <2>8, <2>9, <2>10, <2>11, ReadBeginsKeeps
<1>5. CASE check.newest /\ ~(check.top # 0 /\ check.top \notin ShownRows)
  <2>1. /\ update' = IF check.running # {} THEN [NoUpdate EXCEPT !.at = "asked", !.ids = check.running] ELSE update
        /\ UNCHANGED <<pane, page>>
    BY <1>5 DEF AfterCheck
  <2>2. page.at = "none" /\ check.running \in SUBSET Executions /\ (\A e \in check.running : history[e] # "none") /\ RunningRows \subseteq check.running
    BY <1>0, <1>5, PollFacts DEF Checks, PaneInv, Asked
  <2>3. /\ pane' \in Panes /\ pane'.filter = pane.filter /\ pane'.reading = pane.reading /\ pane'.allRead = pane.allRead
        /\ (Settled' <=> Settled)
    BY <1>0, <1>5, <2>1, PollFacts DEF Settled
  <2>4. CASE check.running # {}
    <3>1. update' = [at |-> "asked", newest |-> TRUE, ids |-> check.running, status |-> [e \in Executions |-> "-"]]
      BY <2>1, <2>4 DEF NoUpdate
    <3>2. update' \in Updates
      <4>1. [e \in Executions |-> "-"] \in [Executions -> Shows \cup {"-"}]
        OBVIOUS
      <4> QED BY <2>2, <3>1, <4>1 DEF Updates
    <3>3. Asked' /\ Settling'
      BY <1>0, <1>1, <2>1, <2>2, <3>1, PollFacts DEF Asked, Settling, Covered
    <3> QED
      BY <1>0, <1>1, <1>2, <2>1, <2>2, <2>3, <3>1, <3>2, <3>3, PollFacts, PollPart
  <2>5. CASE check.running = {}
    <3>1. update' = update /\ RunningRows = {}
      BY <2>1, <2>2, <2>5
    <3>2. Asked'
      BY <1>0, <1>1, <3>1, PollFacts DEF PaneInv, Asked
    <3>3. Settling'
      <4>1. update.at = "read" /\ update.newest => \A e \in ShownRows : update.status[e] # "running"
        BY <3>1 DEF PaneInv, Asked, RunningRows
      <4> QED BY <1>0, <2>1, <2>2, <3>1, <4>1, PollFacts DEF Settling
    <3> QED
      BY <1>0, <1>1, <1>2, <2>1, <2>2, <2>3, <3>1, <3>2, <3>3, PollFacts, PollPart
  <2> QED BY <2>4, <2>5
<1> QED BY <1>3, <1>4, <1>5

\* The rows said to run are read.
LEMMA RowsReadKeeps ==
  ASSUME PaneInv, RowsRead
  PROVE  PaneInv'
<1>0. /\ update.at = "asked"
      /\ update' = [update EXCEPT !.at = "read", !.status = [e \in Executions |-> IF e \in update.ids \cap Stored THEN Status(e) ELSE "-"]]
      /\ UNCHANGED <<history, holder, told, pane, rows, marks, page, check, deletion, actions, removed, moved, missed>>
  BY DEF RowsRead
<1>1. history \in [Executions -> {"none", "running", "over", "gone"}] /\ update \in Updates
  BY DEF PaneInv, PaneTypeOK
<1>2. \A e \in Stored : Status(e) \in Shows /\ Known(e, Status(e)) /\ (Status(e) = "running" => history[e] = "running" /\ holder # "free")
  BY <1>1 DEF Stored, Status, Shows, Known
<1>3. PICK status \in [Executions -> Shows \cup {"-"}] :
         /\ status = [e \in Executions |-> IF e \in update.ids \cap Stored THEN Status(e) ELSE "-"]
         /\ \A e \in Executions : status[e] = IF e \in update.ids \cap Stored THEN Status(e) ELSE "-"
  <2> DEFINE answer == [e \in Executions |-> IF e \in update.ids \cap Stored THEN Status(e) ELSE "-"]
  <2>1. answer \in [Executions -> Shows \cup {"-"}]
    BY <1>2
  <2>2. \A e \in Executions : answer[e] = IF e \in update.ids \cap Stored THEN Status(e) ELSE "-"
    OBVIOUS
  <2> QED BY <2>1, <2>2
<1>4. update' = [update EXCEPT !.at = "read", !.status = status]
  BY <1>0, <1>3
<1>5. update' \in Updates /\ update'.at = "read" /\ update'.ids = update.ids /\ update'.newest = update.newest /\ update'.status = status
  BY <1>1, <1>4 DEF Updates
<1>6. \A e \in Executions : /\ status[e] # "-" => Known(e, status[e])
                            /\ status[e] = "-" => e \notin update.ids \/ history[e] = "gone"
  <2>1. \A e \in update.ids : history[e] # "none"
    BY <1>0, PollFacts
  <2>2. \A e \in Executions : e \notin Stored => history[e] \in {"none", "gone"}
    BY <1>1 DEF Stored
  <2>3. \A e \in Stored : Status(e) # "-"
    BY <1>2 DEF Shows
  <2> QED BY <1>2, <1>3, <2>1, <2>2, <2>3
<1>7. Asked'
  <2>1. ASSUME NEW e \in ShownRows, status[e] = "running"
        PROVE  rows[e] = "running"
    <3>1. e \in Executions /\ history[e] = "running" /\ holder # "free"
      BY <1>2, <1>3, <2>1, ExecutionSets
    <3>2. Known(e, rows[e]) /\ rows[e] \in Shows
      BY <3>1 DEF PaneInv, PaneTypeOK, AnswersTrue, ShownRows
    <3> QED BY <3>1, <3>2 DEF Known, Shows
  <2> QED BY <1>0, <1>5, <2>1, PollFacts DEF PaneInv, Asked
<1>8. Settling'
  <2>1. Settled' => Settled /\ holder = "free"
    BY <1>0 DEF Settled
  <2>2. holder = "free" => \A e \in Executions : status[e] # "running"
    BY <1>2, <1>3
  <2>3. \A e \in Executions : Covered(e) /\ holder = "free" => Covered(e)'
    BY <1>0, <1>5, <2>2 DEF Covered
  <2>4. RunningRows \in SUBSET Executions
    BY ExecutionSets
  <2> QED
    BY <1>0, <1>5, <2>1, <2>2, <2>3, <2>4, PollFacts DEF PaneInv, Settling
<1>9. /\ pane' \in Panes /\ pane'.filter = pane.filter /\ pane'.reading = pane.reading /\ pane'.allRead = pane.allRead
      /\ missed' \in BOOLEAN /\ check' \in Checks
  BY <1>0, PollFacts
<1> QED
  BY <1>0, <1>5, <1>6, <1>7, <1>8, <1>9, PollFacts, PollPart

\* The answer is shown, in the rows that still are.
LEMMA UpdateRowsKeeps ==
  ASSUME PaneInv, UpdateRows
  PROVE  PaneInv'
<1>0. /\ update.at = "read" /\ update' = NoUpdate /\ missed' = (missed \/ ~update.newest)
      /\ rows' = [e \in Executions |-> IF update.newest /\ e \in ShownRows /\ update.status[e] # "-" THEN update.status[e] ELSE rows[e]]
      /\ UNCHANGED <<history, holder, told, pane, marks, page, check, deletion, actions, removed, moved>>
  BY DEF UpdateRows
<1>1. update \in Updates /\ rows \in [Executions -> Shows \cup {"-"}] /\ update.status \in [Executions -> Shows \cup {"-"}] /\ missed' \in BOOLEAN
      /\ pane \in Panes /\ check \in Checks
  BY <1>0 DEF PaneInv, PaneTypeOK, Updates
<1>2. \A e \in Executions : rows'[e] = IF update.newest /\ e \in ShownRows /\ update.status[e] # "-" THEN update.status[e] ELSE rows[e]
  BY <1>0
<1>3. rows' \in [Executions -> Shows \cup {"-"}]
  BY <1>0, <1>1
<1>4. ShownRows' = ShownRows
  BY <1>2 DEF ShownRows
<1>5. \A e \in ShownRows : Known(e, rows'[e])
  BY <1>0, <1>2, ExecutionSets DEF PaneInv, AnswersTrue
<1>6. update' \in Updates /\ update'.at = "none"
  <2>1. [e \in Executions |-> "-"] \in [Executions -> Shows \cup {"-"}] /\ {} \in SUBSET Executions
    OBVIOUS
  <2> QED BY <1>0, <2>1 DEF NoUpdate, Updates
<1>7. RunningRows' \subseteq RunningRows /\ RunningRows \in SUBSET Executions
  BY <1>0, <1>2, <1>4, ExecutionSets DEF RunningRows, PaneInv, Asked
<1>8. Asked'
  BY <1>0, <1>6, <1>7 DEF PaneInv, Asked
<1>9. Settling'
  <2>1. ASSUME Settled', NEW e \in RunningRows', e \in Stored'
        PROVE  Covered(e)'
    <3>1. update.newest /\ Settled /\ e \in Stored
      BY <1>0, <2>1 DEF Settled, Stored
    <3>2. e \in RunningRows /\ e \in Executions /\ Covered(e) /\ page.at = "none"
      BY <1>0, <1>7, <2>1, <3>1 DEF PaneInv, Settling, AnswersTrue
    <3>3. CASE check.at # "none"
      BY <1>0, <3>3 DEF Covered
    <3>4. CASE check.at = "none"
      <4>1. e \in update.ids /\ update.status[e] # "running"
        BY <1>0, <3>1, <3>2, <3>4 DEF Covered
      <4>2. update.status[e] # "-"
        BY <1>0, <3>1, <3>2, <4>1 DEF PaneInv, AnswersTrue, Stored
      <4>3. rows'[e] # "running"
        BY <1>2, <3>1, <3>2, <4>1, <4>2 DEF RunningRows
      <4> QED BY <2>1, <4>3 DEF RunningRows
    <3> QED BY <3>3, <3>4
  <2>2. Settled' => page'.at # "read"
    BY <1>0 DEF Settled, PaneInv, AnswersTrue
  <2> QED BY <1>6, <2>1, <2>2 DEF Settling
<1>10. /\ check'.at # "none" => \A e \in check'.running : history[e] # "none"
       /\ (check'.at # "none" /\ check'.newest) => page.at = "none"
       /\ check' \in Checks /\ pane' \in Panes /\ pane'.filter = pane.filter /\ pane'.reading = pane.reading /\ pane'.allRead = pane.allRead
  BY <1>0, <1>1 DEF PaneInv, AnswersTrue
<1> QED
  BY <1>0, <1>1, <1>3, <1>4, <1>5, <1>6, <1>8, <1>9, <1>10, PollPart

RowsIn(S, above, limit) == {PageRows(S, above, limit)[i] : i \in DOMAIN PageRows(S, above, limit)}

\* A page below the rows goes on where they end, unless so many began that it lies above them.
LEMMA PageUnbroken ==
  ASSUME NEW S \in SUBSET Executions, NEW shown \in SUBSET S, NEW limit \in Nat, limit > 0,
         \A e \in S \ shown : (\A d \in shown : d < e) \/ (\A d \in shown : d > e)
  PROVE  \/ /\ Cardinality(shown) > 0 /\ PageRows(S, Cardinality(shown), limit) # <<>>
            /\ \A i \in DOMAIN PageRows(S, Cardinality(shown), limit) : \A d \in shown : PageRows(S, Cardinality(shown), limit)[i] > d
         \/ \A e \in S \ (shown \cup RowsIn(S, Cardinality(shown), limit)) :
               \/ \A d \in shown \cup RowsIn(S, Cardinality(shown), limit) : d < e
               \/ Len(PageRows(S, Cardinality(shown), limit)) = limit /\ \A d \in shown \cup RowsIn(S, Cardinality(shown), limit) : d > e
<1> DEFINE above == Cardinality(shown)
           last == PageEnd(S, above, limit)
           list == PageRows(S, above, limit)
           set == {list[i] : i \in DOMAIN list}
           rank(e) == Cardinality(NoOlder(S, e))
<1>1. S \in SUBSET Nat /\ IsFiniteSet(S) /\ shown \in SUBSET Executions /\ IsFiniteSet(shown) /\ above \in Nat
  BY ExecutionSets
<1>2. /\ list \in Seq(S) /\ Len(NewestFirst(S)) = Cardinality(S) /\ Cardinality(S) \in Nat
      /\ Len(list) = (IF above + 1 <= last THEN last - above ELSE 0)
      /\ \A i \in DOMAIN list : list[i] \in S /\ rank(list[i]) = above + i
      /\ \A e \in S : rank(e) \in (above + 1) .. last => \E i \in DOMAIN list : list[i] = e
  <2>1. Cardinality(S) \in Nat
    BY ExecutionSets
  <2>2. above \in Nat
    BY <1>1
  <2> HIDE DEF above
  <2>3. /\ list \in Seq(S) /\ Len(NewestFirst(S)) = Cardinality(S)
        /\ Len(list) = (IF above + 1 <= last THEN last - above ELSE 0)
        /\ \A i \in DOMAIN list : list[i] \in S /\ Cardinality(NoOlder(S, list[i])) = above + i
        /\ \A e \in S : Cardinality(NoOlder(S, e)) \in (above + 1) .. last => \E i \in DOMAIN list : list[i] = e
    BY <2>2, PageOfList
  <2> QED BY <2>1, <2>3
<1>3. /\ \A e \in S : rank(e) \in 1 .. Cardinality(S)
      /\ \A d, e \in S : d < e => rank(e) < rank(d)
  BY <1>1, Ranked
<1>4. ASSUME NEW e \in S \ shown, \A d \in shown : d > e
      PROVE  rank(e) >= above + 1
  <2>1. e \in NoOlder(S, e) /\ shown \subseteq NoOlder(S, e) /\ NoOlder(S, e) \subseteq S
    BY <1>1, <1>4 DEF NoOlder
  <2>2. IsFiniteSet(shown \cup {e}) /\ Cardinality(shown \cup {e}) = above + 1
    BY <1>1, FS_AddElement
  <2>3. IsFiniteSet(NoOlder(S, e)) /\ shown \cup {e} \subseteq NoOlder(S, e)
    BY <1>1, <2>1, FS_Subset
  <2>4. Cardinality(shown \cup {e}) <= Cardinality(NoOlder(S, e))
    BY <2>3, FS_Subset
  <2> QED BY <2>2, <2>4
<1>5. DOMAIN list = 1 .. Len(list) /\ last \in Nat /\ last <= Cardinality(S) /\ last <= above + limit
      /\ (last < Cardinality(S) => last = above + limit)
  <2>1. last = IF Cardinality(S) < above + limit THEN Cardinality(S) ELSE above + limit
    BY <1>2 DEF PageEnd
  <2> HIDE DEF last, list
  <2> QED BY <1>1, <1>2, <2>1
<1> HIDE DEF above, last, list, rank
<1>6. SUFFICES ASSUME ~(above > 0 /\ list # <<>> /\ \A i \in DOMAIN list : \A d \in shown : list[i] > d),
                      NEW e \in S \ (shown \cup set)
               PROVE  (\A d \in shown \cup set : d < e) \/ (Len(list) = limit /\ \A d \in shown \cup set : d > e)
  BY DEF above, last, list, RowsIn
<1>7. rank(e) \in 1 .. Cardinality(S) /\ rank(e) \notin (above + 1) .. last /\ e \in S \ shown /\ \A i \in DOMAIN list : e # list[i]
  BY <1>2, <1>3, <1>6
<1>8. ASSUME NEW i \in DOMAIN list
      PROVE  /\ list[i] \in Nat /\ e \in Nat /\ i \in Nat /\ i >= 1 /\ i <= Len(list) /\ Len(list) \in Nat
             /\ above + i < rank(e) => list[i] > e
             /\ above + i > rank(e) => list[i] < e
  <2>1. list[i] \in S /\ rank(list[i]) = above + i /\ e \in S /\ e # list[i]
    BY <1>2, <1>7
  <2>2. list[i] \in Nat /\ e \in Nat /\ i \in Nat /\ i >= 1 /\ i <= Len(list) /\ Len(list) \in Nat
    <3>1. i \in 1 .. Len(list) /\ Len(list) \in Nat
      BY <1>2, <1>5
    <3>2. i \in Nat /\ i >= 1 /\ i <= Len(list) /\ Len(list) \in Nat
      BY <3>1
    <3>3. list[i] \in Nat /\ e \in Nat
      BY <1>1, <2>1
    <3> QED BY <3>2, <3>3
  <2>3. /\ list[i] < e => rank(e) < above + i
        /\ e < list[i] => above + i < rank(e)
    BY <1>3, <2>1
  <2>4. PICK r \in Nat : r = rank(e)
    BY <1>2, <1>7
  <2> QED BY <1>1, <2>1, <2>2, <2>3, <2>4
<1>9. CASE rank(e) > last
  <2>1. last = above + limit /\ Len(list) = limit
    BY <1>1, <1>2, <1>5, <1>7, <1>9
  <2>2. ASSUME NEW i \in DOMAIN list
        PROVE  list[i] > e
    BY <1>1, <1>7, <1>8, <1>9, <2>1, <2>2
  <2>3. list # <<>> /\ 1 \in DOMAIN list
    BY <1>5, <2>1
  <2>4. CASE \A d \in shown : d > e
    BY <2>1, <2>2, <2>4
  <2>5. CASE ~ \A d \in shown : d > e
    <3>1. \A d \in shown : d < e
      BY <1>7, <2>5
    <3>2. above > 0
      <4>1. shown # {} /\ above # 0
        BY <1>1, <2>5, FS_EmptySet DEF above
      <4> QED BY <1>1, <4>1
    <3>3. \A i \in DOMAIN list : \A d \in shown : list[i] > d
      <4>1. \A d \in shown : d \in Nat
        BY <1>1
      <4> QED BY <1>8, <2>2, <3>1, <4>1
    <3> QED BY <1>6, <2>3, <3>2, <3>3
  <2> QED BY <2>4, <2>5
<1>10. CASE ~(rank(e) > last)
  <2>1. rank(e) <= above
    BY <1>1, <1>5, <1>7, <1>10
  <2>2. ASSUME NEW i \in DOMAIN list
        PROVE  list[i] < e
    BY <1>1, <1>7, <1>8, <2>1, <2>2
  <2>3. ~ \A d \in shown : d > e
    <3>1. SUFFICES ASSUME \A d \in shown : d > e
                   PROVE  FALSE
      OBVIOUS
    <3>2. rank(e) >= above + 1
      BY <1>4, <1>7, <3>1
    <3>3. PICK r \in Int : r = rank(e)
      BY <1>2, <1>7
    <3> QED BY <1>1, <2>1, <3>2, <3>3
  <2>4. \A d \in shown : d < e
    BY <1>7, <2>3
  <2> QED BY <2>2, <2>4
<1> QED BY <1>9, <1>10

\* The store is read.
LEMMA ReadPageKeeps ==
  ASSUME PaneInv, ReadPage
  PROVE  PaneInv'
<1> DEFINE S == Matching(page.filter)
           rowsRead == PageRows(S, page.offset, page.limit)
           list == [i \in DOMAIN rowsRead |-> <<rowsRead[i], Status(rowsRead[i])>>]
           complete == Len(rowsRead) < page.limit
           overtaken == page.offset > 0 /\ rowsRead # <<>> /\ \A i \in DOMAIN rowsRead : \A d \in ShownRows : rowsRead[i] > d
<1>0. /\ PaneTypeOK /\ page.at = "asked"
      /\ page' = [page EXCEPT !.at = "read", !.list = [i \in DOMAIN rowsRead |-> <<rowsRead[i], Status(rowsRead[i])>>], !.complete = Len(rowsRead) < page.limit]
      /\ moved' = (moved \ {"page"}) \cup (IF overtaken THEN {"rows"} ELSE {})
      /\ UNCHANGED <<history, holder, told, pane, rows, marks, check, update, deletion, actions, removed, missed>>
  BY DEF PaneInv, ReadPage, Listing, PageRows, PageEnd
<1>1. page \in Pages /\ page.offset \in Nat /\ page.limit \in Nat /\ page.limit > 0 /\ page.filter = pane.filter
  BY <1>0 DEF PaneInv, PaneTypeOK, Pages, AnswersTrue
<1>2. S \in SUBSET Stored /\ S \in SUBSET Executions /\ ShownRows \in SUBSET Executions
  BY ExecutionSets
<1>3. rowsRead \in Seq(S) /\ Len(rowsRead) \in Nat /\ DOMAIN rowsRead = 1 .. Len(rowsRead)
  <2>1. rowsRead \in Seq(S)
    BY <1>1, <1>2, PageOfList
  <2> QED BY <2>1
<1> HIDE DEF S, rowsRead, overtaken
<1>4. \A e \in Stored : Status(e) \in Shows /\ Known(e, Status(e)) /\ (Status(e) = "running" => holder # "free")
  BY <1>0 DEF PaneTypeOK, Stored, Status, Shows, Known
<1>6. page' = [page EXCEPT !.at = "read", !.list = list, !.complete = complete]
  BY <1>0
<1>7. list \in Seq(Executions \X Shows) /\ DOMAIN list = DOMAIN rowsRead /\ \A i \in DOMAIN list : list[i] = <<rowsRead[i], Status(rowsRead[i])>>
  <2>1. \A i \in 1 .. Len(rowsRead) : rowsRead[i] \in Executions /\ rowsRead[i] \in Stored
    BY <1>2, <1>3
  <2>2. list \in [1 .. Len(rowsRead) -> Executions \X Shows]
    BY <1>3, <1>4, <2>1
  <2> QED BY <1>3, <2>2
<1> HIDE DEF list
<1>8. /\ page' \in Pages /\ page'.at = "read" /\ page'.list = list /\ page'.complete = complete
      /\ page'.filter = page.filter /\ page'.offset = page.offset /\ page'.limit = page.limit
  <2>1. ASSUME NEW all \in BOOLEAN, page' = [page EXCEPT !.at = "read", !.list = list, !.complete = all]
        PROVE  /\ page' \in Pages /\ page'.at = "read" /\ page'.list = list /\ page'.complete = all
               /\ page'.filter = page.filter /\ page'.offset = page.offset /\ page'.limit = page.limit
    BY <1>1, <1>7, <2>1 DEF Pages
  <2>2. complete \in BOOLEAN
    OBVIOUS
  <2> HIDE DEF complete
  <2> QED BY <1>6, <2>1, <2>2
<1>9. \A i \in DOMAIN list : list[i][1] = rowsRead[i] /\ list[i][1] \in Stored /\ list[i][2] = Status(list[i][1])
  BY <1>2, <1>3, <1>7
<1>10. Numbers(list) = {rowsRead[i] : i \in DOMAIN rowsRead} /\ Numbers(list) \in SUBSET Stored
  BY <1>7, <1>9 DEF Numbers
<1>11. PaneTypeOK'
  BY <1>0, <1>8 DEF PaneTypeOK
<1>12. Numbered'
  BY <1>0 DEF PaneInv, Numbered
<1>13. ShownRows' = ShownRows /\ RunningRows' = RunningRows /\ Stored' = Stored /\ Matching(pane.filter)' = S
  BY <1>0, <1>1 DEF ShownRows, RunningRows, Stored, Matching, S
<1>14. AnswersTrue'
  <2>1. \A e, status : Known(e, status)' <=> Known(e, status)
    BY <1>0, StoreSame
  <2>2. \A i \in DOMAIN list : Known(list[i][1], list[i][2])
    BY <1>4, <1>9
  <2> QED BY <1>0, <1>8, <1>13, <2>1, <2>2 DEF PaneInv, AnswersTrue
<1>15. Removed'
  <2>1. Numbers(page'.list) \cap removed' = {}
    BY <1>0, <1>8, <1>10 DEF PaneInv, Removed, Stored
  <2> QED BY <1>0, <1>13, <2>1 DEF PaneInv, Removed, NoGhosts
<1>16. Asked'
  BY <1>0, <1>13 DEF PaneInv, Asked
<1>17. Settling'
  <2>1. (Settled' => Settled) /\ (Settled => holder = "free") /\ (\A e : Covered(e) => Covered(e)')
    BY <1>0, <1>8 DEF Settled, Covered
  <2>2. holder = "free" => \A i \in DOMAIN list : list[i][2] # "running"
    BY <1>4, <1>9
  <2> QED BY <1>0, <1>8, <1>13, <2>1, <2>2 DEF PaneInv, Settling
<1>18. Pieces'
  <2>1. "page" \notin moved' /\ ("rows" \notin moved' => "rows" \notin moved /\ ~overtaken)
    BY <1>0
  <2>2. "rows" \notin moved' => Unbroken(ShownRows, pane.allRead)'
    BY <1>0, <2>1, PieceStays DEF PaneInv, Pieces, Unbroken
  <2>3. ASSUME NEW shown \in SUBSET S, page.offset = Cardinality(shown),
               \A e \in S \ shown : (\A d \in shown : d < e) \/ (\A d \in shown : d > e),
               ~(page.offset > 0 /\ rowsRead # <<>> /\ \A i \in DOMAIN rowsRead : \A d \in shown : rowsRead[i] > d)
        PROVE  /\ shown \cup Numbers(list) \subseteq S
               /\ \A e \in S \ (shown \cup Numbers(list)) :
                     (\A d \in shown \cup Numbers(list) : d < e) \/ (~complete /\ \A d \in shown \cup Numbers(list) : d > e)
    <3>1. Numbers(list) \in SUBSET S
      BY <1>3, <1>10
    <3>2. \A e \in S \ (shown \cup {rowsRead[i] : i \in DOMAIN rowsRead}) :
             \/ \A d \in shown \cup {rowsRead[i] : i \in DOMAIN rowsRead} : d < e
             \/ Len(rowsRead) = page.limit /\ \A d \in shown \cup {rowsRead[i] : i \in DOMAIN rowsRead} : d > e
      <4>1. rowsRead = PageRows(S, Cardinality(shown), page.limit)
        BY <2>3 DEF rowsRead
      <4>2. ~(Cardinality(shown) > 0 /\ rowsRead # <<>> /\ \A i \in DOMAIN rowsRead : \A d \in shown : rowsRead[i] > d)
        BY <2>3
      <4>3. RowsIn(S, Cardinality(shown), page.limit) = {rowsRead[i] : i \in DOMAIN rowsRead}
        BY <4>1 DEF RowsIn
      <4>4. \/ /\ Cardinality(shown) > 0 /\ PageRows(S, Cardinality(shown), page.limit) # <<>>
               /\ \A i \in DOMAIN PageRows(S, Cardinality(shown), page.limit) : \A d \in shown : PageRows(S, Cardinality(shown), page.limit)[i] > d
            \/ \A e \in S \ (shown \cup RowsIn(S, Cardinality(shown), page.limit)) :
                  \/ \A d \in shown \cup RowsIn(S, Cardinality(shown), page.limit) : d < e
                  \/ /\ Len(PageRows(S, Cardinality(shown), page.limit)) = page.limit
                     /\ \A d \in shown \cup RowsIn(S, Cardinality(shown), page.limit) : d > e
        <5>1. S \in SUBSET Executions /\ page.limit \in Nat /\ page.limit > 0
          BY <1>1, <1>2
        <5> QED BY <2>3, <5>1, PageUnbroken
      <4>5. \A e \in S \ (shown \cup RowsIn(S, Cardinality(shown), page.limit)) :
                  \/ \A d \in shown \cup RowsIn(S, Cardinality(shown), page.limit) : d < e
                  \/ /\ Len(rowsRead) = page.limit
                     /\ \A d \in shown \cup RowsIn(S, Cardinality(shown), page.limit) : d > e
        BY <4>1, <4>2, <4>4
      <4> QED BY <4>3, <4>5
    <3>3. Len(rowsRead) = page.limit => ~complete
      BY <1>1, <1>3
    <3> QED BY <1>10, <3>1, <3>2, <3>3
  <2>4. page.offset = 0 => Unbroken(Numbers(page.list), page.complete)'
    <3>1. SUFFICES ASSUME page.offset = 0
                   PROVE  Unbroken(Numbers(page.list), page.complete)'
      OBVIOUS
    <3>2. {} \in SUBSET S /\ page.offset = Cardinality({})
      BY <3>1, FS_EmptySet
    <3>3. {} \cup Numbers(list) = Numbers(list) /\ Numbers(page.list)' = Numbers(list)
      BY <1>8 DEF Numbers
    <3>4. /\ {} \cup Numbers(list) \subseteq S
          /\ \A e \in S \ ({} \cup Numbers(list)) :
                (\A d \in {} \cup Numbers(list) : d < e) \/ (~complete /\ \A d \in {} \cup Numbers(list) : d > e)
      BY <2>3, <3>1, <3>2
    <3> QED BY <1>8, <1>13, <3>3, <3>4 DEF Unbroken
  <2>5. page.offset > 0 /\ "rows" \notin moved' => Unbroken(ShownRows \cup Numbers(page.list), page.complete)'
    <3>1. SUFFICES ASSUME page.offset > 0, "rows" \notin moved'
                   PROVE  Unbroken(ShownRows \cup Numbers(page.list), page.complete)'
      OBVIOUS
    <3>2. page.offset = Cardinality(ShownRows)
      BY <1>0, <3>1 DEF PaneInv, AnswersTrue
    <3>3. ShownRows \in SUBSET S /\ (\A e \in S \ ShownRows : (\A d \in ShownRows : d < e) \/ (\A d \in ShownRows : d > e))
      BY <1>1, <2>1, <3>1 DEF PaneInv, Pieces, Unbroken, S
    <3>4. Numbers(page.list)' = Numbers(list)
      BY <1>8 DEF Numbers
    <3>5. ~overtaken
      BY <2>1, <3>1
    <3>6. /\ ShownRows \cup Numbers(list) \subseteq S
          /\ \A e \in S \ (ShownRows \cup Numbers(list)) :
                (\A d \in ShownRows \cup Numbers(list) : d < e) \/ (~complete /\ \A d \in ShownRows \cup Numbers(list) : d > e)
      BY <2>3, <3>2, <3>3, <3>5 DEF overtaken
    <3> QED BY <1>8, <1>13, <3>4, <3>6 DEF Unbroken
  <2> QED BY <1>8, <2>1, <2>2, <2>4, <2>5 DEF Pieces
<1> QED
  BY <1>11, <1>12, <1>14, <1>15, <1>16, <1>17, <1>18 DEF PaneInv

\* A page is shown: instead of the rows, or below them.
LEMMA ShowPageKeeps ==
  ASSUME PaneInv, ShowPage
  PROVE  PaneInv'
<1> DEFINE kept == IF page.offset = 0 THEN {} ELSE ShownRows
           nums == Numbers(page.list)
           said(e) == (CHOOSE r \in Range(page.list) : r[1] = e)[2]
<1>0. /\ PaneTypeOK /\ page.at = "read"
      /\ rows' = [e \in Executions |-> IF e \in kept THEN rows[e] ELSE IF e \in nums THEN said(e) ELSE "-"]
      /\ pane' = [pane EXCEPT !.reading = FALSE, !.allRead = page.complete]
      /\ marks' = IF page.offset = 0 THEN marks \cap nums ELSE marks
      /\ moved' = IF page.offset = 0 THEN (IF "page" \in moved THEN {"rows"} ELSE {}) ELSE moved \ {"page"}
      /\ page' = NoPage
      /\ UNCHANGED <<history, holder, told, check, update, deletion, actions, removed, missed>>
  BY DEF PaneInv, ShowPage
<1>1. /\ page \in Pages /\ page.list \in Seq(Executions \X Shows) /\ page.complete \in BOOLEAN /\ pane \in Panes /\ page.offset \in Nat
      /\ rows \in [Executions -> Shows \cup {"-"}] /\ ShownRows \in SUBSET Executions
  BY <1>0, ExecutionSets DEF PaneTypeOK, Pages
<1>2. /\ pane' \in Panes /\ pane'.reading = FALSE /\ pane'.allRead = page.complete /\ pane'.filter = pane.filter
      /\ pane'.busy = pane.busy /\ pane'.other = pane.other
  BY <1>0, <1>1 DEF Panes
<1>3. page' \in Pages /\ page'.at = "none"
  <2>1. <<>> \in Seq(Executions \X Shows)
    OBVIOUS
  <2> QED BY <1>0, <2>1 DEF NoPage, Pages
<1>4. \A i \in DOMAIN page.list : page.list[i][1] \in Executions /\ page.list[i][2] \in Shows /\ Known(page.list[i][1], page.list[i][2])
  BY <1>0, <1>1 DEF PaneInv, AnswersTrue
<1>5. nums \in SUBSET Executions
  BY <1>4 DEF Numbers
<1>6. \A e \in nums : \E i \in DOMAIN page.list : page.list[i][1] = e /\ said(e) = page.list[i][2]
  <2>1. SUFFICES ASSUME NEW e \in nums
                 PROVE  \E i \in DOMAIN page.list : page.list[i][1] = e /\ said(e) = page.list[i][2]
    OBVIOUS
  <2>2. \E r \in Range(page.list) : r[1] = e
    BY <2>1 DEF Numbers, Range
  <2>3. PICK r \in Range(page.list) : r[1] = e /\ said(e) = r[2]
    BY <2>2
  <2> QED BY <2>3 DEF Range
<1>7. \A e \in nums : said(e) \in Shows /\ Known(e, said(e))
  BY <1>4, <1>6
<1> HIDE DEF said
<1>8. \A e \in Executions : rows'[e] = IF e \in kept THEN rows[e] ELSE IF e \in nums THEN said(e) ELSE "-"
  BY <1>0
<1>9. rows' \in [Executions -> Shows \cup {"-"}]
  BY <1>0, <1>1, <1>7
<1>10. ShownRows' = kept \cup nums /\ kept \in SUBSET ShownRows
  <2>1. kept \in SUBSET ShownRows /\ \A e \in kept : rows[e] # "-"
    BY DEF ShownRows
  <2>2. \A e \in nums : said(e) # "-"
    BY <1>7 DEF Shows
  <2> HIDE DEF kept, nums
  <2> QED BY <1>1, <1>5, <1>8, <2>1, <2>2 DEF ShownRows
<1>11. PaneTypeOK'
  <2>1. marks' \in SUBSET Executions /\ moved' \in SUBSET {"rows", "page"}
    BY <1>0 DEF PaneTypeOK
  <2> QED BY <1>0, <1>2, <1>3, <1>9, <2>1 DEF PaneTypeOK
<1>12. Numbered'
  BY <1>0 DEF PaneInv, Numbered
<1>13. Stored' = Stored /\ Matching(pane.filter)' = Matching(pane.filter) /\ \A e, status : Known(e, status)' <=> Known(e, status)
  BY <1>0, <1>2 DEF Stored, Matching, Known
<1>14. /\ check.at # "none" => ~check.newest
       /\ update.at # "none" => ~update.newest
  BY <1>0 DEF PaneInv, AnswersTrue
<1>15. AnswersTrue'
  <2>1. \A e \in ShownRows' : Known(e, rows'[e])
    <3>1. \A e \in kept : Known(e, rows[e])
      BY DEF PaneInv, AnswersTrue
    <3> QED BY <1>1, <1>5, <1>7, <1>8, <1>10, <3>1
  <2> QED BY <1>0, <1>2, <1>3, <1>13, <1>14, <2>1 DEF PaneInv, AnswersTrue
<1>16. Removed'
  <2>1. removed' \cap ShownRows' = {}
    BY <1>0, <1>10 DEF PaneInv, Removed, NoGhosts
  <2>2. marks' \subseteq ShownRows'
    BY <1>0, <1>10 DEF PaneInv, Removed, NoGhosts
  <2> QED BY <1>0, <1>3, <2>1, <2>2 DEF PaneInv, Removed, NoGhosts
<1>17. Asked'
  BY <1>0, <1>14 DEF Asked
<1>18. Settling'
  <2>1. Settled' => Settled
    BY <1>0, <1>2 DEF Settled
  <2>2. ASSUME Settled, NEW e \in RunningRows', e \in Stored
        PROVE  Covered(e)'
    <3>1. e \in Executions /\ rows'[e] = "running" /\ (e \in kept \/ e \in nums)
      BY <1>1, <1>5, <1>10, <2>2 DEF RunningRows
    <3>2. e \in kept
      <4>1. SUFFICES ASSUME e \notin kept
                     PROVE  FALSE
        OBVIOUS
      <4>2. e \in nums /\ said(e) = "running"
        BY <1>8, <3>1, <4>1
      <4> QED BY <1>0, <1>6, <2>2, <4>2 DEF PaneInv, Settling
    <3>3. e \in RunningRows /\ page.offset # 0
      BY <1>8, <3>1, <3>2 DEF RunningRows
    <3>4. Covered(e)
      BY <2>2, <3>3 DEF PaneInv, Settling
    <3> QED BY <1>0, <3>3, <3>4 DEF Covered
  <2> QED BY <1>0, <1>3, <1>13, <1>14, <2>1, <2>2 DEF Settling
<1>19. Pieces'
  <2>1. ASSUME "rows" \notin moved'
        PROVE  Unbroken(kept \cup nums, page.complete)
    <3>1. CASE page.offset = 0
      <4>1. "page" \notin moved /\ kept \cup nums = nums
        BY <1>0, <2>1, <3>1
      <4> QED BY <1>0, <3>1, <4>1 DEF PaneInv, Pieces
    <3>2. CASE page.offset # 0
      <4>1. "rows" \notin moved /\ page.offset > 0 /\ kept = ShownRows
        BY <1>0, <1>1, <2>1, <3>2
      <4>2. "page" \notin moved
        BY <1>0, <4>1 DEF PaneInv, Pieces
      <4> QED BY <1>0, <4>1, <4>2 DEF PaneInv, Pieces
    <3> QED BY <3>1, <3>2
  <2>2. "rows" \notin moved' => Unbroken(ShownRows, pane.allRead)'
    BY <1>2, <1>10, <1>13, <2>1 DEF Unbroken
  <2> QED BY <1>3, <2>2 DEF Pieces
<1> QED
  BY <1>11, <1>12, <1>15, <1>16, <1>17, <1>18, <1>19 DEF PaneInv

\* An empty pane over what was stored before.
LEMMA PaneStarts ==
  ASSUME PaneInit
  PROVE  PaneInv
<1>0. Executions \in SUBSET Nat /\ N \in Nat
  BY ExecutionSets, PaneAssumption
<1>1. history = [e \in Executions |-> IF e < N THEN "over" ELSE "none"] /\ rows = [e \in Executions |-> "-"] /\ ShownRows = {} /\ RunningRows = {}
  BY DEF PaneInit, ShownRows, RunningRows
<1>2. PaneTypeOK
  <2>1. page \in Pages /\ check \in Checks /\ update \in Updates /\ deletion \in Deletions
    <3>1. <<>> \in Seq(Executions \X Shows) /\ <<>> \in Seq(Executions) /\ {} \in SUBSET Executions
          /\ [e \in Executions |-> "-"] \in [Executions -> Shows \cup {"-"}]
      OBVIOUS
    <3> QED BY <3>1 DEF PaneInit, NoPage, NoCheck, NoUpdate, NoDeletion, Pages, Checks, Updates, Deletions
  <2>2. pane \in Panes
    BY DEF PaneInit, Panes
  <2>3. history \in [Executions -> {"none", "running", "over", "gone"}] /\ rows \in [Executions -> Shows \cup {"-"}]
    BY <1>1
  <2>4. told \in Seq({"started", "ended"})
    BY DEF PaneInit
  <2> QED BY <2>1, <2>2, <2>3, <2>4 DEF PaneInit, PaneTypeOK
<1>3. Numbered
  <2>1. \A e \in Executions : history[e] = IF e < N THEN "over" ELSE "none"
    BY <1>1
  <2> QED BY <1>0, <2>1 DEF Numbered
<1>4. AnswersTrue /\ Asked /\ Removed /\ Pieces
  BY <1>1 DEF PaneInit, NoPage, NoCheck, NoUpdate, NoDeletion, AnswersTrue, Asked, Removed, NoGhosts, Pieces, Unbroken
<1>5. Settling
  BY <1>1 DEF PaneInit, NoPage, NoCheck, NoUpdate, Settling
<1> QED
  BY <1>2, <1>3, <1>4, <1>5 DEF PaneInv

\* A step that changes nothing.
LEMMA PaneStutters ==
  ASSUME PaneInv, UNCHANGED paneVars
  PROVE  PaneInv'
<1>1. UNCHANGED <<history, holder, told, pane, rows, marks, page, check, update, deletion, removed, moved, missed>>
  BY DEF paneVars
<1>2. marks' \in SUBSET ShownRows /\ deletion' \in Deletions /\ (deletion'.at = "dialog" => deletion'.todo # <<>>)
  BY <1>1 DEF PaneInv, PaneTypeOK, Removed, NoGhosts
<1> QED
  BY <1>1, <1>2, QuietKeeps

\* What the invariant says of a pane at rest.
LEMMA PaneTells ==
  ASSUME PaneInv
  PROVE  HistoryTrue
<1>0. Executions \in SUBSET Nat /\ ShownRows \in SUBSET Executions /\ (\A filter : Matching(filter) \in SUBSET Executions)
  <2>1. \A filter : Matching(filter) \in SUBSET Executions
    BY ExecutionSets
  <2> QED BY <2>1, ExecutionSets
<1>1. NothingSkipped
  BY <1>0 DEF PaneInv, Pieces, Unbroken, NothingSkipped
<1>2. NoGhosts
  BY DEF PaneInv, Removed
<1>3. RunningSettles
  <2>1. SUFFICES ASSUME Settled, ~pane.reading, check.at = "none", update.at = "none"
                 PROVE  RunningRows \cap Stored = {}
    BY DEF RunningSettles, Settled
  <2>2. page.at = "none"
    BY <2>1 DEF PaneInv, AnswersTrue
  <2> QED BY <2>1, <2>2 DEF PaneInv, Settling, Covered
<1> QED BY <1>1, <1>2, <1>3 DEF HistoryTrue

\* PaneInv holds always.
THEOREM PaneInvThm == PaneSpec => []PaneInv
<1>1. PaneInit => PaneInv
  BY PaneStarts
<1>2. PaneInv /\ [PaneNext]_paneVars => PaneInv'
  <2> SUFFICES ASSUME PaneInv, [PaneNext]_paneVars
               PROVE  PaneInv'
    OBVIOUS
  <2>1. CASE JobStarts
    BY <2>1, StartKeeps
  <2>2. CASE JobEnds
    BY <2>2, EndKeeps
  <2>3. CASE OtherDeletes
    BY <2>3, OtherDeletesKeeps
  <2>4. CASE ReadPage
    BY <2>4, ReadPageKeeps
  <2>5. CASE ShowPage
    BY <2>5, ShowPageKeeps
  <2>6. CASE ReadOn
    BY <2>6, ReadOnKeeps
  <2>7. CASE SetFilter
    BY <2>7, SetFilterKeeps
  <2>8. CASE JobEvent
    BY <2>8, JobEventKeeps
  <2>9. CASE PollHistory
    BY <2>9, PollHistoryKeeps
  <2>10. CASE FeedChanges
    BY <2>10, FeedChangesKeeps
  <2>11. CASE CheckRead
    BY <2>11, CheckReadKeeps
  <2>12. CASE AfterCheck
    BY <2>12, AfterCheckKeeps
  <2>13. CASE RowsRead
    BY <2>13, RowsReadKeeps
  <2>14. CASE UpdateRows
    BY <2>14, UpdateRowsKeeps
  <2>15. CASE Mark
    BY <2>15, MarkKeeps
  <2>16. CASE AskToDelete
    BY <2>16, AskToDeleteKeeps
  <2>17. CASE Answer
    BY <2>17, AnswerKeeps
  <2>18. CASE AnswerLost
    BY <2>18, AnswerLostKeeps
  <2>19. CASE DeletionEnds
    BY <2>19, DeletionEndsKeeps
  <2>20. CASE UNCHANGED paneVars
    BY <2>20, PaneStutters
  <2> QED
    BY <2>1, <2>2, <2>3, <2>4, <2>5, <2>6, <2>7, <2>8, <2>9, <2>10, <2>11, <2>12, <2>13, <2>14, <2>15, <2>16, <2>17, <2>18, <2>19, <2>20 DEF PaneNext
<1> QED
  BY <1>1, <1>2, PTL DEF PaneSpec

\* The rows of the History pane are the store's: nothing is skipped between two pages or left below them once all is read,
\* nothing deleted comes back, and no row runs on once its job is over and the poll has seen it (tui/panes/history.py).
THEOREM HistoryTrueThm == PaneSpec => []HistoryTrue
<1>1. PaneInv => HistoryTrue
  BY PaneTells
<1> QED
  BY <1>1, PaneInvThm, PTL

====
