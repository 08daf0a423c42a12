---------------------------- MODULE EventStream ----------------------------
(***************************************************************************)
(* The events of the server on their way to a screen: the bounded backlog  *)
(* (server/event_backlog.py), one WatchEvents call (server/grpc_service.py)*)
(* and the feed that opens it, reconnects and reseeds (tui/feed.py).       *)
(*                                                                         *)
(* The backlog keeps the events first .. nextId - 1; appending never skips *)
(* a number, so the deque of BacklogEvents is these two numbers.  A run of *)
(* the server seeds its numbers from the wall clock, so one number may be  *)
(* given to two events of different runs: `offset` is what takes a number  *)
(* of the present run to the event's place among all events there were,    *)
(* and `outputs` are the places of the run_output lines.                   *)
(*                                                                         *)
(* `seen` is what the screen knows: the places of the events it applied,   *)
(* and all those that happened before a reseed that succeeded began.       *)
(***************************************************************************)
EXTENDS Integers, Sequences

CONSTANTS
    Capacity,     \* how many events the backlog keeps (CAPACITY)
    FirstSeed,    \* the wall clock of the first start, in milliseconds
    MaxSeed,      \* bound: the latest clock a start reads
    MaxEvents,    \* bound: events of all runs together
    MaxWire,      \* messages the stream buffers before a yield waits
    MaxBreaks,    \* bound: crashes, drops, failed requests and switches
    ClockBack     \* whether numbers of an earlier run may reach the clock

\* The clock is far beyond FORCE_RESET_ID: feed.py:37.
ASSUME StreamConstants ==
    /\ Capacity \in Nat \ {0} /\ MaxWire \in Nat \ {0}
    /\ MaxEvents \in Nat /\ MaxBreaks \in Nat
    /\ FirstSeed \in Nat /\ FirstSeed >= 3 /\ MaxSeed \in Nat
    /\ ClockBack \in BOOLEAN

VARIABLES
    up,        \* whether fc serve runs
    firstKept,     \* _events[0].id, or _next_id when nothing is kept
    nextId,    \* _next_id
    offset,    \* a number of the present run minus its event's place
    outputs,   \* the places of run_output events
    count,     \* how many events there were, over all runs
    wpc,       \* where the WatchEvents call is, "none" without one
    last_id,   \* its last_id; the request's last_event_id at "start"
    from,      \* the number of the next event of its replay
    upto,      \* the number of the last one
    include_output,   \* of its request
    wire,      \* messages sent and not yet handled
    fpc,       \* where QueueFeed is
    last_event_id,    \* _last_event_id
    reopen_fresh,     \* _reopen_fresh
    connected, \* the app's feed_connected
    wants_output,     \* wants_output(verbose_level)
    mark,      \* the place of the last event when the reseed began
    seen,      \* the places of the events the screen knows
    breaks     \* how many failures there were

backlog == <<up, firstKept, nextId, offset, outputs, count>>
watch == <<wpc, last_id, from, upto, include_output>>
feed == <<fpc, last_event_id, reopen_fresh, connected, wants_output, mark>>
vars == <<backlog, watch, wire, feed, seen, breaks>>

FORCE_RESET_ID == 1

WatchPCs == {"none", "start", "since", "latest", "reset", "send", "wait"}
FeedPCs == {"connect", "open", "watching", "reseed"}
Message == [kind : {"reset", "event"}, id : Int, place : Int]

BacklogTypeOK ==
    /\ firstKept \in Nat /\ nextId \in Nat
    /\ firstKept <= nextId /\ nextId - firstKept <= Capacity
    /\ offset \in Int /\ count \in Nat

KnownTypeOK == outputs \subseteq 1..count /\ seen \subseteq 1..count

WatchTypeOK ==
    wpc \in WatchPCs /\ last_id \in Int /\ from \in Int /\ upto \in Int

WireTypeOK == wire \in Seq(Message) /\ Len(wire) <= MaxWire

FeedTypeOK ==
    fpc \in FeedPCs /\ last_event_id \in Int /\ mark \in Nat /\ breaks \in Nat

FlagTypeOK ==
    /\ up \in BOOLEAN /\ include_output \in BOOLEAN
    /\ reopen_fresh \in BOOLEAN /\ connected \in BOOLEAN
    /\ wants_output \in BOOLEAN

\* Types; the backlog never holds more than its capacity, and the screen
\* knows only events that happened.
StreamTypeOK == BacklogTypeOK /\ KnownTypeOK /\ WatchTypeOK /\ WireTypeOK
                /\ FeedTypeOK /\ FlagTypeOK
----------------------------------------------------------------------------
(* The backlog. *)

\* The clock a start may read after numbers below `after` were given out: a
\* start takes more than a millisecond, and a run gives out fewer events
\* than milliseconds pass, unless the clock was set back.
Clock(after) == {s \in FirstSeed..MaxSeed : ClockBack \/ s > after}

\* EventBacklog.__init__ in a process that starts.
StartServer ==
    /\ ~up
    /\ \E seed \in Clock(nextId) :
           /\ firstKept' = seed
           /\ nextId' = seed
           /\ offset' = seed - (count + 1)
    /\ up' = TRUE
    /\ UNCHANGED <<outputs, count, watch, wire, feed, seen, breaks>>

\* Mutant of AppendEvent: a deque without maxlen.
AppendEventUnbounded ==
    /\ up /\ count < MaxEvents
    /\ nextId' = nextId + 1
    /\ count' = count + 1
    /\ \/ outputs' = outputs
       \/ outputs' = outputs \cup {count + 1}
    /\ UNCHANGED <<up, firstKept, offset, watch, wire, feed, seen, breaks>>

\* append: the next number, the oldest event dropped when the deque is full.
AppendEvent ==
    /\ up /\ count < MaxEvents
    /\ nextId' = nextId + 1
    /\ firstKept' = IF nextId - firstKept = Capacity THEN firstKept + 1 ELSE firstKept
    /\ count' = count + 1
    /\ \/ outputs' = outputs
       \/ outputs' = outputs \cup {count + 1}
    /\ UNCHANGED <<up, offset, watch, wire, feed, seen, breaks>>

\* latest_id(): the last kept event's number, or the one before the next.
latest_id == nextId - 1

\* Mutant of Unexplained: one number too generous.
UnexplainedLate(last) == last < firstKept - 2

\* Mutant of Unexplained: an empty backlog explains every number.
UnexplainedUnlessEmpty(last) == firstKept # nextId /\ last < firstKept - 1

\* since() returns None: a number the kept events do not follow on from.
Unexplained(last) == last < firstKept - 1

Place(id) == id - offset

\* _wanted: run_output only when the request asked for it.
Wanted(id) == include_output \/ Place(id) \notin outputs
----------------------------------------------------------------------------
(* One WatchEvents call.  Appends, crashes and drops happen between any    *)
(* two of its reads of the backlog; a yield waits while the wire is full.  *)

EarlierId(a, b) == IF a < b THEN a ELSE b
LaterId(a, b) == IF a < b THEN b ELSE a

\* No call: the stream was cancelled, or its server is gone.
NoWatch ==
    /\ wpc' = "none" /\ last_id' = 0 /\ from' = 0 /\ upto' = 0
    /\ include_output' = FALSE

\* latest = backlog.latest_id(); last_id = min(request, latest), 0 apart.
WatchStart ==
    /\ wpc = "start"
    /\ wpc' = "since"
    /\ last_id' = IF last_id = 0 THEN latest_id ELSE EarlierId(last_id, latest_id)
    /\ UNCHANGED <<backlog, from, upto, include_output, wire, feed, seen,
                   breaks>>

\* Mutant of WatchSince: the replay starts with the last event itself.
WatchSinceInclusive ==
    /\ wpc = "since"
    /\ IF Unexplained(last_id)
       THEN wpc' = "latest" /\ UNCHANGED <<from, upto>>
       ELSE wpc' = "send" /\ from' = LaterId(firstKept, last_id) /\ upto' = latest_id
    /\ UNCHANGED <<backlog, last_id, include_output, wire, feed, seen,
                   breaks>>

\* replay = backlog.since(last_id): None, or the kept events after last_id.
\* last_id is never 0 here: WatchStart leaves a number near the clock or 1.
WatchSince ==
    /\ wpc = "since"
    /\ IF Unexplained(last_id)
       THEN wpc' = "latest" /\ UNCHANGED <<from, upto>>
       ELSE /\ wpc' = "send"
            /\ from' = LaterId(firstKept, last_id + 1)
            /\ upto' = latest_id
    /\ UNCHANGED <<backlog, last_id, include_output, wire, feed, seen,
                   breaks>>

\* Mutant of WatchLatest: a Reset that leaves last_id behind.
WatchLatestForgotten ==
    /\ wpc = "latest" /\ wpc' = "reset"
    /\ UNCHANGED <<backlog, last_id, from, upto, include_output, wire, feed,
                   seen, breaks>>

\* last_id = backlog.latest_id(), before the Reset is sent.
WatchLatest ==
    /\ wpc = "latest" /\ wpc' = "reset"
    /\ last_id' = latest_id
    /\ UNCHANGED <<backlog, from, upto, include_output, wire, feed, seen,
                   breaks>>

\* yield _reset_event(); continue.
WatchReset ==
    /\ wpc = "reset" /\ wpc' = "since"
    /\ Len(wire) < MaxWire
    /\ wire' = Append(wire, [kind |-> "reset", id |-> 0, place |-> Place(last_id)])
    /\ UNCHANGED <<backlog, last_id, from, upto, include_output, feed, seen,
                   breaks>>

\* for event in replay: yield it if wanted, last_id = event.id.
WatchSend ==
    /\ wpc = "send" /\ from <= upto
    /\ \/ /\ Wanted(from)
          /\ Len(wire) < MaxWire
          /\ wire' = Append(wire, [kind |-> "event", id |-> from,
                                   place |-> Place(from)])
       \/ ~Wanted(from) /\ UNCHANGED wire
    /\ last_id' = from /\ from' = from + 1
    /\ UNCHANGED <<backlog, wpc, upto, include_output, feed, seen, breaks>>

\* The replay is sent: wait_for_more, which returns with a new event or after
\* its timeout; since() is asked again either way.
WatchWait ==
    /\ \/ wpc = "send" /\ from > upto /\ wpc' = "wait"
       \/ wpc = "wait" /\ wpc' = "since"
    /\ UNCHANGED <<backlog, last_id, from, upto, include_output, wire, feed,
                   seen, breaks>>
----------------------------------------------------------------------------
(* The feed: run, _connect_once, _watch, _handle and _reseed. *)

Fail == breaks < MaxBreaks /\ breaks' = breaks + 1

\* The health check answered: the stub is made next.
HealthOK ==
    /\ fpc = "connect" /\ up /\ fpc' = "open"
    /\ UNCHANGED <<backlog, watch, wire, last_event_id, reopen_fresh, connected,
                   wants_output, mark, seen, breaks>>

\* The token cannot be read or the health check fails: the next open is
\* fresh, and run() sleeps and tries again.
HealthFails ==
    /\ fpc = "connect"
    /\ \/ ~up /\ UNCHANGED breaks
       \/ up /\ Fail
    /\ reopen_fresh' = TRUE /\ connected' = FALSE
    /\ UNCHANGED <<backlog, watch, wire, fpc, last_event_id, wants_output, mark,
                   seen>>

\* _watch: WatchEvents is called with the last number, or one that forces a
\* Reset, and with the output filter of the level at this moment.
Open ==
    /\ fpc = "open" /\ up /\ fpc' = "watching"
    /\ wpc' = "start"
    /\ last_id' = IF reopen_fresh THEN FORCE_RESET_ID ELSE last_event_id
    /\ include_output' = wants_output
    /\ UNCHANGED <<backlog, from, upto, wire, last_event_id, reopen_fresh,
                   connected, wants_output, mark, seen, breaks>>

\* _handle up to the kind: any message ends the need for a fresh open.
Handled ==
    /\ fpc = "watching" /\ wire # <<>>
    /\ reopen_fresh' = FALSE /\ connected' = TRUE
    /\ wire' = Tail(wire)
    /\ UNCHANGED <<backlog, watch, wants_output, breaks>>

\* _handle of a Reset: _reseed starts to read the state over HTTP.
HandleReset ==
    /\ Handled /\ Head(wire).kind = "reset"
    /\ fpc' = "reseed" /\ mark' = count
    /\ UNCHANGED <<last_event_id, seen>>

\* _handle of any other event.
HandleEvent ==
    /\ Handled /\ Head(wire).kind = "event"
    /\ last_event_id' = Head(wire).id
    /\ seen' = seen \cup {Head(wire).place}
    /\ UNCHANGED <<fpc, mark>>

\* _reseed has read everything: the screen shows what was true at its start,
\* or later.
ReseedDone ==
    /\ fpc = "reseed" /\ up /\ fpc' = "watching"
    /\ seen' = seen \cup 1..mark
    /\ UNCHANGED <<backlog, watch, wire, last_event_id, reopen_fresh, connected,
                   wants_output, mark, breaks>>

\* run(): the connection ended or a request raised; try again later.
Reconnect ==
    /\ fpc' = "connect" /\ connected' = FALSE
    /\ wire' = <<>>
    /\ UNCHANGED <<backlog, last_event_id, reopen_fresh, wants_output, mark,
                   seen>>

\* The server is gone: the stream ends after what was still buffered, a call
\* cannot be opened, a request of a reseed fails.
StreamEnds ==
    /\ \/ fpc = "watching" /\ wpc = "none" /\ wire = <<>>
       \/ fpc \in {"open", "reseed"} /\ ~up
    /\ Reconnect
    /\ UNCHANGED <<watch, breaks>>

\* The connection breaks, or a read of a reseed fails, with the server up.
Drop ==
    /\ fpc \in {"watching", "reseed"} /\ Fail
    /\ Reconnect
    /\ NoWatch

\* set_verbose_level across the low boundary: a connected feed is cancelled
\* and started again, which leaves feed_connected as it was.
SwitchVerbose ==
    /\ Fail
    /\ wants_output' = (wants_output = FALSE)
    /\ \/ connected /\ fpc' = "connect" /\ wire' = <<>> /\ NoWatch
       \/ ~connected /\ UNCHANGED <<fpc, watch, wire>>
    /\ UNCHANGED <<backlog, last_event_id, reopen_fresh, connected, mark, seen>>

\* The server ends at any moment; a part of what it sent still arrives.
Crash ==
    /\ up /\ Fail
    /\ up' = FALSE
    /\ NoWatch
    /\ \E n \in 0..Len(wire) : wire' = SubSeq(wire, 1, n)
    /\ UNCHANGED <<firstKept, nextId, offset, outputs, count, feed, seen>>
----------------------------------------------------------------------------
Init ==
    /\ up = FALSE /\ firstKept = 0 /\ nextId = 0 /\ offset = 0
    /\ outputs = {} /\ count = 0
    /\ wpc = "none" /\ last_id = 0 /\ from = 0 /\ upto = 0
    /\ include_output = FALSE
    /\ wire = <<>>
    /\ fpc = "connect" /\ last_event_id = FORCE_RESET_ID
    /\ reopen_fresh = TRUE /\ connected = FALSE /\ mark = 0
    /\ wants_output \in BOOLEAN
    /\ seen = {} /\ breaks = 0

WatchStep == WatchStart \/ WatchSince \/ WatchLatest \/ WatchReset
             \/ WatchSend \/ WatchWait
FeedStep == HealthOK \/ Open \/ HandleReset \/ HandleEvent \/ ReseedDone
            \/ StreamEnds

Next == StartServer \/ AppendEvent \/ WatchStep \/ FeedStep
        \/ HealthFails \/ Drop \/ SwitchVerbose \/ Crash

Spec == Init /\ [][Next]_vars

\* The event loops of the server and of the screen go on; nobody promises
\* that a server that ended is started again.
FairSpec == Spec /\ WF_vars(WatchStep) /\ WF_vars(FeedStep)
----------------------------------------------------------------------------
(* Properties. *)

\* No gap: when the screen knows an event, it knows every event before it,
\* output lines apart, whatever the backlog dropped, the stream lost and the
\* server forgot in between (grpc_service.py:35-53, event_backlog.py:47-60).
NothingMissed ==
    \A j \in seen : \A i \in (1..j) \ outputs : i \in seen

\* No event is applied twice or out of order, over reconnections and restarts
\* (event_backlog.py:28, "IDs only go up").
IdsGoUp == [][HandleEvent => Head(wire).id > last_event_id]_vars

\* Once the server stays up the screen comes to know everything, and stays
\* so (the events and the failures of a behaviour are bounded).
CaughtUp == <>[]up => <>[](\A i \in (1..count) \ outputs : i \in seen)

\* A server that stays up does not reset its reader for ever.
Settles == <>[]up => <>[](fpc = "watching")

\* The output filter of an open, connected stream is the level's: app.py:158
\* reopens the stream whenever the level crosses the low boundary.
LevelApplied ==
    connected /\ fpc = "watching" /\ wpc # "none"
        => include_output = wants_output
=============================================================================
