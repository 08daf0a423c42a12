----------------------------- MODULE TuiFollow -----------------------------
(* The TUI beside a running server: the feed's one connection and the       *)
(* reseeding a Reset asks for (tui/feed.py), the entry it follows           *)
(* (tui/live_run.py), the Queue list with its fallback on the state store   *)
(* (tui/panes/queue.py), and the requests a person makes (tui/app.py,       *)
(* tui/controller.py).  Everything in the TUI runs on one event loop; what  *)
(* interleaves are the awaits, the stream, the answers and the server.      *)
(*                                                                          *)
(* The server is here as far as the TUI sees it: one entry after another is *)
(* claimed, starts, finishes runs and ends; it may be parked, by this TUI   *)
(* or by another client; each change publishes an event, in order.          *)
EXTENDS Integers, Sequences, FiniteSets

CONSTANTS
    MaxRuns,     \* runs of an entry
    MaxEvents,   \* entries claimed, and parks asked for, together
    MaxBreaks    \* lost connections and restarts of the server, together

ASSUME FollowAssumption == MaxRuns \in Nat /\ MaxEvents \in Nat /\ MaxBreaks \in Nat

VARIABLES
    server,     \* the entry claimed last, its phase, its finished runs and its park reservation
    log,        \* the events published since the server started
    epoch,      \* which start of the server this is
    feed,       \* QueueFeed: connected, its place in the stream, _last_event_id, _reopen_fresh, the reseed under way
    app,        \* pending_queue_id, pending_park_requested
    live,       \* app.live
    refresh,    \* refresh_queue: the one request under way, "none", "asked" or "read"
    fallback,   \* read_fallback: the one read under way, "none", "newest" or, if another was shown since (read_count), "older"
    actual,     \* of the Queue list and the two reads, those that hold the entries as they are
    request,    \* park_entry or unpark_entry: the one request under way
    parks, breaks,            \* counters for the bounds
    early,      \* history: a JobStarted was heard whose claim was not, or whose entry had been seeded before
    crossed,    \* history: another client's park or unpark came between this TUI's request and its answer
    stale       \* history: a refresh failed, and nothing was read since

followVars == <<server, log, epoch, feed, app, live, refresh, fallback, actual, request, parks, breaks, early, crossed, stale>>

NoLive == [id |-> 0, runs |-> 0, park |-> FALSE, ended |-> TRUE]
NoReseed == [at |-> "none", id |-> 0, park |-> FALSE, runs |-> 0, started |-> FALSE]
NoRequest == [at |-> "none", id |-> 0, park |-> FALSE, answer |-> FALSE]

Ongoing == server.phase \in {"claimed", "started", "finished"}

FollowInit ==
    /\ server = [id |-> 0, phase |-> "ended", runs |-> 0, park |-> FALSE]
    /\ log = <<>> /\ epoch = 1
    /\ feed = [connected |-> FALSE, open |-> FALSE, place |-> 0, last |-> 0, lastEpoch |-> 0, fresh |-> TRUE, reset |-> FALSE, reseed |-> NoReseed]
    /\ app = [pending |-> 0, park |-> FALSE]
    /\ live = NoLive
    /\ refresh = "none" /\ fallback = "none" /\ actual = {"list"}
    /\ request = NoRequest
    /\ parks = 0 /\ breaks = 0
    /\ early = {} /\ crossed = FALSE /\ stale = FALSE

CanDo == server.id + parks < MaxEvents
Publish(kind, id) == log' = Append(log, [kind |-> kind, id |-> id])

---------------------------------------------------------------------------
(* The server, as it is seen from here. *)

TuiUnchanged == UNCHANGED <<epoch, feed, app, live, refresh, fallback, request, breaks, early, stale>>

ServerClaims ==
    /\ server.phase = "ended" /\ CanDo
    /\ server' = [id |-> server.id + 1, phase |-> "claimed", runs |-> 0, park |-> FALSE]
    /\ Publish("running", server.id + 1)
    /\ actual' = {}
    /\ TuiUnchanged /\ UNCHANGED <<parks, crossed>>

ServerStarts ==
    /\ server.phase = "claimed"
    /\ server' = [server EXCEPT !.phase = "started"]
    /\ Publish("JobStarted", server.id)
    /\ TuiUnchanged /\ UNCHANGED <<actual, parks, crossed>>

ServerFinishesRun ==
    /\ server.phase = "started" /\ server.runs < MaxRuns
    /\ server' = [server EXCEPT !.runs = @ + 1]
    /\ Publish("RunFinished", server.id)
    /\ TuiUnchanged /\ UNCHANGED <<actual, parks, crossed>>

\* JobFinished, then the entry's final state, unless it failed before it started.
ServerFinishes ==
    /\ server.phase = "started"
    /\ server' = [server EXCEPT !.phase = "finished"]
    /\ Publish("JobFinished", server.id)
    /\ TuiUnchanged /\ UNCHANGED <<actual, parks, crossed>>

ServerEnds ==
    /\ server.phase \in {"claimed", "finished"}
    /\ server' = [server EXCEPT !.phase = "ended", !.park = FALSE]
    /\ Publish("ended", server.id)
    /\ actual' = {}
    /\ TuiUnchanged /\ UNCHANGED <<parks, crossed>>

\* Another client parks or unparks the running entry.
OtherParks ==
    /\ Ongoing /\ server.phase # "finished" /\ CanDo
    /\ parks' = parks + 1
    /\ server' = [server EXCEPT !.park = ~@]
    /\ Publish(IF server.park THEN "unparked" ELSE "parked", server.id)
    /\ crossed' = (crossed \/ request.at # "none")
    /\ actual' = {}
    /\ TuiUnchanged

\* The server stops or dies, and starts: the entry is over, the events are gone, every connection is.
ServerRestarts ==
    /\ breaks < MaxBreaks
    /\ breaks' = breaks + 1 /\ epoch' = epoch + 1
    /\ server' = [server EXCEPT !.phase = "ended", !.park = FALSE]
    /\ log' = <<>> /\ actual' = {}
    /\ feed' = [feed EXCEPT !.open = FALSE, !.connected = FALSE, !.fresh = TRUE, !.reset = FALSE, !.reseed = NoReseed]
    /\ refresh' = "none" /\ request' = NoRequest
    /\ stale' = (stale \/ refresh # "none")
    /\ UNCHANGED <<app, live, fallback, parks, early, crossed>>

---------------------------------------------------------------------------
(* The feed. *)

\* _watch: a place the backlog still explains is continued from, any other begins with a Reset.
Connect ==
    /\ ~feed.open
    /\ \E explained \in BOOLEAN :
        LET resumes == explained /\ ~feed.fresh /\ feed.last # 0 /\ feed.lastEpoch = epoch
        IN  feed' = [feed EXCEPT !.open = TRUE, !.reset = ~resumes, !.place = IF resumes THEN feed.last ELSE Len(log)]
    /\ UNCHANGED <<server, log, epoch, app, live, refresh, fallback, actual, request, parks, breaks, early, crossed, stale>>

\* The connection is lost, the health check fails, or /verbose starts it again: what was being reseeded is given up.
Drop ==
    /\ feed.open /\ breaks < MaxBreaks
    /\ breaks' = breaks + 1
    /\ \E health \in BOOLEAN :
        feed' = [feed EXCEPT !.open = FALSE, !.connected = FALSE, !.reset = FALSE, !.reseed = NoReseed, !.fresh = feed.fresh \/ ~health]
    /\ UNCHANGED <<server, log, epoch, app, live, refresh, fallback, actual, request, parks, early, crossed, stale>>

\* refresh_queue is exclusive: a new one takes the place of the one under way.
RefreshAgain == refresh' = "asked" /\ actual' = actual \ {"refresh"}

HandleReset ==
    /\ feed.open /\ feed.reset
    /\ feed' = [feed EXCEPT !.fresh = FALSE, !.connected = TRUE, !.reset = FALSE, !.reseed = [NoReseed EXCEPT !.at = "running"]]
    /\ RefreshAgain
    /\ UNCHANGED <<server, log, epoch, app, live, fallback, request, parks, breaks, early, crossed, stale>>

Ended(l) == [l EXCEPT !.ended = TRUE]

\* Mutant of the next: the job followed stays as it was.
OverWhenIdle_Kept(l) == l

\* A reseed that finds nothing running ends the job followed.
OverWhenIdle(l) == Ended(l)

\* _reseed: GET /queue?state=running, then GET /queue/{id}, then GET /executions/{id}, while the server goes on.
ReseedRunning ==
    /\ feed.reseed.at = "running"
    /\ IF Ongoing
       THEN feed' = [feed EXCEPT !.reseed = [NoReseed EXCEPT !.at = "detail", !.id = server.id]] /\ UNCHANGED <<live, refresh, actual>>
       ELSE /\ feed' = [feed EXCEPT !.reseed = NoReseed]
            /\ live' = OverWhenIdle(live)
            /\ IF live.ended THEN UNCHANGED <<refresh, actual>> ELSE RefreshAgain
    /\ UNCHANGED <<server, log, epoch, app, fallback, request, parks, breaks, early, crossed, stale>>

ReseedDetail ==
    /\ feed.reseed.at = "detail"
    /\ feed' = [feed EXCEPT !.reseed.at = "execution", !.reseed.park = server.id = feed.reseed.id /\ server.park,
                            !.reseed.started = server.id # feed.reseed.id \/ server.phase # "claimed"]
    /\ UNCHANGED <<server, log, epoch, app, live, refresh, fallback, actual, request, parks, breaks, early, crossed, stale>>

\* _seed_running_entry: a live run built from what was read, in place of the one followed.
ReseedExecution ==
    /\ feed.reseed.at = "execution"
    /\ feed' = [feed EXCEPT !.reseed = NoReseed]
    /\ live' = [id |-> feed.reseed.id, park |-> feed.reseed.park, ended |-> FALSE,
                runs |-> IF feed.reseed.started /\ server.id = feed.reseed.id THEN server.runs ELSE IF feed.reseed.started THEN MaxRuns ELSE 0]
    /\ UNCHANGED <<server, log, epoch, app, refresh, fallback, actual, request, parks, breaks, early, crossed, stale>>

IsFollowed(id) == live.id = id /\ ~live.ended

\* Mutant of the next: a reservation of the entry claimed but not started is not kept.
SetParking_LiveOnly(id, park) ==
    /\ live' = IF IsFollowed(id) THEN [live EXCEPT !.park = park] ELSE live
    /\ app' = app

\* set_parking
SetParking(id, park) ==
    /\ live' = IF IsFollowed(id) THEN [live EXCEPT !.park = park] ELSE live
    /\ app' = IF ~IsFollowed(id) /\ app.pending = id THEN [app EXCEPT !.park = park] ELSE app

\* _handle, for an event in its place.  Every queue_ event reads the list again.
Handle ==
    /\ feed.open /\ ~feed.reset /\ feed.reseed.at = "none" /\ feed.place < Len(log)
    /\ LET e == log[feed.place + 1]
       IN  /\ feed' = [feed EXCEPT !.connected = TRUE, !.fresh = FALSE, !.place = @ + 1, !.last = feed.place + 1, !.lastEpoch = epoch]
           /\ CASE e.kind = "running" -> app' = [pending |-> e.id, park |-> FALSE] /\ UNCHANGED live
                [] e.kind = "ended" -> live' = (IF IsFollowed(e.id) THEN Ended(live) ELSE live) /\ UNCHANGED app
                [] e.kind \in {"parked", "unparked"} -> SetParking(e.id, e.kind = "parked")
                [] e.kind = "JobStarted" ->
                    /\ live' = [id |-> app.pending, runs |-> 0, park |-> app.park, ended |-> FALSE]
                    /\ app' = [pending |-> 0, park |-> FALSE]
                [] e.kind = "RunFinished" ->
                    \* A run already seeded as finished is finished still.
                    /\ live' = IF live = NoLive THEN live
                               ELSE [live EXCEPT !.runs = IF @ < MaxRuns /\ @ < Cardinality({i \in 1 .. feed.place + 1 : log[i] = e}) THEN @ + 1 ELSE @]
                    /\ UNCHANGED app
                [] e.kind = "JobFinished" -> live' = Ended(live) /\ UNCHANGED app
           /\ early' = early \cup (IF e.kind = "JobStarted" /\ app.pending # e.id THEN {"unheard"} ELSE {})
                             \cup (IF e.kind = "JobStarted" /\ IsFollowed(e.id) THEN {"seeded"} ELSE {})
           /\ IF e.kind \in {"running", "ended", "parked", "unparked"} THEN RefreshAgain ELSE UNCHANGED <<refresh, actual>>
    /\ UNCHANGED <<server, log, epoch, fallback, request, parks, breaks, crossed, stale>>

---------------------------------------------------------------------------
(* The Queue list. *)

RefreshRead ==
    /\ refresh = "asked"
    /\ refresh' = "read" /\ actual' = actual \cup {"refresh"}
    /\ UNCHANGED <<server, log, epoch, feed, app, live, fallback, request, parks, breaks, early, crossed, stale>>

\* What a read holds is in the list now.
Shown(read) == (actual \ {read, "list"}) \cup (IF read \in actual THEN {"list"} ELSE {})

\* show_entries counts as a read, so that a fallback read that is slower is not shown.
RefreshShown ==
    /\ refresh = "read"
    /\ refresh' = "none" /\ actual' = Shown("refresh")
    /\ fallback' = IF fallback = "none" THEN "none" ELSE "older"
    /\ stale' = FALSE
    /\ UNCHANGED <<server, log, epoch, feed, app, live, request, parks, breaks, early, crossed>>

\* An ApiError is let go: nothing is read until the next event.
RefreshFails ==
    /\ refresh # "none" /\ ~stale
    /\ refresh' = "none" /\ stale' = TRUE /\ actual' = actual \ {"refresh"}
    /\ UNCHANGED <<server, log, epoch, feed, app, live, fallback, request, parks, breaks, early, crossed>>

\* poll, every five seconds while the feed is down; exclusive.
Poll ==
    /\ ~feed.connected /\ fallback = "none" /\ "list" \notin actual
    /\ fallback' = "newest" /\ actual' = actual \cup {"fallback"}
    /\ UNCHANGED <<server, log, epoch, feed, app, live, refresh, request, parks, breaks, early, crossed, stale>>

\* Mutant of the next: the fallback read is shown whenever it comes.
IsCurrent_Any == TRUE

\* current
IsCurrent == fallback = "newest"

FallbackShown ==
    /\ fallback # "none"
    /\ fallback' = "none"
    /\ actual' = IF IsCurrent THEN Shown("fallback") ELSE actual \ {"fallback"}
    /\ UNCHANGED <<server, log, epoch, feed, app, live, refresh, request, parks, breaks, early, crossed, stale>>

---------------------------------------------------------------------------
(* /park and /unpark, and the keys p and u: the entry followed, or one of the list; park_entry and unpark_entry are one      *)
(* exclusive group.                                                                                                         *)

AskPark ==
    /\ CanDo /\ parks' = parks + 1
    /\ \E id \in {live.id, server.id} \ {0}, park \in BOOLEAN :
        request' = [at |-> "asked", id |-> id, park |-> park, answer |-> FALSE]
    /\ crossed' = crossed
    /\ UNCHANGED <<server, log, epoch, feed, app, live, refresh, fallback, actual, breaks, early, stale>>

\* The server takes it: the reservation changes and is told, or the request is refused.
ServerParks ==
    /\ request.at = "asked"
    /\ IF Ongoing /\ server.id = request.id /\ server.phase # "finished"
       THEN /\ server' = [server EXCEPT !.park = request.park]
            /\ IF server.park # request.park
               THEN Publish(IF request.park THEN "parked" ELSE "unparked", server.id) /\ actual' = {}
               ELSE UNCHANGED <<log, actual>>
            /\ request' = [request EXCEPT !.at = "answered", !.answer = TRUE]
       ELSE request' = [request EXCEPT !.at = "answered"] /\ UNCHANGED <<server, log, actual>>
    /\ UNCHANGED <<epoch, feed, app, live, refresh, fallback, parks, breaks, early, crossed, stale>>

\* The answer, on the event loop.
ParkAnswered ==
    /\ request.at = "answered"
    /\ request' = NoRequest
    /\ IF request.answer THEN SetParking(request.id, request.park) /\ RefreshAgain ELSE UNCHANGED <<live, app, refresh, actual>>
    /\ UNCHANGED <<server, log, epoch, feed, fallback, parks, breaks, early, crossed, stale>>

FollowNext ==
    \/ ServerClaims \/ ServerStarts \/ ServerFinishesRun \/ ServerFinishes \/ ServerEnds \/ OtherParks \/ ServerRestarts
    \/ Connect \/ Drop \/ HandleReset \/ ReseedRunning \/ ReseedDetail \/ ReseedExecution \/ Handle
    \/ RefreshRead \/ RefreshShown \/ RefreshFails \/ Poll \/ FallbackShown
    \/ AskPark \/ ServerParks \/ ParkAnswered

FollowSpec == FollowInit /\ [][FollowNext]_followVars

---------------------------------------------------------------------------

\* Everything told has been heard.
Settled == feed.open /\ ~feed.reset /\ feed.reseed.at = "none" /\ feed.place = Len(log) /\ request.at = "none"

FollowsTheRunning ==
    IF server.phase = "started" THEN live.id = server.id /\ ~live.ended /\ live.runs = server.runs
    ELSE IF server.phase = "finished" THEN live.ended \/ live.id = server.id
    ELSE server.phase = "ended" => live.ended

\* Once everything told has been heard, the TUI follows the entry that runs, with the runs it has finished, and nothing that
\* is over: whatever was dropped, replayed or read while the server went on.  Left out: a JobStarted whose entry's claim a
\* Reset passed over, which the feed takes for the entry claimed last, or for none.
FollowedIsRunning == Settled /\ "unheard" \notin early => FollowsTheRunning

\* The same for every JobStarted, as the app says of its pending entry: its claim always precedes it.
FollowedIsAlwaysRunning == Settled => FollowsTheRunning

\* ... its park reservation with it.  Left out: an entry seeded before its JobStarted is heard, whose reservation is kept with
\* the seeded run the JobStarted replaces; and a park or unpark of another client between this TUI's own and its answer.
ParkShown == Settled /\ early = {} /\ ~crossed /\ server.phase = "started" => live.park = server.park

\* Once everything told has been heard and read, the Queue list shows the queue as it is, although fallback reads of the
\* store overlap the server's answers; unless the last read failed.
QueueListSettles == Settled /\ feed.connected /\ refresh = "none" /\ fallback = "none" /\ ~stale => "list" \in actual

\* Once everything told has been heard, the screen shows the server's state: the entry that runs, its park and the queue.
FollowTrue == FollowedIsRunning /\ ParkShown /\ QueueListSettles
=============================================================================
