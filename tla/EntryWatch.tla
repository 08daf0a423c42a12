----------------------------- MODULE EntryWatch -----------------------------
(* One queue entry, watched: the snapshot a watch reads piece by piece while *)
(* the worker goes on (server/entry_snapshot.py), sent over gRPC             *)
(* (server/grpc_service.py) to `fc queue add --wait` (cli/queue_wait.py) or  *)
(* over SSE (server/routes_queue.py) to the wait of an agent's call          *)
(* (mcp_server/watch.py).                                                    *)
(*                                                                           *)
(* The server is what the reads see of it.  The elapsed seconds, which are   *)
(* never a reason to send, and the wording are left out.                     *)
EXTENDS Integers, Sequences

CONSTANTS
    Total,        \* runs of the entry's job
    MaxWire,      \* bound: snapshots sent and not yet received
    MaxActions    \* bound: parks, holds and releases, forecasts and other entries, together

ASSUME WatchConstants == Total \in Nat \ {0} /\ MaxWire \in Nat \ {0} /\ MaxActions \in Nat

VARIABLES
    row,       \* the entry's row: its state, "gone" once deleted, and whether an execution is linked
    worker,    \* what is claimed ("this", "other", "none"), its run (0 between runs); the runs this entry finished, whether
               \* the last one succeeded, and whether its cancellation was asked for
    parking,   \* the entry's park reservation
    gate,     \* whether the queue is held, and whether the between-jobs wait goes on
    forecast,  \* the forecast published for the entry
    poll,      \* the snapshot being read, and how far
    sent,      \* the last snapshot sent on the watch
    wire,      \* snapshots on their way
    stream,    \* "none", "open" or "ended"
    client,    \* who waits and where; the CLI's last_printed_run, parking and told_held; what the agent's call read, and previous
    said,      \* history: what the CLI printed, and the answer of the agent's call
    past,      \* history: a reservation was withdrawn; the worker was at another entry when this one's run was read; something
               \* an agent acts on changed since its call read the entry
    acts       \* counter for the bound

watchVars == <<row, worker, parking, gate, forecast, poll, sent, wire, stream, client, said, past, acts>>

Final == {"succeeded", "failed", "cancelled", "interrupted", "parked"}
NoSnapshot == [state |-> "none", execution |-> FALSE, run |-> 0, park |-> FALSE, held |-> FALSE, cooling |-> FALSE, forecast |-> 0]
NoPoll == [at |-> "idle", snapshot |-> NoSnapshot, current |-> FALSE]
NewClient(who) == [who |-> who, at |-> "start", run |-> 0, parking |-> FALSE, held |-> FALSE, read |-> NoSnapshot, previous |-> NoSnapshot]
NothingSaid == [succeeded |-> {}, started |-> {}, runsOn |-> FALSE, outcome |-> "none", changed |-> FALSE]

WatchInit ==
    /\ row = [state |-> "queued", execution |-> FALSE]
    /\ worker = [current |-> "none", run |-> 0, done |-> 0, good |-> TRUE, stop |-> FALSE]
    /\ parking = FALSE /\ gate = [held |-> FALSE, cooling |-> FALSE] /\ forecast = 0
    /\ poll = NoPoll /\ sent = NoSnapshot /\ wire = <<>> /\ stream = "none"
    /\ client \in {NewClient("cli"), NewClient("agent")}
    /\ said = NothingSaid /\ past = [withdrawn |-> FALSE, crossed |-> FALSE, moved |-> FALSE] /\ acts = 0

Acts == acts < MaxActions /\ acts' = acts + 1

---------------------------------------------------------------------------
(* The server: the entry, its worker and other clients.                      *)

Running == row.state = "running"

ClaimEntry ==
    /\ row.state = "queued" /\ worker.current = "none" /\ ~gate.held
    /\ row' = [row EXCEPT !.state = "running"]
    /\ worker' = [worker EXCEPT !.current = "this"]
    /\ gate' = [gate EXCEPT !.cooling = FALSE]
    /\ UNCHANGED <<parking, forecast, acts>>

LinkExecution ==
    /\ Running /\ ~row.execution
    /\ row' = [row EXCEPT !.execution = TRUE]
    /\ UNCHANGED <<worker, parking, gate, forecast, acts>>

\* observe_run: a run starts, or ends.  A run that was being prepared when a park came still starts.
StartRun ==
    /\ Running /\ row.execution /\ worker.run = 0 /\ worker.good /\ worker.done < Total
    /\ worker' = [worker EXCEPT !.run = worker.done + 1]
    /\ UNCHANGED <<row, parking, gate, forecast, acts>>

FinishRun ==
    /\ Running /\ worker.run # 0
    /\ \E ok \in BOOLEAN : worker' = [worker EXCEPT !.run = 0, !.done = IF ok THEN @ + 1 ELSE @, !.good = ok]
    /\ UNCHANGED <<row, parking, gate, forecast, acts>>

\* The entry's final state, in one step with the end of its reservation: queue.finish under the worker's lock.
Outcomes ==
    IF worker.good /\ worker.done = Total THEN {"succeeded"}
    ELSE {"failed"} \cup (IF worker.stop THEN {"cancelled"} ELSE {})
                    \cup (IF worker.good /\ parking /\ worker.done > 0 THEN {"parked"} ELSE {})

FinishEntry ==
    /\ Running /\ worker.run = 0
    /\ \E state \in Outcomes, linked \in {row.execution, FALSE} :
        \* A job that failed to start loses its link.
        /\ linked = row.execution \/ (state = "failed" /\ worker.good /\ worker.done = 0)
        /\ row' = [state |-> state, execution |-> linked]
    /\ parking' = FALSE
    /\ UNCHANGED <<worker, gate, forecast, acts>>

ReleaseEntry ==
    /\ worker.current = "this" /\ ~Running
    /\ worker' = [worker EXCEPT !.current = "none"] /\ forecast' = 0
    /\ UNCHANGED <<row, parking, gate, acts>>

PublishForecast ==
    /\ Running /\ Acts /\ forecast' = forecast + 1
    /\ UNCHANGED <<row, worker, parking, gate>>

\* Another entry: it is claimed, its first run starts, and it is over.
OtherEntry ==
    /\ \/ worker.current = "none" /\ ~gate.held /\ Acts /\ worker' = [worker EXCEPT !.current = "other"]
       \/ worker.current = "other" /\ worker.run = 0 /\ worker' = [worker EXCEPT !.run = 1] /\ UNCHANGED acts
       \/ worker.current = "other" /\ worker' = [worker EXCEPT !.current = "none", !.run = 0] /\ UNCHANGED acts
    /\ gate' = [gate EXCEPT !.cooling = FALSE]
    /\ UNCHANGED <<row, parking, forecast>>

\* The wait between two jobs, which a hold ends.
WaitBetweenJobs ==
    /\ worker.current = "none" /\ ~gate.held /\ Acts
    /\ gate' = [gate EXCEPT !.cooling = ~@]
    /\ UNCHANGED <<row, worker, parking, forecast>>

Park ==
    /\ Running /\ ~worker.stop /\ Acts
    /\ parking' = TRUE /\ gate' = [gate EXCEPT !.held = TRUE]
    /\ UNCHANGED <<row, worker, forecast>>

\* The hold goes with the reservation when the reservation made it.
Unpark ==
    /\ Running /\ parking /\ Acts
    /\ parking' = FALSE
    /\ \E held \in {FALSE, gate.held} : gate' = [gate EXCEPT !.held = held]
    /\ UNCHANGED <<row, worker, forecast>>

HoldOrRelease ==
    /\ Acts
    /\ gate' = [held |-> ~gate.held, cooling |-> FALSE]
    /\ UNCHANGED <<row, worker, parking, forecast>>

\* The cancel of a queued entry is its end; of a running one, it stops its run and takes the forecast away.
CancelEntry ==
    /\ \/ row.state = "queued" /\ row' = [row EXCEPT !.state = "cancelled"] /\ UNCHANGED worker
       \/ Running /\ worker' = [worker EXCEPT !.stop = TRUE] /\ UNCHANGED row
    /\ forecast' = 0
    /\ UNCHANGED <<parking, gate>>

Cancel == Acts /\ CancelEntry

\* Retention.
PruneEntry ==
    /\ row.state \in Final /\ row' = [row EXCEPT !.state = "gone"]
    /\ UNCHANGED <<worker, parking, gate, forecast, acts>>

ServerStep ==
    /\ \/ ClaimEntry \/ LinkExecution \/ StartRun \/ FinishRun \/ FinishEntry \/ ReleaseEntry \/ PublishForecast
       \/ OtherEntry \/ WaitBetweenJobs \/ Park \/ Unpark \/ HoldOrRelease \/ Cancel \/ PruneEntry
    /\ past' = [past EXCEPT !.withdrawn = @ \/ (parking /\ ~parking' /\ Running'),
                            !.moved = @ \/ (client.who = "agent" /\ <<row, worker.current, worker.run, parking, gate>>'
                                                                    # <<row, worker.current, worker.run, parking, gate>>)]
    /\ UNCHANGED <<poll, sent, wire, stream, client, said>>

---------------------------------------------------------------------------
(* entry_snapshot, in its order: the reservation, the row, and the worker's  *)
(* progress, in two reads; the server goes on between any two of them.       *)

\* Mutant of the next: the row first, so that a job may end before its reservation is read.
ReadPart_RowFirst(n, s) == IF n = 1 THEN [s EXCEPT !.state = row.state, !.execution = row.execution] ELSE [s EXCEPT !.park = parking]

ReadPart(n, s) == IF n = 1 THEN [s EXCEPT !.park = parking] ELSE [s EXCEPT !.state = row.state, !.execution = row.execution]

PollUnchanged == UNCHANGED <<row, worker, parking, gate, forecast, client, said, acts>>

ReadReservation ==
    /\ stream = "open" /\ poll.at = "idle" /\ Len(wire) < MaxWire
    /\ poll' = [NoPoll EXCEPT !.at = "row", !.snapshot = ReadPart(1, NoSnapshot)]
    /\ PollUnchanged /\ UNCHANGED <<sent, wire, stream, past>>

\* An entry that is gone ends the watch.
ReadRow ==
    /\ poll.at = "row"
    /\ IF row.state = "gone" THEN poll' = NoPoll /\ stream' = "ended"
       ELSE poll' = [poll EXCEPT !.at = "current", !.snapshot = ReadPart(2, @)] /\ UNCHANGED stream
    /\ PollUnchanged /\ UNCHANGED <<sent, wire, past>>

ReadCurrent ==
    /\ poll.at = "current"
    /\ poll' = [poll EXCEPT !.at = "progress", !.current = worker.current = "this"]
    /\ PollUnchanged /\ UNCHANGED <<sent, wire, stream, past>>

\* The elapsed seconds alone are no change.
snapshot_changed(previous, current) == previous # current

ReadProgress ==
    /\ poll.at = "progress"
    /\ LET snapshot == [poll.snapshot EXCEPT !.run = IF poll.current THEN worker.run ELSE 0, !.held = gate.held,
                                             !.cooling = gate.cooling, !.forecast = forecast]
       IN  /\ sent' = snapshot
           /\ wire' = IF snapshot_changed(sent, snapshot) THEN Append(wire, snapshot) ELSE wire
    /\ poll' = NoPoll
    /\ past' = [past EXCEPT !.crossed = @ \/ (poll.current /\ worker.current = "other")]
    /\ PollUnchanged /\ UNCHANGED stream

\* The server stops: a watch ends itself, and gRPC's streams are cancelled.
StopWatches ==
    /\ stream = "open"
    /\ stream' = "ended" /\ poll' = NoPoll
    /\ PollUnchanged /\ UNCHANGED <<sent, wire, past>>

---------------------------------------------------------------------------
(* fc queue add --wait.                                                      *)

ServerUnchanged == UNCHANGED <<row, worker, parking, gate, forecast, sent, past>>

\* The watch opens; an entry that is gone is not found.
OpenWatch ==
    /\ client.at = IF client.who = "cli" THEN "start" ELSE "open"
    /\ IF row.state = "gone" THEN client' = [client EXCEPT !.at = "error"] /\ UNCHANGED stream
       ELSE client' = [client EXCEPT !.at = "watching"] /\ stream' = "open"
    /\ ServerUnchanged /\ UNCHANGED <<poll, wire, said, acts>>

\* The watch is given up: the call is cancelled, the response closed.
GiveUp(at) ==
    /\ client' = [client EXCEPT !.at = at]
    /\ stream' = "ended" /\ poll' = NoPoll /\ wire' = <<>>

IsNewRun(snapshot) == snapshot.run # 0 /\ snapshot.run # client.run
LastRun(snapshot) == IF IsNewRun(snapshot) THEN snapshot.run ELSE client.run

\* A run succeeded once the next one starts, and the last one once the entry succeeded or parked.
ToldSucceeded(snapshot) ==
    (IF IsNewRun(snapshot) THEN {client.run} \ {0} ELSE {})
    \cup (IF snapshot.state \in {"succeeded", "parked"} THEN {LastRun(snapshot)} \ {0} ELSE {})

CliHears ==
    /\ client.who = "cli" /\ client.at = "watching" /\ wire # <<>>
    /\ LET snapshot == Head(wire)
           over == snapshot.state \in Final
       IN  /\ said' = [said EXCEPT !.succeeded = @ \cup ToldSucceeded(snapshot),
                                   !.started = @ \cup (IF IsNewRun(snapshot) THEN {snapshot.run} ELSE {}),
                                   !.runsOn = @ \/ (snapshot.state = "running" /\ client.parking /\ ~snapshot.park),
                                   !.outcome = IF over THEN snapshot.state ELSE "none"]
           /\ IF over THEN GiveUp("done")
              ELSE /\ client' = [client EXCEPT !.run = LastRun(snapshot),
                                               !.parking = IF snapshot.state = "running" THEN snapshot.park ELSE @,
                                               !.held = @ \/ (snapshot.state = "queued" /\ snapshot.held)]
                   /\ wire' = Tail(wire) /\ UNCHANGED <<stream, poll>>
    /\ ServerUnchanged /\ UNCHANGED acts

\* Ctrl-C cancels the entry; a cancel that is refused is an error.
CliInterrupted ==
    /\ client.who = "cli" /\ client.at = "watching" /\ Acts
    /\ IF row.state \in {"queued", "running"} THEN CancelEntry /\ GiveUp("done")
       ELSE GiveUp("error") /\ UNCHANGED <<row, worker, parking, gate, forecast>>
    /\ UNCHANGED <<sent, past, said>>

\* A watch that ended before a final state is an error; so is it for the agent, whose call reads the entry first.
WatchLost ==
    /\ client.at = "watching" /\ stream = "ended" /\ wire = <<>>
    /\ client' = [client EXCEPT !.at = "error"]
    /\ ServerUnchanged /\ UNCHANGED <<poll, wire, stream, said, acts>>

---------------------------------------------------------------------------
(* The wait of an agent's get_queue_entry.                                   *)

\* GET /v1/queue/{id}: the row, and then the worker's part of the answer.
AgentReads ==
    /\ client.who = "agent" /\ client.at = "start"
    /\ client' = IF row.state = "gone" THEN [client EXCEPT !.at = "error"]
                 ELSE [client EXCEPT !.at = "detail", !.read.state = row.state, !.read.execution = row.execution]
    /\ past' = [past EXCEPT !.moved = FALSE]
    /\ UNCHANGED <<row, worker, parking, gate, forecast, poll, sent, wire, stream, said, acts>>

\* as_snapshot.  An entry that is over is answered at once; otherwise the watch's first snapshot is compared with what was read.
AgentReadsDetail ==
    /\ client.at = "detail"
    /\ LET read == [client.read EXCEPT !.park = parking, !.run = IF worker.current = "this" THEN worker.run ELSE 0,
                                       !.held = gate.held, !.cooling = gate.cooling]
       IN  client' = [client EXCEPT !.at = IF read.state \in Final THEN "done" ELSE "open", !.read = read, !.previous = read]
    /\ ServerUnchanged /\ UNCHANGED <<poll, wire, stream, said, acts>>

ActedOn(s) == <<s.state, s.execution, s.park, s.held, s.cooling>>

\* A run's start is no change, its end is.
acted_on(previous, current) ==
    ActedOn(previous) # ActedOn(current) \/ (previous.run # 0 /\ current.run # previous.run)

AgentHears ==
    /\ client.who = "agent" /\ client.at = "watching" /\ wire # <<>>
    /\ IF acted_on(client.previous, Head(wire))
       THEN GiveUp("answer") /\ said' = [said EXCEPT !.changed = TRUE]
       ELSE /\ client' = [client EXCEPT !.previous = Head(wire)] /\ wire' = Tail(wire)
            /\ UNCHANGED <<stream, poll, said>>
    /\ ServerUnchanged /\ UNCHANGED acts

TimeUp ==
    /\ client.who = "agent" /\ client.at = "watching"
    /\ GiveUp("answer")
    /\ ServerUnchanged /\ UNCHANGED <<said, acts>>

\* The entry is read again for the answer.
AgentAnswers ==
    /\ client.at = "answer"
    /\ client' = [client EXCEPT !.at = IF row.state = "gone" THEN "error" ELSE "done"]
    /\ said' = [said EXCEPT !.outcome = row.state]
    /\ ServerUnchanged /\ UNCHANGED <<poll, wire, stream, acts>>

WatchNext ==
    \/ ServerStep
    \/ ReadReservation \/ ReadRow \/ ReadCurrent \/ ReadProgress \/ StopWatches
    \/ OpenWatch \/ CliHears \/ CliInterrupted \/ WatchLost
    \/ AgentReads \/ AgentReadsDetail \/ AgentHears \/ TimeUp \/ AgentAnswers

WatchSpec == WatchInit /\ [][WatchNext]_watchVars

---------------------------------------------------------------------------

\* What the CLI prints is so: a run it says started did, one it says succeeded did, the job "runs on" only when its
\* reservation was withdrawn, and the outcome is the entry's own, although a snapshot is read in pieces while the entry ends
\* and a run may pass between two of them.  Left out: a run read while the worker is already at another entry.
PrintedTrue ==
    (client.who = "cli" /\ ~past.crossed) =>
        /\ said.started \subseteq 1 .. worker.done + 1
        /\ said.succeeded \subseteq 1 .. worker.done
        /\ said.runsOn => past.withdrawn
        /\ said.outcome # "none" => row.state \in {said.outcome, "gone"}

\* While an agent's call waits and has heard everything sent, nothing it acts on is other than it read it: not the entry's
\* end, its park, its hold or the end of the run it read, also when it changed before the watch opened.
NothingUnheard ==
    (client.who = "agent" /\ client.at = "watching" /\ wire = <<>> /\ sent # NoSnapshot) =>
        /\ ActedOn(sent) = ActedOn(client.read)
        /\ client.read.run # 0 => sent.run = client.read.run

\* A call answers that the entry changed only when something did since it read it.
ChangedTrue == said.changed => past.moved

\* What a person or an agent that waits for an entry is told is so, and nothing it waits for is passed over.
WatchTrue == PrintedTrue /\ NothingUnheard /\ ChangedTrue
=============================================================================
