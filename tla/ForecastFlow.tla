----------------------------- MODULE ForecastFlow -----------------------------
(* Whose forecast stands: the queue worker's publisher, the forecast it holds *)
(* and what it told the event stream (services/queue_worker.py), written by   *)
(* the worker's thread and by the requests that park or cancel an entry.      *)
(*                                                                            *)
(* A publisher's lock is held by the thread with something of it to tell; the *)
(* state lock by the worker or the park in hand.                              *)
EXTENDS Naturals

CONSTANTS
  Entries,      \* bound: entries claimed, one after another
  Requests,     \* threads that serve a request
  MaxRequests   \* bound: requests served

Nobody == 0
Worker == "worker"
ASSUME FlowAssumption == Entries \in Nat /\ "worker" \notin Requests
Threads == {Worker} \cup Requests

VARIABLES
  current,   \* _current
  phase,     \* where the worker is in claim_and_run_one
  claimed,   \* entries claimed so far
  publisher, \* _publisher
  had,       \* entries whose publisher has a last forecast
  done,      \* entries whose publisher is done
  dead,      \* entries whose forecaster is cancelled
  stands,    \* _forecast_entry
  told,      \* entry -> whether the last event of it carries a forecast
  hand,      \* thread -> what it is doing
  asked,     \* entries whose cancel was accepted
  served

flowVars == <<current, phase, claimed, publisher, had, done, dead, stands, told, hand, asked, served>>
pub == <<publisher, had, done, dead>>

Idle == [at |-> "idle", entry |-> Nobody, some |-> FALSE]
Doing(at, entry, some) == [at |-> at, entry |-> entry, some |-> some]

Locked(e) == \E t \in Threads : hand[t].at \in {"hold", "tell"} /\ hand[t].entry = e
StateLocked == \E t \in Requests : hand[t].at = "park" \/ (hand[t].at \in {"hold", "tell"} /\ hand[t].some)

------------------------------------------------------------------------------
(* _publish_forecast, in two steps: the forecast is held, the stream is told. *)

Hold(t) ==
  /\ hand[t].at = "hold"
  /\ stands' = IF hand[t].some THEN hand[t].entry ELSE Nobody
  /\ hand' = [hand EXCEPT ![t].at = "tell"]
  /\ UNCHANGED <<current, phase, claimed, pub, told, asked, served>>

Tell(t) ==
  /\ hand[t].at = "tell"
  /\ told' = [told EXCEPT ![hand[t].entry] = hand[t].some]
  /\ hand' = [hand EXCEPT ![t] = Idle]
  /\ UNCHANGED <<current, phase, claimed, pub, stands, asked, served>>

\* ForecastPublisher.cancel and _finish: cleared, and told when one was published.
Finished(t, e, forecaster) ==
  /\ ~Locked(e)
  /\ done' = done \cup {e} /\ had' = had \ {e}
  /\ dead' = IF forecaster THEN dead \cup {e} ELSE dead
  /\ hand' = [hand EXCEPT ![t] = IF e \in had THEN Doing("hold", e, FALSE) ELSE Idle]

------------------------------------------------------------------------------
(* The worker's thread.                                                       *)

WorkerFree == hand[Worker].at = "idle"

Claim ==
  /\ phase = "idle" /\ WorkerFree /\ ~StateLocked /\ claimed < Entries
  /\ claimed' = claimed + 1 /\ current' = claimed + 1 /\ phase' = "claimed"
  /\ UNCHANGED <<pub, stands, told, hand, asked, served>>

\* _start_forecast: a job that cannot be described runs without.
StartForecast(described) ==
  /\ phase = "claimed" /\ phase' = "running"
  /\ publisher' = IF described THEN current ELSE publisher
  /\ done' = IF described THEN done ELSE done \cup {current}
  /\ UNCHANGED <<current, claimed, had, dead, stands, told, hand, asked, served>>

\* observe: a forecast worth publishing.
Observe ==
  /\ phase = "running" /\ WorkerFree /\ current \notin done \cup dead /\ ~Locked(current)
  /\ had' = had \cup {current}
  /\ hand' = [hand EXCEPT ![Worker] = Doing("hold", current, TRUE)]
  /\ UNCHANGED <<current, phase, claimed, publisher, done, dead, stands, told, asked, served>>

\* JobFinished, or an exception in the model: the forecasts end there.
ObserveEnd ==
  /\ phase = "running" /\ WorkerFree /\ current \notin done
  /\ Finished(Worker, current, FALSE)
  /\ UNCHANGED <<current, phase, claimed, publisher, stands, told, asked, served>>

\* The executor returns or raises, with or without a JobFinished, and the entry
\* is released: _current first, then the forecast.
Release ==
  /\ phase = "running" /\ WorkerFree /\ ~StateLocked
  /\ current' = Nobody /\ phase' = "releasing"
  /\ UNCHANGED <<claimed, pub, stands, told, hand, asked, served>>

\* Mutant: only a request clears the forecast.
ReleaseForecast_Left ==
  /\ phase = "releasing" /\ phase' = "idle"
  /\ UNCHANGED <<current, claimed, pub, stands, told, hand, asked, served>>

\* _cancel_forecast by the worker.
ReleaseForecast ==
  /\ phase = "releasing" /\ phase' = "idle"
  /\ publisher' = Nobody
  /\ IF publisher = Nobody THEN UNCHANGED <<had, done, dead, hand>> ELSE Finished(Worker, publisher, TRUE)
  /\ UNCHANGED <<current, claimed, stands, told, asked, served>>

------------------------------------------------------------------------------
(* The requests.                                                              *)

CanServe(t) == hand[t].at = "idle" /\ served < MaxRequests /\ ~StateLocked

\* cancel_running, under the state lock.
Cancel(t) ==
  /\ CanServe(t) /\ current # Nobody
  /\ asked' = asked \cup {current} /\ served' = served + 1
  /\ hand' = [hand EXCEPT ![t] = Doing("pop", current, FALSE)]
  /\ UNCHANGED <<current, phase, claimed, pub, stands, told>>

\* _cancel_forecast, with the state lock released: the publisher there is now.
Pop(t) ==
  /\ hand[t].at = "pop"
  /\ publisher' = Nobody
  /\ hand' = [hand EXCEPT ![t] = IF publisher = Nobody THEN Idle ELSE Doing("cancel", publisher, FALSE)]
  /\ UNCHANGED <<current, phase, claimed, had, done, dead, stands, told, asked, served>>

CancelPublisher(t) ==
  /\ hand[t].at = "cancel"
  /\ Finished(t, hand[t].entry, TRUE)
  /\ UNCHANGED <<current, phase, claimed, publisher, stands, told, asked, served>>

\* park_running, or its unpark: the publisher of the running entry, read under the
\* state lock, which is kept until its forecast is out.
Park(t) ==
  /\ CanServe(t) /\ current # Nobody /\ current \notin asked
  /\ served' = served + 1
  /\ hand' = [hand EXCEPT ![t] = IF publisher = Nobody \/ publisher \in done THEN Idle ELSE Doing("park", publisher, TRUE)]
  /\ UNCHANGED <<current, phase, claimed, pub, stands, told, asked>>

\* Mutant: the park's forecast goes out after the state lock is released.
ParkPublish_Unlocked(t) ==
  \/ /\ hand[t].at = "park"
     /\ hand' = [hand EXCEPT ![t].at = "parked"]
     /\ UNCHANGED <<current, phase, claimed, pub, stands, told, asked, served>>
  \/ /\ hand[t].at = "parked" /\ ~Locked(hand[t].entry)
     /\ had' = had \cup {hand[t].entry}
     /\ hand' = [hand EXCEPT ![t].at = "hold"]
     /\ UNCHANGED <<current, phase, claimed, publisher, done, dead, stands, told, asked, served>>

\* park_changed: published at once, unless the forecaster has none to give.
ParkPublish(t) ==
  /\ hand[t].at = "park" /\ ~Locked(hand[t].entry)
  /\ IF hand[t].entry \in dead
     THEN hand' = [hand EXCEPT ![t] = Idle] /\ had' = had
     ELSE hand' = [hand EXCEPT ![t].at = "hold"] /\ had' = had \cup {hand[t].entry}
  /\ UNCHANGED <<current, phase, claimed, publisher, done, dead, stands, told, asked, served>>

------------------------------------------------------------------------------

FlowInit ==
  /\ current = Nobody /\ phase = "idle" /\ claimed = 0 /\ publisher = Nobody
  /\ had = {} /\ done = {} /\ dead = {} /\ stands = Nobody
  /\ told = [e \in 1 .. Entries |-> FALSE]
  /\ hand = [t \in Threads |-> Idle] /\ asked = {} /\ served = 0

FlowNext ==
  \/ Claim \/ (\E described \in BOOLEAN : StartForecast(described)) \/ Observe \/ ObserveEnd
  \/ Release \/ ReleaseForecast
  \/ \E t \in Threads : Hold(t) \/ Tell(t)
  \/ \E t \in Requests : Cancel(t) \/ Pop(t) \/ CancelPublisher(t) \/ Park(t) \/ ParkPublish(t)

FlowSpec == FlowInit /\ [][FlowNext]_flowVars

------------------------------------------------------------------------------
(* Properties.                                                                *)

\* Once an entry is released, no forecast of it stands while another runs or
\* none does: latest_forecast is of the entry being run, of nobody, or of one whose
\* cancel a request is still clearing.
StandsForCurrent ==
  phase # "releasing" /\ WorkerFree
  => \/ stands \in {Nobody, current}
     \/ \E t \in Requests : hand[t].at \in {"cancel", "hold"} /\ hand[t].entry = stands

\* With no entry claimed and no request in hand, the stream's last word on every
\* entry is that it has no forecast: no bar is left behind in a front end.
NoBarLeft ==
  phase = "idle" /\ (\A t \in Threads : hand[t].at = "idle") => \A e \in 1 .. Entries : ~told[e]

\* latest_forecast: "The forecast last published for entry ``entry_id`` while it is
\* the one running; None [...] once it has been released, cancelled, or has
\* finished" (queue_worker.py:287): an entry nobody cancelled keeps its forecast.
LastPublishedStands ==
  /\ phase = "running" /\ WorkerFree /\ current \notin asked
  /\ told[current] /\ current \notin done
  => stands = current

\* The forecast that stands is the running entry's, and an idle queue has none.
ForecastOfCurrent == StandsForCurrent /\ NoBarLeft
=============================================================================
