---------------------------- MODULE QueueService -----------------------------
(* What the queue promises its users, with no thread, lock, token, execution  *)
(* or process in it: entries start one at a time, the oldest first, and only  *)
(* while the queue is not held; an entry is worked on only while it is        *)
(* running, ends once and for all, and goes back to the queue only when       *)
(* nothing of it has run.  QueueWorker is shown to implement it.              *)
EXTENDS Naturals

CONSTANT NumEntries

Entries == 1 .. NumEntries

VARIABLES
  queue,     \* each entry's state
  held,      \* whether the queue is held
  started    \* the entries of which something has run

serviceVars == <<queue, held, started>>

Ends == {"succeeded", "failed", "cancelled", "interrupted", "parked"}
Waiting == {e \in Entries : queue[e] = "queued"}
SetState(e, s) == queue' = [queue EXCEPT ![e] = s] /\ UNCHANGED <<held, started>>

ServiceInit ==
  /\ queue = [e \in Entries |-> "absent"]
  /\ held \in BOOLEAN
  /\ started = {}

\* Entries get their numbers in the order they come.
Enter(e) ==
  /\ queue[e] = "absent"
  /\ \A d \in Entries : d < e => queue[d] # "absent"
  /\ SetState(e, "queued")

\* One at a time, the oldest first, never while the queue is held.
Start(e) ==
  /\ ~held
  /\ \A d \in Entries : queue[d] # "running"
  /\ e \in Waiting
  /\ \A d \in Waiting : e <= d
  /\ SetState(e, "running")

Work(e) ==
  /\ queue[e] = "running"
  /\ started' = started \cup {e}
  /\ UNCHANGED <<queue, held>>

\* An entry that ends well, or parked to be resumed, has been worked on.
End(e, s) ==
  /\ queue[e] = "running"
  /\ s \in {"succeeded", "parked"} => e \in started
  /\ SetState(e, s)

Withdraw(e) == queue[e] = "queued" /\ SetState(e, "cancelled")

\* Back to its place in the queue: a stop or a crash came before its work.
PutBack(e) ==
  /\ queue[e] = "running"
  /\ e \notin started
  /\ SetState(e, "queued")

Hold == held' = TRUE /\ UNCHANGED <<queue, started>>
Free == held' = FALSE /\ UNCHANGED <<queue, started>>

ServiceNext ==
  \/ \E e \in Entries :
       \/ Enter(e) \/ Start(e) \/ Work(e) \/ Withdraw(e) \/ PutBack(e)
       \/ \E s \in Ends : End(e, s)
  \/ Hold \/ Free

ServiceSpec == ServiceInit /\ [][ServiceNext]_serviceVars
==============================================================================
