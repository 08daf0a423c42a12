--------------------------- MODULE ProcessRunner -----------------------------
(* One supervised child command: DrawThingsProcessRunner.run                  *)
(* (core/process/runner.py).  The supervising thread starts the child as the  *)
(* leader of a process group of its own, polls it until it ends, and shuts    *)
(* the whole group down when somebody asks for that, when the timeout passes  *)
(* or when supervision itself raises.                                         *)
(*                                                                            *)
(* Time passes in ticks, each at least one poll interval (the loop's sleep of *)
(* 20 ms), and only while the supervising thread sleeps or waits: the other   *)
(* steps take no time.  A timer stops counting at the limit it is compared    *)
(* with, so nothing needs a bound on the length of a run.                     *)
EXTENDS Naturals

CONSTANTS
  Timeouts,    \* values of timeout_seconds in ticks; 0 stands for None
  Grace,       \* shutdown_grace_seconds
  KillWait,    \* kill_wait_seconds
  Drain,       \* output_drain_seconds
  ZombieSeen   \* a group holding only an unreaped zombie still reads as alive (Linux)

ASSUME RunnerAssumption ==
  /\ Timeouts \subseteq Nat
  /\ Grace \in Nat
  /\ KillWait \in Nat
  /\ Drain \in Nat
  /\ ZombieSeen \in BOOLEAN

VARIABLES
  at,         \* the supervising thread's next step
  leader,     \* the child: none, alive, zombie (ended, not reaped) or reaped
  exitCode,   \* what the child ended with: none, ok (0) or error
  kids,       \* descendants live on in the group
  denied,     \* the group may no longer be signalled (EPERM)
  readers,    \* reader threads are alive, or their output is not drained
  signal,     \* _requested_signal
  shutdown,   \* _shutdown_requested
  asking,     \* another thread is between the two statements of request_shutdown
  timedOut,   \* _timed_out
  timeout,    \* timeout_seconds of this run
  termSent,   \* SIGTERM was sent to the group
  killSent,   \* SIGKILL was sent to the group by the run loop (_kill_sent_at)
  killed,     \* SIGKILL was sent to the group, by the loop or by the clean-up
  raised,     \* run() is leaving through an exception (completed is False)
  result,     \* what run() returned
  age,        \* ticks since: the start, SIGTERM, SIGKILL, the leader's exit, the wait's start
  asked       \* ticks since _shutdown_requested was set

group == <<leader, exitCode, kids, denied>>
request == <<signal, shutdown, asking, timedOut, timeout>>
signals == <<termSent, killSent, killed>>
runnerVars == <<at, group, readers, request, signals, raised, result, age, asked>>

Places == {"start", "loop", "act", "look", "sleep", "join", "result", "cleanup",
           "clean", "cleanSleep", "cleanKill", "reap", "joinLast", "done"}
Signals == {"none", "term", "int"}
NoResult == [code |-> "none", signal |-> "none", timedOut |-> FALSE]

Larger(a, b) == IF a >= b THEN a ELSE b
Smaller(a, b) == IF a <= b THEN a ELSE b

\* The longest a run takes to return once a shutdown is asked for: one poll to
\* see it, the grace, then the wait after SIGKILL and the readers' drain or, when
\* supervision raised, a second grace and the wait to reap; an exception at last
\* waits for the readers (again).
Bound == 1 + Larger(1, Grace) + Larger(KillWait + Drain, Grace + Larger(1, Drain)) + Drain

TypeOKRunner ==
  /\ at \in Places
  /\ leader \in {"none", "alive", "zombie", "reaped"}
  /\ exitCode \in {"none", "ok", "error"}
  /\ kids \in BOOLEAN
  /\ denied \in BOOLEAN
  /\ readers \in BOOLEAN
  /\ signal \in Signals
  /\ shutdown \in BOOLEAN
  /\ asking \in BOOLEAN
  /\ timedOut \in BOOLEAN
  /\ timeout \in Nat
  /\ termSent \in BOOLEAN
  /\ killSent \in BOOLEAN
  /\ killed \in BOOLEAN
  /\ raised \in BOOLEAN
  /\ result \in [code : {"none", "ok", "error"}, signal : Signals, timedOut : BOOLEAN]
  /\ age \in [start : Nat, term : Nat, kill : Nat, exit : Nat, wait : Nat]
  /\ asked \in Nat
  \* Only a child that ended has an exit code.
  /\ (exitCode = "none") <=> (leader \in {"none", "alive"})

RunnerInit ==
  /\ at = "start"
  /\ leader = "none" /\ exitCode = "none" /\ kids = FALSE /\ denied = FALSE
  /\ readers = FALSE
  /\ signal = "none" /\ shutdown = FALSE /\ asking = FALSE /\ timedOut = FALSE
  /\ timeout \in Timeouts
  /\ termSent = FALSE /\ killSent = FALSE /\ killed = FALSE
  /\ raised = FALSE
  /\ result = NoResult
  /\ age = [start |-> 0, term |-> 0, kill |-> 0, exit |-> 0, wait |-> 0]
  /\ asked = 0

------------------------------------------------------------------------------
(* The operating system and the other threads.                                *)

\* process_group_alive(group, denied_means_alive=False).
GroupAliveWith(l) ==
  /\ ~denied
  /\ \/ l = "alive"
     \/ l = "zombie" /\ ZombieSeen
     \/ kids
GroupAlive == GroupAliveWith(leader)

\* process.poll() reaps a leader that has ended.
Polled_Unended == IF leader = "none" THEN leader ELSE "reaped"  \* mutant: counts as ended at once
Polled == IF leader = "zombie" THEN "reaped" ELSE leader

\* The child ends by itself, on SIGTERM or on SIGKILL; it may as well ignore a
\* SIGTERM, or outlive a SIGKILL in an uninterruptible call.
LeaderEnds ==
  /\ leader = "alive"
  /\ leader' = "zombie"
  /\ exitCode' \in (IF killed THEN {"error"} ELSE {"ok", "error"})
  /\ UNCHANGED <<at, kids, denied, readers, request, signals, raised, result, age, asked>>

\* Descendants come from a living leader and go at any time.
KidsChange ==
  /\ kids \/ leader = "alive"
  /\ kids' = ~kids
  /\ UNCHANGED <<at, leader, exitCode, denied, readers, request, signals, raised, result, age, asked>>

Deny ==
  /\ leader # "none" /\ ~denied
  /\ denied' = TRUE
  /\ UNCHANGED <<at, leader, exitCode, kids, readers, request, signals, raised, result, age, asked>>

\* The readers end once nobody holds the pipes; a descendant may hold them.
ReadersEnd ==
  /\ readers /\ leader \notin {"none", "alive"}
  /\ readers' = FALSE
  /\ UNCHANGED <<at, group, request, signals, raised, result, age, asked>>

\* request_shutdown from another thread (CancelToken.cancel, attach) or from a
\* signal handler: it stores the signal, then sets the event.
Ask_EventFirst ==          \* mutant: the event is set before the signal is stored
  /\ \/ /\ ~asking /\ asking' = TRUE
        /\ shutdown' = TRUE /\ asked' = IF shutdown THEN asked ELSE 0
        /\ UNCHANGED signal
     \/ /\ asking /\ asking' = FALSE
        /\ signal' \in Signals \ {"none"}
        /\ UNCHANGED <<shutdown, asked>>
  /\ UNCHANGED <<at, group, readers, timedOut, timeout, signals, raised, result, age>>
Ask ==
  /\ \/ /\ ~asking /\ asking' = TRUE
        /\ signal' \in Signals \ {"none"}
        /\ UNCHANGED <<shutdown, asked>>
     \/ /\ asking /\ asking' = FALSE
        /\ shutdown' = TRUE /\ asked' = IF shutdown THEN asked ELSE 0
        /\ UNCHANGED signal
  /\ UNCHANGED <<at, group, readers, timedOut, timeout, signals, raised, result, age>>

\* Ticks pass while the thread sleeps, or waits for something that is not there.
Waits ==
  \/ at \in {"sleep", "cleanSleep"}
  \/ at \in {"join", "joinLast"} /\ readers /\ age.wait < Drain
  \/ at = "reap" /\ leader = "alive" /\ age.wait < Larger(1, Drain)

Tick ==
  /\ Waits
  /\ at' = CASE at = "sleep" -> "loop"
             [] at = "cleanSleep" -> "clean"
             [] OTHER -> at
  /\ age' = [start |-> Smaller(age.start + 1, timeout),
             term |-> IF termSent THEN Smaller(age.term + 1, Larger(1, Grace)) ELSE 0,
             kill |-> IF killSent THEN Smaller(age.kill + 1, KillWait) ELSE 0,
             exit |-> IF leader = "reaped" THEN Smaller(age.exit + 1, Drain) ELSE 0,
             wait |-> Smaller(age.wait + 1, Larger(Grace, Larger(1, Drain)))]
  /\ asked' = IF shutdown THEN Smaller(asked + 1, Bound + 1) ELSE 0
  /\ UNCHANGED <<group, readers, request, signals, raised, result>>

------------------------------------------------------------------------------
(* The supervising thread.                                                    *)

\* The child is started with its readers (none without capture), or it cannot
\* be and run() raises with nothing to clean up.
StartProcess ==
  /\ at = "start"
  /\ \/ /\ at' = "loop" /\ leader' = "alive"
        /\ readers' \in BOOLEAN
        /\ UNCHANGED raised
     \/ /\ at' = "done" /\ raised' = TRUE
        /\ UNCHANGED <<leader, readers>>
  /\ UNCHANGED <<exitCode, kids, denied, request, signals, result, age, asked>>

\* Top of the loop: output is drained, and a timeout that has passed requests
\* the shutdown itself unless somebody already did.
CheckTimeout ==
  /\ at = "loop"
  /\ at' = "act"
  /\ IF timeout > 0 /\ age.start >= timeout /\ ~shutdown
     THEN timedOut' = TRUE /\ signal' = "term" /\ shutdown' = TRUE /\ asked' = 0
     ELSE UNCHANGED <<timedOut, signal, shutdown, asked>>
  /\ UNCHANGED <<group, readers, asking, timeout, signals, raised, result, age>>

\* _shutdown_process_group: SIGTERM first, SIGKILL once the grace is over.
GraceOver_AtOnce == termSent                       \* mutant: no grace
GraceOver == termSent /\ age.term >= Grace

Shutdown ==
  /\ at = "act" /\ shutdown
  /\ termSent' = TRUE
  /\ killSent' = (killSent \/ GraceOver)
  /\ killed' = (killed \/ GraceOver)
  /\ leader' = Polled
  /\ at' = "look"
  /\ UNCHANGED <<exitCode, kids, denied, readers, request, raised, result, age, asked>>

\* The shutdown is over when the group is gone, or has outlived its SIGKILL.
GaveUp_Never == FALSE                              \* mutant: waits for the group for ever
GaveUp == killSent /\ age.kill >= KillWait

LookAtGroup ==
  /\ at = "look"
  /\ at' = IF ~GroupAlive \/ GaveUp THEN "join" ELSE "sleep"
  /\ age' = [age EXCEPT !.wait = 0]
  /\ UNCHANGED <<group, readers, request, signals, raised, result, asked>>

\* Without a shutdown the loop ends with the child: at once when its output is
\* read, after the drain time when a descendant keeps the pipes open.
OutputRead_Waits == ~readers                       \* mutant: no drain time
OutputRead == ~readers \/ age.exit >= Drain

PollLeader ==
  /\ at = "act" /\ ~shutdown
  /\ leader' = Polled
  /\ at' = IF leader' = "reaped" /\ OutputRead THEN "join" ELSE "sleep"
  /\ age' = [age EXCEPT !.wait = 0]
  /\ UNCHANGED <<exitCode, kids, denied, readers, request, signals, raised, result, asked>>

\* _join_readers: one deadline for all readers.
JoinReaders ==
  /\ at \in {"join", "joinLast"}
  /\ ~readers \/ age.wait >= Drain
  /\ at' = IF at = "join" THEN "result" ELSE "done"
  /\ UNCHANGED <<group, readers, request, signals, raised, result, age, asked>>

\* A leader that could not be reaped counts as code 125.
MakeResult ==
  /\ at = "result"
  /\ leader' = Polled
  /\ result' = [code |-> IF leader' = "reaped" THEN exitCode ELSE "error",
                signal |-> signal, timedOut |-> timedOut]
  /\ at' = "cleanup"
  /\ UNCHANGED <<exitCode, kids, denied, readers, request, signals, raised, age, asked>>

\* Supervision raises (a message callback while output is drained, a signal that
\* cannot be sent): the finally block requests the shutdown itself.
SuperviseRaises_NoRequest ==                       \* mutant: it does not
  /\ at \in {"loop", "act", "result"}
  /\ raised' = TRUE
  /\ at' = "cleanup"
  /\ UNCHANGED <<group, readers, request, signals, result, age, asked>>
SuperviseRaises ==
  /\ at \in {"loop", "act", "result"}
  /\ raised' = TRUE
  /\ signal' = "term" /\ shutdown' = TRUE
  /\ asked' = IF shutdown THEN asked ELSE 0
  /\ at' = "cleanup"
  /\ UNCHANGED <<group, readers, asking, timedOut, timeout, signals, result, age>>

\* After the clean-up an exception still waits for the readers.
Leave == at' = IF raised THEN "joinLast" ELSE "done"

\* _cleanup_process_group: nothing to do, given up already, or a second SIGTERM.
CleanUp ==
  /\ at = "cleanup"
  /\ age' = [age EXCEPT !.wait = 0]
  /\ IF ~shutdown \/ ~GroupAlive
     THEN Leave /\ UNCHANGED <<leader, termSent>>
     ELSE IF killSent
     THEN Leave /\ leader' = Polled /\ UNCHANGED termSent
     ELSE at' = "clean" /\ termSent' = TRUE /\ UNCHANGED leader
  /\ UNCHANGED <<exitCode, kids, denied, readers, request, killSent, killed, raised, result, asked>>

\* Its loop ends when the leader is reaped and the group gone, or in time.
CleanLoop ==
  /\ at = "clean"
  /\ leader' = Polled
  /\ at' = IF (leader' = "reaped" /\ ~GroupAliveWith(leader')) \/ age.wait >= Grace
           THEN "cleanKill" ELSE "cleanSleep"
  /\ UNCHANGED <<exitCode, kids, denied, readers, request, signals, raised, result, age, asked>>

\* A group that is still there is killed, and the leader reaped if it can be.
CleanKill ==
  /\ at = "cleanKill"
  /\ killed' = (killed \/ GroupAlive)
  /\ leader' = Polled
  /\ age' = [age EXCEPT !.wait = 0]
  /\ IF leader' = "reaped" THEN Leave ELSE at' = "reap"
  /\ UNCHANGED <<exitCode, kids, denied, readers, request, termSent, killSent, raised, result, asked>>

Reap ==
  /\ at = "reap"
  /\ leader # "alive" \/ age.wait >= Larger(1, Drain)
  /\ leader' = Polled
  /\ age' = [age EXCEPT !.wait = 0]
  /\ Leave
  /\ UNCHANGED <<exitCode, kids, denied, readers, request, signals, raised, result, asked>>

RunnerStep ==
  \/ StartProcess \/ CheckTimeout \/ Shutdown \/ LookAtGroup \/ PollLeader
  \/ JoinReaders \/ MakeResult \/ CleanUp \/ CleanLoop \/ CleanKill \/ Reap

Environment == LeaderEnds \/ KidsChange \/ Deny \/ ReadersEnd \/ Ask

RunnerNext ==
  \/ RunnerStep
  \/ SuperviseRaises
  \/ Tick
  \/ at # "done" /\ Environment

RunnerSpec == RunnerInit /\ [][RunnerNext]_runnerVars

\* The supervising thread is scheduled and time passes.  Nothing is assumed of
\* the child, of the readers or of the requesters.
RunnerFairSpec == RunnerSpec /\ WF_runnerVars(RunnerStep) /\ WF_runnerVars(Tick)

------------------------------------------------------------------------------
(* Properties.                                                                *)

\* Bounded shutdown: whatever the child, its descendants and the pipes do, and
\* whenever the shutdown was asked for, run() is back within Bound ticks.
BoundedShutdown == at # "done" => asked <= Bound

\* A run whose group was sent SIGTERM is never reported as succeeded, even when
\* the child handles the signal and exits with 0: request_shutdown stores the
\* signal before it sets the event, and ProcessResult.succeeded reads it.
Succeeded(r) == r.code = "ok" /\ r.signal = "none" /\ ~r.timedOut
StoppedIsNotSuccess == at = "cleanup" /\ ~raised /\ termSent => ~Succeeded(result)

\* No process of a run that was stopped, timed out or raised is left running:
\* when run() is back the group is gone, was sent SIGKILL, or is out of reach.
StoppedGroupEnds ==
  at = "done" /\ leader # "none" /\ (raised \/ termSent)
    => (leader # "alive" /\ ~kids) \/ killed \/ denied

\* SIGKILL never comes before the group had the whole grace after SIGTERM,
\* on the loop's path and on the clean-up's.
GraceBeforeKill == [][~killed /\ killed' => termSent /\ age.term >= Grace]_runnerVars

\* run() returns once a shutdown is requested, when a timeout is set, and when
\* the child has ended, though the child may ignore every signal and descendants
\* keep the pipes open.
RunReturns ==
  shutdown \/ timeout > 0 \/ leader \in {"zombie", "reaped"} ~> at = "done"

\* A shutdown is over within its bound, is never reported as a success and leaves
\* no process of the group that could be reached.
ShutdownSafe == BoundedShutdown /\ StoppedIsNotSuccess /\ StoppedGroupEnds
==============================================================================
