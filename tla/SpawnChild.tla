----------------------------- MODULE SpawnChild -----------------------------
(* Starting a child without forking (core/process/spawn.py, exec_child.py):  *)
(* the helper that becomes the command says through a pipe whether it could, *)
(* by an error written or by the pipe's end.  Several threads start children *)
(* at once, and a pipe's end comes only when no process holds its other end. *)
EXTENDS Naturals, FiniteSets

CONSTANTS
  Threads,      \* the threads that start a child
  MaxBad        \* bound: helpers that cannot be started or are killed, and waits that are interrupted

\* A pipe's holders are the parent and the helpers, known by their thread.
ASSUME SpawnAssumption == "parent" \notin Threads

VARIABLES
  call,         \* where each thread's popen is
  lockHeld,     \* _SPAWN_LOCK: the threads that hold it
  writers,      \* who holds the write end of each thread's status pipe: the parent, and helpers by their thread
  inheritable,  \* the threads whose write end a child would inherit
  helper,       \* where each thread's helper is
  reported,     \* the threads whose helper wrote an error
  bads
spawnVars == <<call, lockHeld, writers, inheritable, helper, reported, bads>>

Parent == "parent"
Gone == {"ended", "failed", "killed"}
At(t, from, to) == call[t] = from /\ call' = [call EXCEPT ![t] = to]
Drops(holder, pipes) == [t \in Threads |-> IF t \in pipes THEN writers[t] \ {holder} ELSE writers[t]]

MakePipe(t) ==
  /\ At(t, "new", "piped")
  /\ writers' = [writers EXCEPT ![t] = {Parent}]
  /\ UNCHANGED <<lockHeld, inheritable, helper, reported, bads>>

\* A plausible bug: the pipe is made inheritable outside the lock.
LockIsFree_Always == TRUE
LockIsFree == lockHeld = {}
MakeInheritable(t) ==
  /\ LockIsFree
  /\ At(t, "piped", "inheritable")
  /\ lockHeld' = lockHeld \cup {t} /\ inheritable' = inheritable \cup {t}
  /\ UNCHANGED <<writers, helper, reported, bads>>

\* posix_spawn with close_fds off: the helper holds every write end that is inheritable now.
StartHelper(t) ==
  /\ At(t, "inheritable", "spawned")
  /\ helper' = [helper EXCEPT ![t] = "starting"]
  /\ writers' = [p \in Threads |-> IF p \in inheritable /\ Parent \in writers[p] THEN writers[p] \cup {t} ELSE writers[p]]
  /\ UNCHANGED <<lockHeld, inheritable, reported, bads>>
NoHelper(t) ==
  /\ bads < MaxBad /\ bads' = bads + 1
  /\ At(t, "inheritable", "unstarted")
  /\ UNCHANGED <<lockHeld, writers, inheritable, helper, reported>>

\* The finally: the parent's write end is closed before another child can start.
CloseWriteEnd(t) ==
  /\ \/ At(t, "spawned", "reading") \/ At(t, "unstarted", "raised")
  /\ inheritable' = inheritable \ {t} /\ writers' = Drops(Parent, {t}) /\ lockHeld' = lockHeld \ {t}
  /\ UNCHANGED <<helper, reported, bads>>

\* _read_status ends with the pipe; an error that was read is raised once the helper is reaped.
ReadStatus(t) ==
  /\ writers[t] = {}
  /\ \/ t \notin reported /\ At(t, "reading", "started")
     \/ t \in reported /\ helper[t] \in Gone /\ At(t, "reading", "raised")
  /\ UNCHANGED <<lockHeld, writers, inheritable, helper, reported, bads>>
\* A Ctrl-C while the status is read: the helper is left to itself.
Interrupted(t) ==
  /\ bads < MaxBad /\ bads' = bads + 1
  /\ At(t, "reading", "abandoned")
  /\ UNCHANGED <<lockHeld, writers, inheritable, helper, reported>>

----------------------------------------------------------------------------
(* The helper: a clean interpreter that becomes the command.                 *)

HelperMoves(t, from, to) == helper[t] = from /\ helper' = [helper EXCEPT ![t] = to]
CloseDescriptors(t) ==
  /\ HelperMoves(t, "starting", "clean")
  /\ writers' = Drops(t, Threads \ {t})
  /\ UNCHANGED <<call, lockHeld, inheritable, reported, bads>>
Exec(t) ==
  /\ HelperMoves(t, "clean", "command")
  /\ writers' = Drops(t, {t})
  /\ UNCHANGED <<call, lockHeld, inheritable, reported, bads>>
\* Its session, its directory or the command failed: the error is written, then the pipe is closed.
ReportError(t) ==
  /\ HelperMoves(t, "clean", "reporting")
  /\ reported' = reported \cup {t}
  /\ UNCHANGED <<call, lockHeld, writers, inheritable, bads>>
HelperFails(t) ==
  /\ HelperMoves(t, "reporting", "failed")
  /\ writers' = Drops(t, {t})
  /\ UNCHANGED <<call, lockHeld, inheritable, reported, bads>>
HelperKilled(t) ==
  /\ bads < MaxBad /\ bads' = bads + 1
  /\ \E from \in {"starting", "clean"} : HelperMoves(t, from, "killed")
  /\ writers' = Drops(t, Threads)
  /\ UNCHANGED <<call, lockHeld, inheritable, reported>>
CommandEnds(t) ==
  /\ HelperMoves(t, "command", "ended")
  /\ UNCHANGED <<call, lockHeld, writers, inheritable, reported, bads>>

SpawnInit ==
  /\ call = [t \in Threads |-> "new"] /\ helper = [t \in Threads |-> "none"] /\ writers = [t \in Threads |-> {}]
  /\ lockHeld = {} /\ inheritable = {} /\ reported = {} /\ bads = 0
SpawnNext ==
  \E t \in Threads :
    \/ MakePipe(t) \/ MakeInheritable(t) \/ StartHelper(t) \/ NoHelper(t) \/ CloseWriteEnd(t) \/ ReadStatus(t) \/ Interrupted(t)
    \/ CloseDescriptors(t) \/ Exec(t) \/ ReportError(t) \/ HelperFails(t) \/ HelperKilled(t) \/ CommandEnds(t)
SpawnSpec == SpawnInit /\ [][SpawnNext]_spawnVars

----------------------------------------------------------------------------
(* A thread that reads its child's status waits for that child alone: no     *)
(* child of another thread, which may take long or never end, holds the      *)
(* pipe, and no command inherits one.                                        *)
WaitsForItsOwn ==
  \A t \in Threads :
    /\ call[t] = "reading" => writers[t] \subseteq {t}
    /\ helper[t] \in {"command", "ended"} => \A p \in Threads : t \notin writers[p]

(* What popen says of the child is so: an error is that child's own, and it  *)
(* is reaped; a child said to have started became the command, unless it was *)
(* killed before it could say anything.                                      *)
SaidTrue ==
  \A t \in Threads :
    /\ call[t] = "started" => helper[t] \in {"command", "ended", "killed"}
    /\ call[t] = "raised" => helper[t] \in {"none", "failed"}

ChildrenStart == WaitsForItsOwn /\ SaidTrue
=============================================================================
