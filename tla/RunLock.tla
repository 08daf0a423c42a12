------------------------------ MODULE RunLock --------------------------------
(* The machine-wide run lock (core/run_lock.py): processes that start a       *)
(* server or a job take a flock on one file, which also names the holder and, *)
(* while a run's child exists, the child.  The system drops the flock of a    *)
(* process that is killed, but not its child, so the next starter reads the   *)
(* file and refuses while the child it names still runs.                      *)
(*                                                                            *)
(* A starter that is refused (the flock is taken for longer than its retries) *)
(* changes nothing and may start again.                                       *)
EXTENDS FiniteSets

CONSTANTS
  Procs,      \* processes that take the lock
  Children,   \* the children they may start, each once (bounds the runs)
  None        \* no process, no child

ASSUME LockAssumption == None \notin Procs \cup Children

VARIABLES
  lock,       \* who holds the flock
  probe,      \* a read-only screen holds it for an instant (run_lock_is_free)
  place,      \* each process's next step
  mine,       \* the child its current run supervises
  named,      \* the child the lock file names (line 2)
  live,       \* children that run
  unused,     \* children not started yet
  recorded,   \* children whose number was written to the file
  givenUp,    \* children whose runner sent SIGKILL and stopped waiting
  overlooked  \* children whose check failed (ps could not say)

lockVars == <<lock, probe, place, mine, named, live, unused, recorded, givenUp, overlooked>>
history == <<recorded, givenUp, overlooked>>

Steps == {"out", "check", "write", "held", "spawned", "closing"}

LockTypeOK ==
  /\ lock \in Procs \cup {None}
  /\ probe \in BOOLEAN
  /\ place \in [Procs -> Steps]
  /\ mine \in [Procs -> Children \cup {None}]
  /\ named \in Children \cup {None}
  /\ live \subseteq Children
  /\ unused \subseteq Children
  /\ recorded \subseteq Children
  /\ givenUp \subseteq Children
  /\ overlooked \subseteq Children
  \* The flock is held by exactly the process inside, and a probe excludes it.
  /\ \A p \in Procs : place[p] # "out" <=> lock = p
  /\ probe => lock = None
  /\ live \cap unused = {}

LockInit ==
  /\ lock = None
  /\ probe = FALSE
  /\ place = [p \in Procs |-> "out"]
  /\ mine = [p \in Procs |-> None]
  /\ named = None
  /\ live = {}
  /\ unused = Children
  /\ recorded = {} /\ givenUp = {} /\ overlooked = {}

Go(p, s) == place' = [place EXCEPT ![p] = s]

\* acquire(): one of the tries of _flock succeeds.
Flock(p) ==
  /\ place[p] = "out"
  /\ lock = None /\ ~probe
  /\ lock' = p
  /\ Go(p, "check")
  /\ UNCHANGED <<probe, mine, named, live, unused, history>>

\* Mutant: the child of an earlier holder is not looked for.
OrphanSeen_Never == FALSE

\* _orphaned_child: the file names a child, and it still runs.
OrphanSeen == named # None /\ named \in live

\* An orphan refuses the start; a check that cannot be made lets it pass.
CheckOrphan(p) ==
  /\ place[p] = "check"
  /\ \/ /\ OrphanSeen
        /\ Go(p, "out") /\ lock' = None
        /\ UNCHANGED overlooked
     \/ /\ Go(p, "write")
        /\ overlooked' = IF OrphanSeen THEN overlooked \cup {named} ELSE overlooked
        /\ UNCHANGED lock
  /\ UNCHANGED <<probe, mine, named, live, unused, recorded, givenUp>>

\* The new holder's line replaces the text; a write that fails gives up the lock.
WriteHolder(p) ==
  /\ place[p] = "write"
  /\ \/ named' = None /\ Go(p, "held") /\ UNCHANGED lock
     \/ Go(p, "out") /\ lock' = None /\ UNCHANGED named
  /\ UNCHANGED <<probe, mine, live, unused, history>>

\* A run of the holder's starts its child ...
Spawn(p, c) ==
  /\ place[p] = "held" /\ mine[p] = None
  /\ c \in unused
  /\ unused' = unused \ {c}
  /\ live' = live \cup {c}
  /\ mine' = [mine EXCEPT ![p] = c]
  /\ Go(p, "spawned")
  /\ UNCHANGED <<lock, probe, named, history>>

\* ... and then reports it (record_child); an error there is only logged.
RecordChild(p) ==
  /\ place[p] = "spawned"
  /\ \/ named' = mine[p] /\ recorded' = recorded \cup {mine[p]}
     \/ UNCHANGED <<named, recorded>>
  /\ Go(p, "held")
  /\ UNCHANGED <<lock, probe, mine, live, unused, givenUp, overlooked>>

LockedChildEnds(c) ==
  /\ c \in live
  /\ live' = live \ {c}
  /\ UNCHANGED <<lock, probe, place, mine, named, unused, history>>

\* The runner returns: its child has ended, or outlived its SIGKILL.
RunReturned(p) ==
  /\ place[p] = "held" /\ mine[p] # None
  /\ mine' = [mine EXCEPT ![p] = None]
  /\ givenUp' = IF mine[p] \in live THEN givenUp \cup {mine[p]} ELSE givenUp
  /\ UNCHANGED <<lock, probe, place, named, live, unused, recorded, overlooked>>

\* The session or the server releases the lock after its last run.
MayRelease(p) == place[p] = "held" /\ mine[p] = None

\* release() cuts the file, if it can, and then drops the flock.
Release(p) ==
  /\ MayRelease(p)
  /\ named' \in {None, named}
  /\ Go(p, "closing")
  /\ mine' = [mine EXCEPT ![p] = None]
  /\ UNCHANGED <<lock, probe, live, unused, history>>

Close(p) ==
  /\ place[p] = "closing"
  /\ lock' = None
  /\ Go(p, "out")
  /\ UNCHANGED <<probe, mine, named, live, unused, history>>

\* SIGKILL of the holder, at any step: its child stays.
Killed(p) ==
  /\ place[p] # "out"
  /\ lock' = None
  /\ Go(p, "out")
  /\ mine' = [mine EXCEPT ![p] = None]
  /\ UNCHANGED <<probe, named, live, unused, history>>

\* run_lock_is_free: the flock is taken for an instant, the file left alone.
Probe ==
  /\ lock = None
  /\ probe' = ~probe
  /\ UNCHANGED <<lock, place, mine, named, live, unused, history>>

LockNext ==
  \/ \E p \in Procs :
       \/ Flock(p) \/ CheckOrphan(p) \/ WriteHolder(p) \/ RecordChild(p)
       \/ RunReturned(p) \/ Release(p) \/ Close(p) \/ Killed(p)
       \/ \E c \in Children : Spawn(p, c)
  \/ \E c \in Children : LockedChildEnds(c)
  \/ Probe

LockSpec == LockInit /\ [][LockNext]_lockVars

------------------------------------------------------------------------------
\* Children the lock cannot answer for: never written down (the holder was killed
\* or the write failed first), given up on after SIGKILL, or overlooked.
Excused == (Children \ recorded) \cup givenUp \cup overlooked

\* The file always names the child that drives the GPU, through the death of its
\* holder, refused starts, probes and failed writes: nobody writes over it.
RecordStands == \A c \in live \ Excused : named = c

\* Two children run at once only when the lock cannot answer for one of them.
DriversExplained == \A c, d \in live \ Excused : c = d
==============================================================================
