----------------------------- MODULE CancelToken -----------------------------
(* The token through which other threads stop, park and unpark the job that  *)
(* an executor runs (core/process/signals.py, class CancelToken).  Each       *)
(* operator is one call: the code makes its changes under the token's own     *)
(* lock, so a call is one atomic change of the record.  cancel() tells the    *)
(* runner it read just after it releases the lock; that is part of the same   *)
(* step here, because a runner that was told may still end in any way, one    *)
(* that ended ignores it, and a newer one is told by attach's own check.      *)
(*                                                                            *)
(* running  a job is between begin() and end()                                *)
(* signal   a stop was requested (_signal is not None)                        *)
(* park     a park is asked for and not withdrawn                             *)
(* taken    the park has taken effect at a run boundary                       *)
(* count    how many parks the job was asked for (park_count)                 *)
(* runner   the current run's runner: none, attached, or told to shut down    *)
EXTENDS Naturals

RunnerStates == {"none", "attached", "told"}

Token == [running : BOOLEAN, signal : BOOLEAN, park : BOOLEAN,
          taken : BOOLEAN, count : Nat, runner : RunnerStates]

\* A token no job has used yet.
IdleToken == [running |-> FALSE, signal |-> FALSE, park |-> FALSE,
              taken |-> FALSE, count |-> 0, runner |-> "none"]

\* begin(): everything an earlier job was asked is forgotten.
BeginToken(t) == [t EXCEPT !.running = TRUE, !.signal = FALSE, !.park = FALSE,
                           !.taken = FALSE, !.count = 0]

EndToken(t) == [t EXCEPT !.running = FALSE]

\* cancel(): sets the flag and shuts down the runner it finds attached.
CancelCall(t) ==
  IF t.running
  THEN [t EXCEPT !.signal = TRUE, !.runner = IF @ = "none" THEN @ ELSE "told"]
  ELSE t

\* park(): never reaches the runner.
ParkCall(t) ==
  IF t.running THEN [t EXCEPT !.park = TRUE, !.count = @ + 1] ELSE t

\* unpark() is refused once the park has taken effect.
UnparkAllowed_Always(t) == TRUE  \* mutant: also withdrawn once taken
UnparkAllowed(t) == ~t.taken
UnparkCall(t) == [t EXCEPT !.park = FALSE]

\* take_park(): the executor's check and commit at a run boundary.
TakePark(t) == [t EXCEPT !.taken = @ \/ t.park]

\* attach() stores the runner, then reads the flag: two steps.
AttachRunner(t) == [t EXCEPT !.runner = "attached"]
AttachCheck_Skipped(t) == t      \* mutant: the flag is not read
AttachCheck(t)  == [t EXCEPT !.runner = IF t.signal THEN "told" ELSE @]
DetachRunner(t) == [t EXCEPT !.runner = "none"]
==============================================================================
