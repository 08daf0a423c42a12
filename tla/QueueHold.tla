------------------------------ MODULE QueueHold ------------------------------
(* The hold of the queue in memory and in its settings row                    *)
(* (services/queue_hold.py, class QueueHold): made directly or by a park      *)
(* reservation, by a person or an agent, lost from memory at a restart and    *)
(* read back from its row.  Each action is one call, under QueueHold's lock;  *)
(* a write of the row that fails raises before the memory changes, so it      *)
(* changes nothing.                                                           *)
EXTENDS HoldRules

CONSTANTS
  Entries,   \* the entries whose park reservations may hold the queue
  Callers    \* the names callers give themselves

ASSUME HoldAssumption ==
  /\ NoEntry \notin Entries
  /\ NoCaller \notin Callers

VARIABLES
  mem,       \* QueueHold's _state; NotHeld while the server is down
  row,       \* the settings row
  up,        \* whether the server runs
  direct,    \* history: a direct hold was asked for since the queue was last free
  person,    \* history: a person asked for a hold since then
  lastBy     \* history: the caller of the last step, NoCaller for a restart

holdVars == <<mem, row, up, direct, person, lastBy>>

HoldTypeOK ==
  /\ mem \in Holds(Entries, Callers)
  /\ row \in Rows(Entries, Callers)
  /\ up \in BOOLEAN
  /\ direct \in BOOLEAN
  /\ person \in BOOLEAN
  /\ lastBy \in Callers \cup {NoCaller}

\* A first start: no row, or one that cannot be read.
HoldInit ==
  /\ mem = NotHeld
  /\ row \in {NoRow, DamagedRow}
  /\ up = FALSE
  /\ direct = FALSE
  /\ person = FALSE
  /\ lastBy = NoCaller

\* The row is written first: the process may end before the memory is.
Remember(h) == up' \in BOOLEAN /\ mem' = IF up' THEN h ELSE NotHeld

\* hold(): the row first, then the memory; neither when nothing changes.
Hold(by, caller) ==
  /\ up
  /\ Remember(AfterHold(mem, by, caller))
  /\ row' = IF AfterHold(mem, by, caller) = mem THEN row
            ELSE SavedRow(AfterHold(mem, by, caller))
  /\ direct' = (direct \/ by = NoEntry)
  /\ person' = (person \/ ~IsAgent(caller))
  /\ lastBy' = caller

\* release(), and release_if_by() for an unpark: refused, or not concerned, they
\* change nothing.
Release(onlyBy, caller) ==
  /\ up
  /\ ReleaseApplies(mem, onlyBy)
  /\ ~ReleaseRefused(mem, caller)
  /\ Remember(NotHeld)
  /\ row' = NoRow
  /\ direct' = FALSE
  /\ person' = FALSE
  /\ lastBy' = caller

\* The process ends, or a new one reads the row.
Restart ==
  /\ up' = IF up THEN FALSE ELSE TRUE
  /\ mem' = IF up THEN NotHeld ELSE ReadHold(row)
  /\ lastBy' = NoCaller
  /\ UNCHANGED <<row, direct, person>>

HoldNext ==
  \/ \E by \in Entries \cup {NoEntry}, caller \in Callers :
       Hold(by, caller) \/ Release(by, caller)
  \/ Restart

HoldSpec == HoldInit /\ [][HoldNext]_holdVars

------------------------------------------------------------------------------
\* A restart neither makes, ends nor changes hands of a hold, whatever sequence
\* of holds and crashes came before it: the row always says what the memory does.
MemoryIsRow == up => mem = ReadHold(row)

\* _held_again: "A direct hold makes a park's hold its own, so a later unpark no
\* longer releases it", after a restart too.
DirectOutlivesUnpark == direct => ReadHold(row).by = NoEntry

\* _held_again: "an agent cannot release what a person's park or hold relies on;
\* an agent never comes to own a person's hold": from the first hold a person
\* asks for, through any holds and restarts, no step of an agent frees the queue.
PersonsHoldStays ==
  [][person /\ ReadHold(row).held /\ ~ReadHold(row').held =>
       ~IsAgent(lastBy')]_holdVars

\* A row that cannot be read keeps the queue held until a person releases it.
DamagedNeedsPerson ==
  [][row = DamagedRow /\ row' # row =>
       row' = NoRow /\ ~IsAgent(lastBy') /\ lastBy' # NoCaller]_holdVars

\* A hold, and who may end it, survive a restart.
HoldKept == MemoryIsRow /\ DirectOutlivesUnpark
==============================================================================
