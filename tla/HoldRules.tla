------------------------------ MODULE HoldRules ------------------------------
(* The hold of the queue as a value: services/queue_hold.py (HoldState and    *)
(* the rules of QueueHold) and services/queue_callers.py (who is an agent).   *)
(* A hold is made directly (by = NoEntry) or by the park reservation of the   *)
(* entry `by`, for a caller; its row in the settings table outlives the       *)
(* process.                                                                   *)
EXTENDS Naturals

NoEntry == 0
NoCaller == "none"
Agent == "mcp"

\* Anything but the MCP server's name, a missing caller included, is a person.
IsAgent(caller) == caller = Agent

\* since: whether the hold says since when; a hold that was read always does.
Holds(Entries, Callers) ==
  [held : BOOLEAN, since : BOOLEAN, by : Entries \cup {NoEntry},
   caller : Callers \cup {NoCaller}]

NotHeld == [held |-> FALSE, since |-> FALSE, by |-> NoEntry, caller |-> NoCaller]

NewHold(by, caller) == [held |-> TRUE, since |-> TRUE, by |-> by, caller |-> caller]
Damaged(h) == h.held /\ ~h.since

\* The settings row: absent, a saved hold, or text that cannot be read.
Rows(Entries, Callers) ==
  [text : {"absent", "saved", "damaged"}, by : Entries \cup {NoEntry},
   caller : Callers \cup {NoCaller}]

NoRow == [text |-> "absent", by |-> NoEntry, caller |-> NoCaller]
DamagedRow == [text |-> "damaged", by |-> NoEntry, caller |-> NoCaller]

\* Mutant: the caller is not saved.
SavedRow_NoCaller(h) == [text |-> "saved", by |-> h.by, caller |-> NoCaller]

SavedRow(h) == [text |-> "saved", by |-> h.by, caller |-> h.caller]

\* A row that cannot be read counts as held, by nobody: it never starts the queue.
ReadHold(row) ==
  [held   |-> row.text # "absent",
   since  |-> row.text = "saved",
   by     |-> IF row.text = "saved" THEN row.by ELSE NoEntry,
   caller |-> IF row.text = "saved" THEN row.caller ELSE NoCaller]

\* Mutant: a direct hold stays the park's.
AgainBy_Keeps(h, by) == h.by

\* _held_again: what a further hold makes of a hold that stands.
AgainBy(h, by) == IF by = NoEntry THEN NoEntry ELSE h.by

\* Mutant: an agent's hold stays the agent's.
AgainCaller_Keeps(h, by, caller) == h.caller

AgainCaller(h, by, caller) ==
  IF IsAgent(caller) # IsAgent(h.caller)
  THEN IF IsAgent(caller) THEN h.caller ELSE caller
  ELSE IF AgainBy(h, by) = NoEntry /\ h.by # NoEntry THEN caller ELSE h.caller

\* Mutant: a damaged hold is held again.
AfterHold_Repairs(h, by, caller) ==
  IF ~h.held THEN NewHold(by, caller)
  ELSE NewHold(AgainBy(h, by), AgainCaller(h, by, caller))

\* Mutant: a park does not hold the queue.
AfterHold_DirectOnly(h, by, caller) ==
  IF h.held \/ by # NoEntry THEN h ELSE NewHold(by, caller)

\* hold(): the hold after `caller` holds the queue by `by`.
AfterHold(h, by, caller) ==
  IF ~h.held THEN NewHold(by, caller)
  ELSE IF Damaged(h) THEN h
  ELSE NewHold(AgainBy(h, by), AgainCaller(h, by, caller))

\* _release(): whom the release concerns, and whom it is refused.
ReleaseApplies(h, onlyBy) == h.held /\ (onlyBy # NoEntry => h.by = onlyBy)
ReleaseRefused(h, caller) == IsAgent(caller) /\ ~IsAgent(h.caller)
==============================================================================
