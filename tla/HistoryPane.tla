---------------------------- MODULE HistoryPane ----------------------------
(* The TUI's Execution History list: pages of the state store read on        *)
(* worker threads while executions start, end and are deleted, the filter,   *)
(* the poll for another process's run (tui/panes/history.py), and a deletion *)
(* asked about one execution at a time and sent to the server                *)
(* (tui/deletion.py, server/routes_executions.py).                           *)
(*                                                                           *)
(* An execution is its number; a newer one has a higher number, and the list *)
(* is newest first.  Only the newest read is shown; `newest` says of a read  *)
(* under way whether none began after it (read_count).                       *)
EXTENDS Integers, Sequences, FiniteSets, Functions

CONSTANTS
    N,            \* executions that may ever be
    PageSize,     \* PAGE_SIZE
    MaxActions    \* bound: filters set, deletions asked for, requests that fail and executions others delete, together

ASSUME PaneAssumption == N \in Nat /\ PageSize \in Nat \ {0} /\ MaxActions \in Nat

VARIABLES
    history,   \* the executions stored: "none" (not yet), "running", "over", "gone"
    holder,    \* who holds the run lock: "free", "server" (the TUI follows its job) or "other"
    told,      \* events of the server's job the feed has not handed over yet
    pane,      \* busy, other_process_running, history_filter, reading, all_read
    rows,      \* the status each row shows, "-" for no row
    marks,     \* marked for deletion
    page,      \* the newest read_page; the answer of an older one is dropped (current)
    check,     \* the check of poll
    update,    \* the read_rows under way
    deletion,  \* the one DeleteFlow
    actions,   \* counter for the bound
    removed,   \* history: the executions a finished deletion of this TUI took away
    moved,     \* history: of the rows and the page read, those whose list an execution has left since; and the rows, when
               \* so many began that a page read on lies above them
    missed     \* history: the one check that follows another process's job was not made, or its answer was dropped

paneVars == <<history, holder, told, pane, rows, marks, page, check, update, deletion, actions, removed, moved, missed>>

Executions == 1 .. N
NoPage == [at |-> "none", filter |-> "all", offset |-> 0, limit |-> 0, list |-> <<>>, complete |-> TRUE]
NoCheck == [at |-> "none", newest |-> TRUE, top |-> 0, running |-> {}]
NoUpdate == [at |-> "none", newest |-> TRUE, ids |-> {}, status |-> [e \in Executions |-> "-"]]
NoDeletion == [at |-> "none", todo |-> <<>>, done |-> {}]

PaneInit ==
    /\ history = [e \in Executions |-> IF e < N THEN "over" ELSE "none"]
    /\ holder = "free" /\ told = <<>>
    /\ pane = [busy |-> FALSE, other |-> FALSE, filter |-> "all", reading |-> FALSE, allRead |-> TRUE]
    /\ rows = [e \in Executions |-> "-"] /\ marks = {}
    /\ page = NoPage /\ check = NoCheck /\ update = NoUpdate /\ deletion = NoDeletion
    /\ actions = 0 /\ removed = {} /\ moved = {} /\ missed = FALSE

ShownRows == {e \in Executions : rows[e] # "-"}
Stored == {e \in Executions : history[e] \in {"running", "over"}}

\* A run that no process is running any more reads as interrupted.
Status(e) == IF history[e] = "running" /\ holder = "free" THEN "interrupted" ELSE history[e]

\* Executions in a row, newest first: the i-th is the one that, with itself, i are no older than.
NoOlder(S, e) == {d \in S : d >= e}
NewestFirst(S) == [i \in 1 .. Cardinality(S) |-> CHOOSE e \in S : Cardinality(NoOlder(S, e)) = i]

\* The executions a filter shows.
Matching(filter) == {e \in Stored : filter = "all" \/ history[e] = "over"}
Listing(filter) == NewestFirst(Matching(filter))

Leaves == moved' = {"rows"} \cup (IF page.at = "read" THEN {"page"} ELSE {})

---------------------------------------------------------------------------
(* Jobs, and other clients. *)

\* The server or another process starts a job: executions a dead process left are closed, and the new one begins.
JobStarts ==
    /\ holder = "free"
    /\ \E e \in Executions, who \in {"server", "other"} :
        /\ history[e] = "none" /\ \A d \in Executions : d < e => history[d] # "none"
        /\ history' = [d \in Executions |-> IF d = e THEN "running" ELSE IF history[d] = "running" THEN "over" ELSE history[d]]
        /\ holder' = who
        /\ told' = IF who = "server" THEN Append(told, "started") ELSE told
    /\ UNCHANGED <<pane, rows, marks, page, check, update, deletion, actions, removed, moved, missed>>

\* It ends, or its process dies, which leaves its execution running in the store; the lock is free either way.
JobEnds ==
    /\ holder # "free"
    /\ \E clean \in BOOLEAN :
        /\ clean \/ holder = "other"
        /\ history' = [e \in Executions |-> IF history[e] = "running" /\ clean THEN "over" ELSE history[e]]
    /\ holder' = "free"
    /\ told' = IF holder = "server" THEN Append(told, "ended") ELSE told
    /\ missed' = (missed \/ (holder = "other" /\ ~pane.other))
    /\ UNCHANGED <<pane, rows, marks, page, check, update, deletion, actions, removed, moved>>

\* Another client deletes an execution, or retention does.
OtherDeletes ==
    /\ actions < MaxActions /\ actions' = actions + 1
    /\ \E e \in Executions : history[e] = "over" /\ history' = [history EXCEPT ![e] = "gone"]
    /\ Leaves
    /\ UNCHANGED <<holder, told, pane, rows, marks, page, check, update, deletion, removed, missed>>

---------------------------------------------------------------------------
(* Reads. *)

\* load, in a pane that shows these rows: a read from the top asks for as many rows as are shown.
Load(filter, offset, shown) ==
    /\ page' = [NoPage EXCEPT !.at = "asked", !.filter = filter, !.offset = offset,
                              !.limit = IF offset > 0 \/ shown < PageSize THEN PageSize ELSE shown]
    /\ update' = [update EXCEPT !.newest = update.at = "none"]
    /\ check' = [check EXCEPT !.newest = check.at = "none"]

ReadPage ==
    /\ page.at = "asked"
    /\ LET all == Listing(page.filter)
           list == SubSeq(all, page.offset + 1, IF Len(all) < page.offset + page.limit THEN Len(all) ELSE page.offset + page.limit)
           overtaken == page.offset > 0 /\ list # <<>> /\ \A i \in DOMAIN list : \A d \in ShownRows : list[i] > d
       IN  /\ page' = [page EXCEPT !.at = "read", !.list = [i \in DOMAIN list |-> <<list[i], Status(list[i])>>], !.complete = Len(list) < page.limit]
           /\ moved' = (moved \ {"page"}) \cup (IF overtaken THEN {"rows"} ELSE {})
    /\ UNCHANGED <<history, holder, told, pane, rows, marks, check, update, deletion, actions, removed, missed>>

Numbers(list) == {list[i][1] : i \in DOMAIN list}

ShowPage ==
    /\ page.at = "read"
    /\ LET kept == IF page.offset = 0 THEN {} ELSE ShownRows
           shown == [e \in Executions |->
               IF e \in kept THEN rows[e]
               ELSE IF e \in Numbers(page.list) THEN (CHOOSE r \in Range(page.list) : r[1] = e)[2] ELSE "-"]
        IN  /\ rows' = shown
            /\ pane' = [pane EXCEPT !.reading = FALSE, !.allRead = page.complete]
            /\ marks' = IF page.offset = 0 THEN marks \cap Numbers(page.list) ELSE marks
            /\ moved' = IF page.offset = 0 THEN (IF "page" \in moved THEN {"rows"} ELSE {}) ELSE moved \ {"page"}
    /\ page' = NoPage
    /\ UNCHANGED <<history, holder, told, check, update, deletion, actions, removed, missed>>

\* The cursor reaches the last row.
MayReadOn == ~pane.allRead /\ ~pane.reading

\* Mutant of the next: one row is passed over.
NextOffset_Over == Cardinality(ShownRows) + 1

\* The rows shown so far, row_count.
NextOffset == Cardinality(ShownRows)
ReadOn ==
    /\ ShownRows # {} /\ MayReadOn
    /\ pane' = [pane EXCEPT !.reading = TRUE]
    /\ Load(pane.filter, NextOffset, NextOffset)
    /\ UNCHANGED <<history, holder, told, rows, marks, deletion, actions, removed, moved, missed>>

\* /filter: the marks and the old filter's rows go at once.
SetFilter ==
    /\ actions < MaxActions /\ actions' = actions + 1
    /\ \E filter \in {"all", "over"} :
        /\ pane' = [pane EXCEPT !.filter = filter, !.reading = TRUE]
        /\ Load(filter, 0, 0)
    /\ rows' = [e \in Executions |-> "-"] /\ marks' = {}
    /\ moved' = moved \ {"rows"}
    /\ UNCHANGED <<history, holder, told, deletion, removed, missed>>

\* An event of the server's job, handed over by the feed: its start and its end read the pane again.
JobEvent ==
    /\ told # <<>> /\ told' = Tail(told)
    /\ pane' = [pane EXCEPT !.busy = Head(told) = "started", !.reading = TRUE]
    /\ Load(pane.filter, 0, NextOffset)
    /\ UNCHANGED <<history, holder, rows, marks, deletion, actions, removed, moved, missed>>

---------------------------------------------------------------------------
(* The poll. *)

RunningRows == {e \in ShownRows : rows[e] = "running"}

\* Mutant of the next: nothing more is read once the lock is free.
MayCheck_Held(held) == held

\* One more check follows the release of the lock.
MayCheck(held) == held \/ pane.other

PollHistory ==
    /\ ~pane.busy /\ ~pane.reading
    /\ LET held == holder # "free"
       IN  /\ pane' = [pane EXCEPT !.other = held]
           /\ IF MayCheck(held) THEN check' = [NoCheck EXCEPT !.at = "asked", !.running = RunningRows] ELSE UNCHANGED check
           /\ missed' = (missed \/ (check.at # "none" /\ MayCheck(held)))
           /\ held # pane.other \/ held
    /\ UNCHANGED <<history, holder, told, rows, marks, page, update, deletion, actions, removed, moved>>

\* check_lock, when the feed connects or is lost: no check follows it.
FeedChanges ==
    /\ ~pane.busy /\ pane.other # (holder # "free")
    /\ pane' = [pane EXCEPT !.other = ~@]
    /\ missed' = (missed \/ pane.other)
    /\ UNCHANGED <<history, holder, told, rows, marks, page, check, update, deletion, actions, removed, moved>>

CheckRead ==
    /\ check.at = "asked"
    /\ LET all == Listing(pane.filter)
       IN  check' = [check EXCEPT !.at = "read", !.top = IF all = <<>> THEN 0 ELSE all[1]]
    /\ UNCHANGED <<history, holder, told, pane, rows, marks, page, update, deletion, actions, removed, moved, missed>>

\* after_check: a newer execution reads the pane again, otherwise the running rows are read.
AfterCheck ==
    /\ check.at = "read"
    /\ missed' = (missed \/ ~check.newest)
    /\ IF ~check.newest
       THEN check' = NoCheck /\ UNCHANGED <<pane, page, update>>
       ELSE IF check.top # 0 /\ check.top \notin ShownRows
       THEN /\ pane' = [pane EXCEPT !.reading = TRUE]
            /\ page' = [NoPage EXCEPT !.at = "asked", !.filter = pane.filter, !.limit = IF NextOffset < PageSize THEN PageSize ELSE NextOffset]
                    /\ update' = [update EXCEPT !.newest = update.at = "none"]
            /\ check' = NoCheck
       ELSE /\ check' = NoCheck
            /\ update' = IF check.running # {} THEN [NoUpdate EXCEPT !.at = "asked", !.ids = check.running] ELSE update
            /\ UNCHANGED <<pane, page>>
    /\ UNCHANGED <<history, holder, told, rows, marks, deletion, actions, removed, moved>>

RowsRead ==
    /\ update.at = "asked"
    /\ update' = [update EXCEPT !.at = "read", !.status = [e \in Executions |-> IF e \in update.ids \cap Stored THEN Status(e) ELSE "-"]]
    /\ UNCHANGED <<history, holder, told, pane, rows, marks, page, check, deletion, actions, removed, moved, missed>>

\* update_rows: rows still shown, in place.
UpdateRows ==
    /\ update.at = "read"
    /\ update' = NoUpdate
    /\ missed' = (missed \/ ~update.newest)
    /\ rows' = [e \in Executions |-> IF update.newest /\ e \in ShownRows /\ update.status[e] # "-" THEN update.status[e] ELSE rows[e]]
    /\ UNCHANGED <<history, holder, told, pane, marks, page, check, deletion, actions, removed, moved>>

---------------------------------------------------------------------------
(* Marks, and a deletion. *)

Mark ==
    /\ \E e \in ShownRows : marks' = IF e \in marks THEN marks \ {e} ELSE marks \cup {e}
    /\ deletion.at = "none"
    /\ UNCHANGED <<history, holder, told, pane, rows, page, check, update, deletion, actions, removed, moved, missed>>

\* d on the marked rows or the selected one, and /delete filtered; a second while one is under way is refused.
\* The executions are read in full, and the server's dry run leaves out what is in use or gone.
AskToDelete ==
    /\ deletion.at = "none" /\ actions < MaxActions /\ actions' = actions + 1
    /\ \E chosen \in {marks \cap ShownRows} \cup (IF marks = {} THEN {{e} : e \in ShownRows} ELSE {}) \cup {Range(Listing(pane.filter))} :
        LET deletable == {e \in chosen : history[e] = "over"}
        IN  /\ deletable # {}
            /\ deletion' = [at |-> "dialog", todo |-> NewestFirst(deletable), done |-> {}]
    /\ UNCHANGED <<history, holder, told, pane, rows, marks, page, check, update, removed, moved, missed>>

\* The server deletes what is not in use and not gone, and says which.
Deletable(asked) == {e \in asked : history[e] = "over"}
ServerDeletes(asked) == history' = [e \in Executions |-> IF e \in Deletable(asked) THEN "gone" ELSE history[e]]

\* The dialog's answer for the first execution left: Delete, Skip, Delete all, or Cancel.  A request may fail, and what it
\* was to delete may be deleted nevertheless; the ones before it count.
Answer ==
    /\ deletion.at = "dialog"
    /\ \/ /\ deletion' = [deletion EXCEPT !.todo = Tail(@), !.at = IF Len(deletion.todo) = 1 THEN "over" ELSE "dialog"]
          /\ UNCHANGED <<history, moved, actions>>
       \/ /\ deletion' = [deletion EXCEPT !.at = "over"]
          /\ UNCHANGED <<history, moved, actions>>
       \/ \E all \in BOOLEAN :
            LET asked == IF all THEN Range(deletion.todo) ELSE {Head(deletion.todo)}
            IN  /\ ServerDeletes(asked) /\ Leaves
                /\ \/ /\ deletion' = [at |-> IF all \/ Len(deletion.todo) = 1 THEN "over" ELSE "dialog", todo |-> IF all THEN <<>> ELSE Tail(deletion.todo),
                                      done |-> deletion.done \cup Deletable(asked)]
                      /\ UNCHANGED actions
                   \/ /\ actions < MaxActions /\ actions' = actions + 1
                      /\ deletion' = [deletion EXCEPT !.at = "over"]
    /\ UNCHANGED <<holder, told, pane, rows, marks, page, check, update, removed, missed>>

\* A request that never arrived.
AnswerLost ==
    /\ deletion.at = "dialog" /\ actions < MaxActions
    /\ actions' = actions + 1
    /\ deletion' = [deletion EXCEPT !.at = "over"]
    /\ UNCHANGED <<history, holder, told, pane, rows, marks, page, check, update, removed, moved, missed>>

\* Mutant of the next: the rows are dropped, and nothing is read.
RereadAfterRemoval_None == UNCHANGED <<pane, page, update, check>>

RereadAfterRemoval ==
    /\ pane' = [pane EXCEPT !.reading = TRUE]
    /\ Load(pane.filter, 0, Cardinality(ShownRows \ deletion.done))

\* remove_rows, when anything was deleted: the rows and every mark go at once, and the pane is read again.
DeletionEnds ==
    /\ deletion.at = "over"
    /\ deletion' = NoDeletion
    /\ removed' = removed \cup deletion.done
    /\ IF deletion.done = {} THEN UNCHANGED <<rows, marks, pane, page, update, check>>
       ELSE /\ rows' = [e \in Executions |-> IF e \in deletion.done THEN "-" ELSE rows[e]]
            /\ marks' = {}
            /\ RereadAfterRemoval
    /\ UNCHANGED <<history, holder, told, actions, moved, missed>>

PaneNext ==
    \/ JobStarts \/ JobEnds \/ OtherDeletes
    \/ ReadPage \/ ShowPage \/ ReadOn \/ SetFilter \/ JobEvent
    \/ PollHistory \/ FeedChanges \/ CheckRead \/ AfterCheck \/ RowsRead \/ UpdateRows
    \/ Mark \/ AskToDelete \/ Answer \/ AnswerLost \/ DeletionEnds

PaneSpec == PaneInit /\ [][PaneNext]_paneVars

---------------------------------------------------------------------------

\* Unless an execution left the filter's list since the rows were read from the top, or more began than the rows and a page hold, the rows are an unbroken piece of that
\* list: nothing of another filter, nothing skipped between two pages, and nothing left below them once all is read.
NothingSkipped ==
    "rows" \notin moved =>
        LET matching == Matching(pane.filter)
        IN  /\ ShownRows \subseteq matching \cup {e \in Executions : history[e] = "running"}
            /\ \A e \in matching \ ShownRows :
                \/ \A d \in ShownRows : d < e
                \/ (\A d \in ShownRows : d > e) /\ (~pane.allRead \/ pane.reading \/ ShownRows = {})

\* What a deletion of this TUI took away never comes back, whatever was read before it, and what is marked for the next
\* deletion is a row that shows.
NoGhosts == removed \cap ShownRows = {} /\ marks \subseteq ShownRows

\* Once a job of another process is over and the poll has seen it, no row of an execution still stored says that it runs.  Left out: a job that began and
\* ended between two polls, a feed that connects or is lost in between, and a read of the pane that drops the check's answer.
RunningSettles ==
    holder = "free" /\ told = <<>> /\ ~pane.busy /\ ~pane.other /\ ~pane.reading /\ check.at = "none" /\ update.at = "none" /\ ~missed
        => RunningRows \cap Stored = {}

\* The rows of the History pane are the store's: none skipped, none come back, none running that is over.
HistoryTrue == NothingSkipped /\ NoGhosts /\ RunningSettles
=============================================================================
