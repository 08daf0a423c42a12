----------------------------- MODULE JobCatalog -----------------------------
(* The job files of a data directory as the TUI shows them: JobCatalog's    *)
(* cached validity of every file (services/job_catalog.py), its permanent   *)
(* job IDs (state/job_ids.py), the Jobs list that reads it on worker        *)
(* threads (tui/panes/job_definitions.py), the watcher that makes the list  *)
(* read again (tui/job_watch.py), the check before a submission             *)
(* (tui/app.py).  Editors change the files at any moment.                   *)
(*                                                                          *)
(* A file is its stamp (modification time and size, different after every   *)
(* change, 0 while it is not there) and whether its text is good.  Every    *)
(* job reads one file besides its own, the configuration: it is valid when  *)
(* both are good.  A symbolic link is read as a text that is not good.      *)
EXTENDS Integers, Sequences, FiniteSets, FiniteSetsExt

CONSTANTS
    Files,       \* the job file names, numbered in their order
    Config,      \* the file every job reads
    Words,       \* what a person may type for a job
    ExactFile,   \* [Words -> SUBSET Files]: the file with this very name
    StemFiles,   \* [Words -> SUBSET Files]: the files with this name before the suffix
    WordNumber,  \* [Words -> Nat]: the job ID the word is, 0 when it is none
    MaxReads, MaxFileEdits, MaxSubmits

ASSUME CatalogAssumption ==
    /\ Files \subseteq Nat /\ IsFiniteSet(Files) /\ Config \notin Files
    /\ ExactFile \in [Words -> SUBSET Files] /\ StemFiles \in [Words -> SUBSET Files] /\ WordNumber \in [Words -> Nat]

VARIABLES
    disk,        \* [Files \cup {Config} -> stamp and good]
    cache,       \* JobCatalog._cache; a history field, raced: the configuration changed between its parse and its signature
    numbers, present, counter,   \* job_definitions and its counter
    reads,       \* the reads begun, by request number: their places and what they hold
    list,        \* the rows the Jobs list shows; a history field, marked, tells a row mark_invalid wrote
    timer,       \* check_timer runs
    pause,       \* watch_pause runs: a read follows
    followed,    \* what the watcher reports: the job files, once begun, and the jobs' own files
    submitting,  \* submit_path: the file, the attempt and what it saw
    fileEdits,
    missed       \* history: a change the watcher did not report was made while a read was under way, or a read that is not the
                 \* newest took a valid job out of the cache

catalogVars == <<disk, cache, numbers, present, counter, reads, list, timer, pause, followed, submitting, fileEdits, missed>>

NoEntry == [own |-> 0, dep |-> 0, good |-> FALSE, raced |-> FALSE]
NoRow == [good |-> FALSE, raced |-> FALSE]
NoRead == [at |-> "none", fresh |-> FALSE, todo |-> {}, rows |-> [f \in {} |-> NoRow], file |-> 0, own |-> 0, seen |-> 0, good |-> FALSE,
           known |-> [f \in {} |-> 0], ids |-> [f \in {} |-> 0], watched |-> FALSE, depends |-> FALSE]
NoSubmission == [at |-> "idle", file |-> 0, attempt |-> 0, own |-> 0, good |-> FALSE, count |-> 0]

Listed == {f \in Files : disk[f].stamp # 0}
Signature(f) == disk[f].stamp
newest == Len(reads)
JobGood(f) == disk[f].good /\ disk[Config].good

CatalogInit ==
    /\ disk = [f \in Files \cup {Config} |-> [stamp |-> IF f \in {Config, Min(Files)} THEN 1 ELSE 0, good |-> f \in {Config, Min(Files)}]]
    /\ cache = [f \in Files |-> NoEntry]
    /\ numbers = [f \in Files |-> 0] /\ present = {} /\ counter = 0
    /\ reads = <<>> /\ list = [f \in {} |-> [good |-> FALSE, raced |-> FALSE, number |-> 0, marked |-> FALSE]]
    /\ timer = TRUE /\ pause = FALSE /\ followed = {}
    /\ submitting = NoSubmission
    /\ fileEdits = 0 /\ missed = FALSE

ReadAt(r, place) == reads[r].at = place
Goes(r, place) == reads' = [reads EXCEPT ![r].at = place]

---------------------------------------------------------------------------
(* Editors, and the watcher's events. *)

\* on_any_event and matters: a job file of the directory, or a file some valid job reads.  Both halves of the pause, the
\* event's own thread and the call on the app's, are one step.
Edit(f) ==
    /\ fileEdits < MaxFileEdits /\ fileEdits' = fileEdits + 1
    /\ \E there \in BOOLEAN, good \in BOOLEAN :
        /\ good => there
        /\ there \/ disk[f].stamp # 0
        /\ disk' = [disk EXCEPT ![f] = [stamp |-> IF there THEN fileEdits + 2 ELSE 0, good |-> good]]
    /\ pause' = (pause \/ f \in followed)
    /\ missed' = (missed \/ (f \notin followed /\ \E r \in DOMAIN reads : ~ReadAt(r, "none")))
    /\ UNCHANGED <<cache, numbers, present, counter, reads, list, timer, followed, submitting>>

---------------------------------------------------------------------------
(* JobsList.load and JobCatalog.read, on a worker thread of its own. *)

\* From the timer, from the pause after an event, or from /get jobs, which reads every file.
Load ==
    /\ newest < MaxReads
    /\ \E fresh \in BOOLEAN :
        /\ ~fresh => timer \/ pause
        /\ reads' = Append(reads, [NoRead EXCEPT !.at = "list", !.fresh = fresh])
    /\ pause' = FALSE /\ missed' = FALSE
    /\ UNCHANGED <<disk, cache, numbers, present, counter, list, timer, followed, submitting, fileEdits>>

ListFiles(r) ==
    /\ ReadAt(r, "list")
    /\ reads' = [reads EXCEPT ![r].at = "row", ![r].todo = Listed]
    /\ UNCHANGED <<disk, cache, numbers, present, counter, list, timer, pause, followed, submitting, fileEdits, missed>>

\* A valid job is cached with its file's signature and the signatures of what it reads; an invalid one is read every time.
Unchanged(f) == cache[f].own = Signature(f) /\ cache[f].good /\ cache[f].dep = Signature(Config)

WithRow(rows, f, row) == [g \in DOMAIN rows \cup {f} |-> IF g = f THEN row ELSE rows[g]]

\* _row: the file's own signature is taken before it is read.
JobRow(r) ==
    /\ ReadAt(r, "row") /\ reads[r].todo # {}
    /\ LET f == Min(reads[r].todo)
           rest == reads[r].todo \ {f}
       IN  reads' = [reads EXCEPT ![r] =
               IF Signature(f) = 0 THEN [@ EXCEPT !.todo = rest, !.rows = WithRow(reads[r].rows, f, NoRow)]
               ELSE IF ~@.fresh /\ Unchanged(f) THEN [@ EXCEPT !.todo = rest, !.rows = WithRow(reads[r].rows, f, [good |-> TRUE, raced |-> cache[f].raced])]
               ELSE [@ EXCEPT !.at = "text", !.todo = rest, !.file = f, !.own = Signature(f)]]
    /\ UNCHANGED <<disk, cache, numbers, present, counter, list, timer, pause, followed, submitting, fileEdits, missed>>

ReadJobText(r) ==
    /\ ReadAt(r, "text")
    /\ reads' = [reads EXCEPT ![r].at = IF disk[reads[r].file].good THEN "config" ELSE "keep", ![r].good = FALSE, ![r].seen = 0]
    /\ UNCHANGED <<disk, cache, numbers, present, counter, list, timer, pause, followed, submitting, fileEdits, missed>>

ReadConfig(r) ==
    /\ ReadAt(r, "config")
    /\ reads' = [reads EXCEPT ![r].at = "keep", ![r].good = disk[Config].good, ![r].seen = Signature(Config)]
    /\ UNCHANGED <<disk, cache, numbers, present, counter, list, timer, pause, followed, submitting, fileEdits, missed>>

\* is_newest
IsNewest(r) == r = newest

\* History: what read r leaves of the cache lacks a valid job that was in it.
TakesOut(r) == ~IsNewest(r) /\ \E f \in Files : cache[f].good /\ ~cache'[f].good

\* What the job reads is only known once it is parsed: its signature is taken after.
Keep(r) ==
    /\ ReadAt(r, "keep")
    /\ LET f == reads[r].file
           raced == reads[r].good /\ reads[r].seen # Signature(Config)
       IN  /\ cache' = [cache EXCEPT ![f] = [own |-> reads[r].own, dep |-> IF reads[r].good THEN Signature(Config) ELSE 0,
                                             good |-> reads[r].good, raced |-> raced]]
           /\ reads' = [reads EXCEPT ![r] =
                  [@ EXCEPT !.at = "row", !.file = 0, !.own = 0, !.seen = 0, !.good = FALSE,
                            !.rows = WithRow(reads[r].rows, f, [good |-> reads[r].good, raced |-> raced])]]
    /\ missed' = (missed \/ TakesOut(r))
    /\ UNCHANGED <<disk, numbers, present, counter, list, timer, pause, followed, submitting, fileEdits>>

\* The end of the rows: files not listed are forgotten, and the IDs known are read, outside the transaction.
Forget(r) ==
    /\ ReadAt(r, "row") /\ reads[r].todo = {}
    /\ LET listed == DOMAIN reads[r].rows
           complete == (\A f \in listed : numbers[f] # 0) /\ present = listed
       IN  /\ cache' = [f \in Files |-> IF f \in listed THEN cache[f] ELSE NoEntry]
           /\ reads' = [reads EXCEPT ![r].at = IF complete THEN "follow" ELSE "assign",
                                     ![r].known = IF complete THEN @ ELSE numbers,
                                     ![r].ids = [f \in listed |-> numbers[f]],
                                     ![r].depends = \E f \in listed : cache[f].good]
    /\ missed' = (missed \/ TakesOut(r))
    /\ UNCHANGED <<disk, numbers, present, counter, list, timer, pause, followed, submitting, fileEdits>>

\* Mutant of the next: the IDs read before the transaction decide which names are new.
KnownNumber_Before(r, f) == reads[r].known[f]

\* assign, one transaction, which reads the IDs again.
KnownNumber(r, f) == numbers[f]
Assign(r) ==
    /\ ReadAt(r, "assign")
    /\ LET listed == DOMAIN reads[r].rows
           unknown == {f \in listed : KnownNumber(r, f) = 0}
           given(f) == IF f \in unknown THEN counter + Cardinality({g \in unknown : g <= f}) ELSE KnownNumber(r, f)
       IN  /\ numbers' = [f \in Files |-> IF f \in unknown THEN given(f) ELSE numbers[f]]
           /\ counter' = counter + Cardinality(unknown)
           /\ present' = listed
           /\ reads' = [reads EXCEPT ![r].at = "follow", ![r].known = NoRead.known, ![r].ids = [f \in listed |-> given(f)]]
    /\ UNCHANGED <<disk, cache, list, timer, pause, followed, submitting, fileEdits, missed>>

\* JobWatcher.follow, by the newest read alone; a directory may not be there to watch.
Follow(r) ==
    /\ ReadAt(r, "follow")
    /\ IF IsNewest(r)
       THEN \E complete \in BOOLEAN :
               /\ followed' = Files \cup IF reads[r].depends /\ complete THEN {Config} ELSE {}
               /\ reads' = [reads EXCEPT ![r].at = "show", ![r].watched = complete]
       ELSE Goes(r, "show") /\ UNCHANGED followed
    /\ UNCHANGED <<disk, cache, numbers, present, counter, list, timer, pause, submitting, fileEdits, missed>>

\* Mutant of the next: the timer stops although an invalid job is listed.
MayRest_Watched(r) == reads[r].watched

\* The timer rests while everything a listed job depends on is watched; an invalid job's files are not known.
MayRest(r) == reads[r].watched /\ \A f \in DOMAIN reads[r].rows : reads[r].rows[f].good

\* show_listing, on the app's thread.
Show(r) ==
    /\ ReadAt(r, "show") /\ reads' = [reads EXCEPT ![r] = NoRead]
    /\ IF IsNewest(r)
       THEN /\ timer' = ~MayRest(r)
            /\ list' = [f \in DOMAIN reads[r].rows |-> [good |-> reads[r].rows[f].good, raced |-> reads[r].rows[f].raced,
                                                       number |-> reads[r].ids[f], marked |-> FALSE]]
       ELSE UNCHANGED <<timer, list>>
    /\ UNCHANGED <<disk, cache, numbers, present, counter, pause, followed, submitting, fileEdits, missed>>

---------------------------------------------------------------------------
(* JobCatalog.find: the file a person's word names. *)

FindFile(w) == IF ExactFile[w] \cap Listed # {} THEN ExactFile[w] \cap Listed ELSE StemFiles[w] \cap Listed

\* _find_id: among the rows shown, else in the store, if its file is there.
FindId(w, rows) ==
    LET shown == {f \in DOMAIN rows : rows[f].number = WordNumber[w]}
    IN  IF shown # {} THEN shown ELSE {f \in Listed : numbers[f] = WordNumber[w]}

\* Mutant of the next: a file's name is taken although the word is another file's ID.
Find_FileFirst(w, rows) ==
    LET byFile == FindFile(w) IN IF Cardinality(byFile) = 1 THEN byFile ELSE IF byFile # {} \/ WordNumber[w] = 0 THEN {} ELSE FindId(w, rows)

\* The one file, or none when the word is refused.
Find(w, rows) ==
    LET byFile == FindFile(w)
        byId == IF WordNumber[w] = 0 THEN {} ELSE FindId(w, rows)
    IN  IF Cardinality(byFile) > 1 THEN {}
        ELSE IF byFile = {} THEN byId
        ELSE IF byId # {} /\ byId # byFile THEN {} ELSE byFile

---------------------------------------------------------------------------
(* submit_path: the fast check before the request, made twice at most. *)

Submit ==
    /\ submitting.at = "idle" /\ submitting.count < MaxSubmits
    /\ \E f \in DOMAIN list :
        submitting' = [NoSubmission EXCEPT !.at = "parse", !.file = f, !.attempt = 1, !.own = Signature(f), !.count = submitting.count + 1]
    /\ UNCHANGED <<disk, cache, numbers, present, counter, reads, list, timer, pause, followed, fileEdits, missed>>

Over == [NoSubmission EXCEPT !.count = submitting.count]

\* The parse, on another thread: edits are free to happen before and after it.
CheckParse ==
    /\ submitting.at = "parse"
    /\ submitting' = [submitting EXCEPT !.at = "checked", !.good = JobGood(submitting.file)]
    /\ UNCHANGED <<disk, cache, numbers, present, counter, reads, list, timer, pause, followed, fileEdits, missed>>

\* The file's signature from before the parse; those of its dependencies are taken here, and equal themselves.
StillAsParsed == submitting.own = Signature(submitting.file)

\* Back on the app's thread: submitted, tried again, or marked invalid in the list (mark_invalid).
CheckEnds ==
    /\ submitting.at = "checked"
    /\ LET f == submitting.file
           marked == IF f \in DOMAIN list THEN [list EXCEPT ![f].good = FALSE, ![f].marked = TRUE] ELSE list
       IN  IF ~submitting.good THEN list' = marked /\ submitting' = Over
           ELSE IF StillAsParsed THEN submitting' = Over /\ UNCHANGED list
           ELSE IF submitting.attempt = 1
                THEN submitting' = [submitting EXCEPT !.at = "parse", !.attempt = 2, !.own = Signature(f)] /\ UNCHANGED list
                ELSE list' = marked /\ submitting' = Over
    /\ UNCHANGED <<disk, cache, numbers, present, counter, reads, timer, pause, followed, fileEdits, missed>>

ReadStep(r) ==
    ListFiles(r) \/ JobRow(r) \/ ReadJobText(r) \/ ReadConfig(r) \/ Keep(r) \/ Forget(r) \/ Assign(r) \/ Follow(r) \/ Show(r)

CatalogNext ==
    \/ \E f \in Files \cup {Config} : Edit(f)
    \/ Load \/ \E r \in DOMAIN reads : ReadStep(r)
    \/ Submit \/ CheckParse \/ CheckEnds

CatalogSpec == CatalogInit /\ [][CatalogNext]_catalogVars

---------------------------------------------------------------------------

AtRest == ~timer /\ ~pause /\ \A r \in DOMAIN reads : ReadAt(r, "none")

\* Once the list rests - its timer stopped, nothing reported and no read under way - it shows every job file there is, and
\* each as valid exactly when it is, whatever was edited meanwhile and however the reads overlapped.  Left out: a change made
\* before the watcher followed its file, a valid job an older read took out of the cache (its configuration is then not
\* followed), a configuration changed between its parse and its signature, and a row a submission marked invalid by hand.
RestingListIsTrue ==
    AtRest /\ ~missed =>
        /\ DOMAIN list = Listed
        /\ \A f \in Listed : ~list[f].raced /\ ~list[f].marked => list[f].good = JobGood(f)

\* The same without those exceptions, as the catalog's docstring has it.
ListNoticesEveryChange == AtRest => \A f \in DOMAIN list : list[f].good => JobGood(f)

\* A job ID names one file for good: the number a listing shows for a file is the one the store has for it, and no two
\* files ever get the same, although listings of several processes give new numbers at once.
IdsArePermanent ==
    /\ \A f \in DOMAIN list : list[f].number = numbers[f]
    /\ \A f, g \in Files : numbers[f] = numbers[g] /\ numbers[f] # 0 => f = g

\* No word runs another job than the one meant: the file found is the only one that has the word as its name or its ID.
WordNamesOneFile ==
    \A w \in Words : \A f \in Find(w, list) : \A g \in Listed :
        g \in FindFile(w) \/ (WordNumber[w] # 0 /\ numbers[g] = WordNumber[w]) => g = f

\* An ID names one file for good, and a word one job.
NamesHold == IdsArePermanent /\ WordNamesOneFile

\* The Jobs list at rest shows every job file and how each stands, and the IDs and names of the files hold.
CatalogTrue == RestingListIsTrue /\ NamesHold
=============================================================================
