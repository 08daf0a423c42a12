----------------------------- MODULE ApiWrites -----------------------------
(* The HTTP server's writes: what a request passes before its route, the    *)
(* submission that freezes a job (services/queue_submit.py), one-off        *)
(* generations, resumes as far as they take a frozen job again, the writes  *)
(* of job files (services/job_files_write.py), and the copies of reference  *)
(* files a frozen job owns, until retention removes them.  People edit the  *)
(* job file, its base configuration and its reference files at any moment,  *)
(* without the server's lock.                                               *)
(*                                                                          *)
(* A text, a configuration and a reference file are version numbers, 0 for  *)
(* a file that is not there.  Parsing is the constant relation Valid, with  *)
(* the server's rules in it.                                                *)
EXTENDS Integers, Sequences, FiniteSets, FiniteSetsExt

CONSTANTS
    Threads,         \* the server's request threads
    Versions,        \* versions of the job's text, its configuration and its reference file
    Directories,     \* names for the directories of the copies, none of them 0 (a bound)
    Valid,           \* the <<text, config, reference>> the parser and the API's rules accept
    WithReference,   \* the texts that name the reference file
    MaxQueued,       \* api_limits.max_queued_jobs
    MaxRequests,     \* requests in one behaviour
    MaxEdits,        \* edits by hand in one behaviour
    MaxCrashes       \* crashes and insertions that fail, in one behaviour

ASSUME ApiAssumption ==
    /\ 1 \in Versions /\ 0 \notin Directories /\ "free" \notin Threads
    /\ MaxQueued \in Nat

VARIABLES
    jobFile, configFile, refFile,   \* the files, by version
    saved,           \* texts in the backups and the trash
    lock,            \* context.submission_lock: the thread that holds it, or "free"
    req,             \* each thread's request
    queue,           \* the queue's rows
    copies,          \* the directories under queue-inputs: the copied version, 0 until the copy is complete
    old,             \* the directories last changed an hour ago or more
    asked, edits, crashes,          \* counters for the bounds
    orphans          \* history: directories whose submission crashed or whose row was pruned

apiVars == <<jobFile, configFile, refFile, saved, lock, req, queue, copies, old, asked, edits, crashes, orphans>>

JobWrites == {"replace", "create", "delete"}
Actions == {"submit", "generate", "resume"} \cup JobWrites

Idle == [op |-> "none", at |-> "idle", text |-> 0, config |-> 0, ref |-> 0, copy |-> 0, expect |-> 0, auth |-> FALSE, rows |-> 0,
         late |-> FALSE, raced |-> FALSE]

ApiInit ==
    /\ jobFile \in {0, 1} /\ configFile = 1 /\ refFile = 1
    /\ saved = {} /\ lock = "free"
    /\ req = [t \in Threads |-> Idle]
    /\ queue = <<>> /\ copies = <<>> /\ old = {}
    /\ asked = 0 /\ edits = 0 /\ crashes = 0 /\ orphans = {}

Queued == {i \in DOMAIN queue : queue[i].state = "queued"}
Active == {i \in DOMAIN queue : queue[i].state \in {"queued", "running"} /\ queue[i].kind = "job"}
Existing == DOMAIN copies
\* A directory's name is never that of an earlier one (a UUID).
UnusedNames == Directories \ (orphans \cup Existing \cup {queue[i].copy : i \in DOMAIN queue})
NextCopy == CHOOSE c \in UnusedNames : TRUE

At(t, place) == req[t].at = place
Step(t, place) == req' = [req EXCEPT ![t].at = place]

---------------------------------------------------------------------------
(* Before the route. *)

\* Mutant of the next: a body FastAPI refuses is recorded only by the route, which it never reaches.
RefusalRecorded_NoBody(op, auth, body) == auth /\ body = "large"

\* Whether a request refused before its route's own audited block has a row: BodyLimit._refuse and _audit_unparsed_body
\* record an authenticated one, a missing token is never recorded.
RefusalRecorded(op, auth, body) == auth /\ body \in {"large", "malformed"}

\* The routes of /v1/jobs read their own body, inside the audited block and so after the token; the others' bodies are
\* read by FastAPI first.
ReachesRoute(op, auth, body) ==
    /\ body # "large"
    /\ auth
    /\ body = "malformed" => op \in JobWrites

\* parse_generation runs in the route, before the lock, and reads nothing another step of this module changes.
GenerationParses(op, body) == op = "generate" => body # "refused"

\* A request, and how far it gets: its body may be too large or malformed, its token missing, its caller unknown, what it
\* asks to generate refused.
Arrive(t) ==
    /\ At(t, "idle") /\ asked < MaxRequests
    /\ asked' = asked + 1
    /\ \E op \in Actions, auth \in BOOLEAN, body \in {"large", "malformed", "refused", "fine"}, caller \in BOOLEAN,
          text \in Versions, expect \in Versions :
        LET r == [Idle EXCEPT !.op = op, !.auth = auth]
        IN  req' = [req EXCEPT ![t] =
               IF ~ReachesRoute(op, auth, body)
               THEN [r EXCEPT !.at = "answered", !.rows = IF RefusalRecorded(op, auth, body) THEN 1 ELSE 0]
               ELSE IF body = "malformed" \/ ~caller \/ ~GenerationParses(op, body) THEN [r EXCEPT !.at = "failed"]
               ELSE [r EXCEPT !.at = "lock", !.text = IF op \in {"replace", "create"} THEN text ELSE 0,
                              !.expect = IF op \in {"replace", "delete"} THEN expect ELSE 0]]
    /\ UNCHANGED <<jobFile, configFile, refFile, saved, lock, queue, copies, old, edits, crashes, orphans>>

\* Every route takes the submission lock around all its reading and writing.
FirstStep(op) ==
    CASE op = "submit" -> "read" [] op = "generate" -> "insert" [] op = "resume" -> "find" [] op \in {"replace", "create"} -> "validate"
      [] op = "delete" -> "active"
Lock(t) ==
    /\ At(t, "lock") /\ lock = "free"
    /\ lock' = t /\ Step(t, FirstStep(req[t].op))
    /\ UNCHANGED <<jobFile, configFile, refFile, saved, queue, copies, old, asked, edits, crashes, orphans>>

\* The end of the route: the lock released, one row in the audit log, the answer sent.
Answer(t) ==
    /\ req[t].at \in {"failed", "ok"}
    /\ lock' = IF lock = t THEN "free" ELSE lock
    /\ req' = [req EXCEPT ![t].at = "answered", ![t].rows = @ + 1]
    /\ UNCHANGED <<jobFile, configFile, refFile, saved, queue, copies, old, asked, edits, crashes, orphans>>

Leave(t) ==
    /\ At(t, "answered")
    /\ req' = [req EXCEPT ![t] = Idle]
    /\ UNCHANGED <<jobFile, configFile, refFile, saved, lock, queue, copies, old, asked, edits, crashes, orphans>>

---------------------------------------------------------------------------
(* submit_job, its steps in the order the files are read. *)

RefOf(text, ref) == IF text \in WithReference THEN ref ELSE 0
Parses(text, config, ref) == <<text, config, RefOf(text, ref)>> \in Valid

\* check_queue_not_full, inside check_api_rules and for a generation.
RoomInQueue == Cardinality(Queued) < MaxQueued

ReadText(t) ==
    /\ At(t, "read")
    /\ req' = [req EXCEPT ![t].at = IF jobFile = 0 THEN "failed" ELSE "parse1", ![t].text = jobFile]
    /\ UNCHANGED <<jobFile, configFile, refFile, saved, lock, queue, copies, old, asked, edits, crashes, orphans>>

\* The first parse, from disk, and before_submit.
Parse1(t) ==
    /\ At(t, "parse1")
    /\ Step(t, IF Parses(req[t].text, configFile, refFile) /\ RoomInQueue THEN "config" ELSE "failed")
    /\ UNCHANGED <<jobFile, configFile, refFile, saved, lock, queue, copies, old, asked, edits, crashes, orphans>>

\* snapshot_config of every profile.
SnapshotConfig(t) ==
    /\ At(t, "config")
    /\ req' = [req EXCEPT ![t].at = IF configFile = 0 THEN "failed" ELSE "parse2", ![t].config = configFile]
    /\ UNCHANGED <<jobFile, configFile, refFile, saved, lock, queue, copies, old, asked, edits, crashes, orphans>>

\* Mutant of the next: the texts to be stored are not parsed again.
Reparsed_FromDisk(t) == TRUE

\* The second parse, of the exact texts about to be stored.
Reparsed(t) == Parses(req[t].text, req[t].config, refFile)
Parse2(t) ==
    /\ At(t, "parse2")
    /\ req' = [req EXCEPT ![t].at = IF ~Reparsed(t) THEN "failed" ELSE IF req[t].text \in WithReference THEN "mkdir" ELSE "insert",
                          ![t].ref = RefOf(req[t].text, refFile)]
    /\ UNCHANGED <<jobFile, configFile, refFile, saved, lock, queue, copies, old, asked, edits, crashes, orphans>>

\* snapshot_references: a directory of its own, then the copy, compared with the digest of the file just parsed.
MakeDirectory(t) ==
    /\ At(t, "mkdir") /\ UnusedNames # {}
    /\ req' = [req EXCEPT ![t].at = "copy", ![t].copy = NextCopy]
    /\ copies' = [c \in Existing \cup {NextCopy} |-> IF c \in Existing THEN copies[c] ELSE 0]
    /\ UNCHANGED <<jobFile, configFile, refFile, saved, lock, queue, old, asked, edits, crashes, orphans>>

Without(dirs) == [c \in Existing \ dirs |-> copies[c]]

CopyReference(t) ==
    /\ At(t, "copy")
    /\ IF refFile = req[t].ref
       THEN /\ copies' = [copies EXCEPT ![req[t].copy] = refFile]
            /\ Step(t, "verify")
       ELSE /\ copies' = Without({req[t].copy})
            /\ req' = [req EXCEPT ![t].at = "failed", ![t].copy = 0]
    /\ UNCHANGED <<jobFile, configFile, refFile, saved, lock, queue, old, asked, edits, crashes, orphans>>

\* verify_snapshot, and the third parse, which reads the copies.
VerifyCopy(t) ==
    /\ At(t, "verify")
    /\ IF req[t].copy \in Existing /\ copies[req[t].copy] = req[t].ref /\ Parses(req[t].text, req[t].config, copies[req[t].copy])
       THEN Step(t, "insert") /\ UNCHANGED copies
       ELSE /\ copies' = Without({req[t].copy})
            /\ req' = [req EXCEPT ![t].at = "failed", ![t].copy = 0]
    /\ UNCHANGED <<jobFile, configFile, refFile, saved, lock, queue, old, asked, edits, crashes, orphans>>

Row(t) == [kind |-> IF req[t].op = "generate" THEN "generate" ELSE "job", text |-> req[t].text, config |-> req[t].config,
           ref |-> req[t].ref, copy |-> req[t].copy, state |-> "queued", raced |-> req[t].raced]

\* cleanup_snapshot, of what the submission copied; a resume owns no copies.
CleanupSnapshot(t) == copies' = IF req[t].op = "submit" THEN Without({req[t].copy}) ELSE copies

\* Mutant of the next: the room counted before the lock was taken.
InsertAllowed_Unchecked(t) == TRUE

\* A generation counts here; a submission and a resume have counted under this same lock already.
InsertAllowed(t) == req[t].op = "generate" => RoomInQueue

Insert(t) ==
    /\ At(t, "insert")
    /\ \/ InsertAllowed(t) /\ queue' = Append(queue, Row(t)) /\ Step(t, "ok") /\ UNCHANGED <<copies, crashes>>
       \/ /\ ~InsertAllowed(t) \/ crashes < MaxCrashes
          /\ crashes' = IF InsertAllowed(t) THEN crashes + 1 ELSE crashes
          /\ CleanupSnapshot(t) /\ req' = [req EXCEPT ![t].at = "failed", ![t].copy = 0] /\ UNCHANGED queue
    /\ UNCHANGED <<jobFile, configFile, refFile, saved, lock, old, asked, edits, orphans>>

\* resume_entry takes everything frozen from the row it resumes, and counts its place in the queue.
FindEntry(t) ==
    /\ At(t, "find")
    /\ \/ \E i \in DOMAIN queue :
            /\ queue[i].state = "finished" /\ queue[i].kind = "job" /\ RoomInQueue
            /\ queue[i].copy # 0 => queue[i].copy \in Existing
            /\ req' = [req EXCEPT ![t].at = "insert", ![t].text = queue[i].text, ![t].config = queue[i].config,
                                  ![t].ref = queue[i].ref, ![t].copy = queue[i].copy]
       \/ Step(t, "failed")
    /\ UNCHANGED <<jobFile, configFile, refFile, saved, lock, queue, copies, old, asked, edits, crashes, orphans>>

---------------------------------------------------------------------------
(* replace_job, create_job and delete_job. *)

ValidateText(t) ==
    /\ At(t, "validate")
    /\ Step(t, IF ~Parses(req[t].text, configFile, refFile) THEN "failed" ELSE IF req[t].op = "create" THEN "link" ELSE "active")
    /\ UNCHANGED <<jobFile, configFile, refFile, saved, lock, queue, copies, old, asked, edits, crashes, orphans>>

\* _atomic_create links a complete file to a name that must be free.
LinkNew(t) ==
    /\ At(t, "link")
    /\ jobFile' = IF jobFile = 0 THEN req[t].text ELSE jobFile
    /\ Step(t, IF jobFile = 0 THEN "ok" ELSE "failed")
    /\ UNCHANGED <<configFile, refFile, saved, lock, queue, copies, old, asked, edits, crashes, orphans>>

\* Mutant of the next: only a running entry keeps its job file.
IsActive_Running(i) == queue[i].state = "running"

\* list_active
IsActive(i) == queue[i].state \in {"queued", "running"}
CheckActive(t) ==
    /\ At(t, "active")
    /\ Step(t, IF \E i \in DOMAIN queue : queue[i].kind = "job" /\ IsActive(i) THEN "failed" ELSE "current")
    /\ UNCHANGED <<jobFile, configFile, refFile, saved, lock, queue, copies, old, asked, edits, crashes, orphans>>

\* _read_current and _check_hash_current: the file is still the one the client read.
CheckCurrent(t) ==
    /\ At(t, "current")
    /\ Step(t, IF jobFile = 0 \/ jobFile # req[t].expect THEN "failed"
               ELSE IF req[t].op = "replace" /\ jobFile = req[t].text THEN "ok" ELSE "backup")
    /\ UNCHANGED <<jobFile, configFile, refFile, saved, lock, queue, copies, old, asked, edits, crashes, orphans>>

\* A replacement writes the text it read to the backups, a deletion links the file itself into the trash.
Backup(t) ==
    /\ At(t, "backup")
    /\ saved' = saved \cup {IF req[t].op = "replace" THEN req[t].expect ELSE jobFile}
    /\ Step(t, "write")
    /\ UNCHANGED <<jobFile, configFile, refFile, lock, queue, copies, old, asked, edits, crashes, orphans>>

Write(t) ==
    /\ At(t, "write")
    /\ jobFile' = IF req[t].op = "replace" THEN req[t].text ELSE 0
    /\ Step(t, "ok")
    /\ UNCHANGED <<configFile, refFile, saved, lock, queue, copies, old, asked, edits, crashes, orphans>>

---------------------------------------------------------------------------
(* Everyone else: editors, the worker, time, retention, a crash. *)

EditByHand ==
    /\ edits < MaxEdits /\ edits' = edits + 1
    /\ \/ jobFile' \in Versions \cup {0} /\ jobFile' # jobFile /\ UNCHANGED <<configFile, refFile>>
       \/ configFile' \in Versions \cup {0} /\ configFile' # configFile /\ UNCHANGED <<jobFile, refFile>>
       \/ refFile' \in Versions \cup {0} /\ refFile' # refFile /\ UNCHANGED <<jobFile, configFile>>
    /\ req' = [t \in Threads |-> IF req[t].at \in {"backup", "write"} THEN [req[t] EXCEPT !.late = TRUE] ELSE req[t]]
    /\ UNCHANGED <<saved, lock, queue, copies, old, asked, crashes, orphans>>

\* The worker claims an entry, and ends it; parse_snapshot reads nothing but the row and its copies.
Claim ==
    /\ Queued # {} /\ \A i \in DOMAIN queue : queue[i].state # "running"
    /\ LET i == Min(Queued)
       IN  queue' = [queue EXCEPT ![i].state = IF queue[i].copy # 0 /\ queue[i].copy \notin Existing THEN "refused" ELSE "running"]
    /\ UNCHANGED <<jobFile, configFile, refFile, saved, lock, req, copies, old, asked, edits, crashes, orphans>>

Finish ==
    /\ \E i \in DOMAIN queue : queue[i].state = "running" /\ queue' = [queue EXCEPT ![i].state = "finished"]
    /\ UNCHANGED <<jobFile, configFile, refFile, saved, lock, req, copies, old, asked, edits, crashes, orphans>>

InHand == {req[t].copy : t \in {u \in Threads : req[u].op = "submit" /\ req[u].at \in {"copy", "verify", "insert"}}}

\* An hour, longer than a submission may copy (600 seconds).
AnHour ==
    /\ Existing \ InHand # old
    /\ old' = Existing \ InHand
    /\ UNCHANGED <<jobFile, configFile, refFile, saved, lock, req, queue, copies, asked, edits, crashes, orphans>>

\* Mutant of the next: retention removes every directory without a row.
Removable_Unowned(c, rows) == \A i \in DOMAIN rows : rows[i].copy # c

\* cleanup_reference_snapshots keeps a directory some row names, and a recent one.
Removable(c, rows) == c \in old /\ \A i \in DOMAIN rows : rows[i].copy # c

\* Store.prune: an old finished row goes, then the directories no row names.  Any process that opens the store to run a
\* job prunes, the server's lock held or not.
Prune ==
    /\ \E dropped \in SUBSET {i \in DOMAIN queue : queue[i].state = "finished"} :
        LET rows == [i \in DOMAIN queue |-> IF i \in dropped THEN [queue[i] EXCEPT !.state = "pruned", !.copy = 0] ELSE queue[i]]
            gone == {c \in Existing : Removable(c, rows)}
        IN  /\ Cardinality(dropped) <= 1 /\ (dropped # {} \/ gone # {})
            /\ queue' = rows
            /\ copies' = Without(gone) /\ old' = old \ gone
            /\ orphans' = orphans \cup gone \cup {queue[i].copy : i \in dropped}
            /\ req' = [t \in Threads |-> IF req[t].op = "resume" /\ At(t, "insert") THEN [req[t] EXCEPT !.raced = TRUE] ELSE req[t]]
    /\ UNCHANGED <<jobFile, configFile, refFile, saved, lock, asked, edits, crashes>>

\* The server dies, and is started again: its threads and its lock are gone, the files stay.
Crash ==
    /\ crashes < MaxCrashes /\ crashes' = crashes + 1
    /\ orphans' = orphans \cup InHand
    /\ req' = [t \in Threads |-> Idle] /\ lock' = "free"
    /\ UNCHANGED <<jobFile, configFile, refFile, saved, queue, copies, old, asked, edits>>

RequestStep(t) ==
    \/ Arrive(t) \/ Lock(t) \/ Answer(t) \/ Leave(t)
    \/ ReadText(t) \/ Parse1(t) \/ SnapshotConfig(t) \/ Parse2(t) \/ MakeDirectory(t) \/ CopyReference(t) \/ VerifyCopy(t)
    \/ Insert(t) \/ FindEntry(t)
    \/ ValidateText(t) \/ LinkNew(t) \/ CheckActive(t) \/ CheckCurrent(t) \/ Backup(t) \/ Write(t)

ApiNext == (\E t \in Threads : RequestStep(t)) \/ EditByHand \/ Claim \/ Finish \/ AnHour \/ Prune \/ Crash

ApiSpec == ApiInit /\ [][ApiNext]_apiVars

---------------------------------------------------------------------------

\* What the queue holds was accepted by the parser in exactly the form it is stored, all of it together: whatever was
\* edited by hand between two reads of a submission (submit_job).
StoredAsValidated ==
    \A i \in DOMAIN queue : queue[i].kind = "job" => <<queue[i].text, queue[i].config, queue[i].ref>> \in Valid

\* The reference copies of an entry that waits or runs are there, unchanged, until it ends, and no submission that was
\* refused leaves its copies behind.  Left out: a row pruned by another process between a resume's read of it and its
\* insertion, whose copies may go with it.
CopiesStand ==
    /\ \A i \in DOMAIN queue :
        queue[i].state \in {"queued", "running"} /\ queue[i].copy # 0 /\ ~queue[i].raced =>
            queue[i].copy \in Existing /\ copies[queue[i].copy] = queue[i].ref
    /\ \A c \in Existing : c \in orphans \cup InHand \/ \E i \in DOMAIN queue : queue[i].copy = c

\* Submissions, generations and resumes that arrive together never fill the queue past its limit.
QueueBound == Cardinality(Queued) <= MaxQueued

\* A write of the API changes the job file only while no entry of it waits or runs, and what it replaces or deletes is the
\* text its client had read, kept in the backups or the trash first; unless someone edited the file by hand between that
\* check and the write.
FileWritesSafe ==
    [][jobFile' # jobFile /\ edits' = edits =>
        /\ jobFile # 0 => Active = {}
        /\ jobFile # 0 => \E t \in Threads : At(t, "write") /\ ~At(t, "write")'
              /\ (~req[t].late => jobFile = req[t].expect /\ jobFile \in saved)]_apiVars

\* Every authenticated write that was answered has exactly one row in the audit log, refused early, refused late or done;
\* one without a token has none.
EveryWriteAudited == \A t \in Threads : At(t, "answered") => req[t].rows = IF req[t].auth THEN 1 ELSE 0

\* Requests that arrive together leave a queue within its limit, of entries stored as validated with their copies, and an
\* audit row for each.
SubmissionsKept == StoredAsValidated /\ CopiesStand /\ QueueBound /\ EveryWriteAudited
=============================================================================
