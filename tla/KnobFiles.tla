----------------------------- MODULE KnobFiles -----------------------------
(* The timing knob files: a change of several files behind a journal          *)
(* (services/timing_knob_files.py), the operations that make one (an update,  *)
(* a reset, a rollback: services/knob_updater.py, timing_knobs.py), a person  *)
(* who edits the same files with no lock, crashes, and the reader that the    *)
(* forecast uses (KnobReader).                                                *)
(*                                                                            *)
(* A file's content is who wrote it and in which change.  The lock is held    *)
(* from an operation's load to its end, so one operation at a time has a pc.  *)
EXTENDS Naturals, Sequences, FiniteSets

CONSTANTS
  MaxChanges,    \* bound: changes begun
  MaxEdits,      \* bound: hand edits
  MaxCrashes,    \* bound: crashes
  Keep,          \* backup_count: backups kept of each file
  ManifestLimit  \* MANIFEST_LIMIT: changes that can be rolled back

ASSUME KnobAssumption ==
  /\ MaxChanges \in Nat /\ MaxEdits \in Nat /\ MaxCrashes \in Nat
  /\ Keep \in Nat \ {0} /\ ManifestLimit \in Nat \ {0}

\* tuning.yaml, a backend's file, and the approvals beside them.
Knobs == {"tuning", "backend"}
Files == Knobs \cup {"validated"}

VARIABLES
  file,      \* the content of each file
  written,       \* written.json: the content the machine last wrote of each file
  journal,   \* pending.json
  backups,   \* per file, oldest first: the change they were made for, and the content
  manifest,  \* the committed changes, oldest first
  changes, edits, crashes,
  pc, job,   \* the operation that holds the lock: its step and what it read and decided
  reader, cache,  \* KnobReader.current in progress, and what it keeps
  late,      \* history: edits of a file made while a change was replacing it
  lost,      \* history: edits replaced unread, or with no backup
  surfaced   \* history: contents of a set with an approval that met an edit when recovered

ghosts == <<late, lost, surfaced>>
knobVars == <<file, written, journal, backups, manifest, changes, edits, crashes, pc, job, reader, cache, ghosts>>
operVars == <<journal, backups, manifest, changes, pc, job>>
readVars == <<reader, cache>>

Absent == [by |-> "none", v |-> 0]
Machine(v) == [by |-> "machine", v |-> v]
Empty(v) == [by |-> "empty", v |-> v]       \* approvals of which none is left
NoJob == [texts |-> <<>>, seen |-> <<>>, prior |-> <<>>, written |-> <<>>, expects |-> FALSE, left |-> {}, skipped |-> {}]
NoJournal == [id |-> 0]
NoCache == [written |-> <<>>, file |-> <<>>, sig |-> <<>>]

MachineMade(c) == c.by \in {"machine", "empty"}

------------------------------------------------------------------------------
(* Loading.                                                                   *)

\* _load, _load_backend: a file that cannot be used suspends automatic writes to it.
Suspended(f) == file[f].by = "bad"

\* read_validated: trusted only with the digest the machine recorded.
ApprovalsUsable == file["validated"] = written["validated"]

\* A file an update may replace; an absent knob file it always writes.
MayWrite == {f \in Knobs : ~Suspended(f)} \cup {f \in {"validated"} : ApprovalsUsable}
MustWrite == {f \in Knobs : file[f] = Absent}

Begin(texts, newRec, expects) ==
  /\ job' = [texts |-> texts, seen |-> file, prior |-> file, written |-> newRec, expects |-> expects,
             left |-> DOMAIN texts, skipped |-> {}]
  /\ pc' = "check" /\ changes' = changes + 1
  /\ UNCHANGED <<file, written, journal, backups, manifest, edits, crashes, readVars, ghosts>>

MayBegin == pc = "idle" /\ journal = NoJournal /\ changes < MaxChanges

\* KnobUpdateEngine._update: fitted files, and with an approval the file it is of.
UpdateFiles(names) ==
  LET v == changes + 1
  IN
  /\ MayBegin /\ MustWrite \subseteq names /\ names \subseteq MayWrite
  /\ "validated" \in names => "backend" \in names
  /\ Begin([f \in names |-> Machine(v)],
           [f \in Files |-> IF f \in names THEN Machine(v) ELSE written[f]], TRUE)

\* reset: the backend's file to the backups; its approval too, or every approval.
ResetFiles(all) ==
  LET moved == {f \in {"backend"} : file[f] # Absent}
      drops == ~all /\ file["validated"].by = "machine"
      approvals == IF drops THEN Empty(changes + 1) ELSE Absent
      names == moved \cup {f \in {"validated"} : all \/ drops}
      texts == [f \in names |-> IF f = "validated" THEN approvals ELSE Absent]
  IN
  /\ MayBegin
  /\ all \/ file["validated"] = Absent \/ ApprovalsUsable
  /\ Begin(texts, [f \in Files |-> IF f \in names THEN texts[f] ELSE written[f]], FALSE)

\* What the last n changes replaced: of each file, the backup of the earliest.
Restored(n) ==
  LET chosen == SubSeq(manifest, Len(manifest) - n + 1, Len(manifest))
      names == UNION {DOMAIN chosen[i].files : i \in 1 .. n}
      first(f) == CHOOSE i \in 1 .. n : f \in DOMAIN chosen[i].files
                                        /\ \A k \in 1 .. i - 1 : f \notin DOMAIN chosen[k].files
  IN  [f \in names |-> chosen[first(f)].files[f]]

\* Whether the backup of a file, made for a change, is still there.
BackupThere(f, b) == b.content = Absent \/ \E i \in 1 .. Len(backups[f]) : backups[f][i] = b

\* KnobFiles.rollback: as a change of its own, with the record of that time.
Rollback(n) ==
  LET back == Restored(n)
  IN
  /\ MayBegin /\ n <= Len(manifest)
  /\ \A f \in DOMAIN back : BackupThere(f, back[f])
  /\ Begin([f \in DOMAIN back |-> back[f].content],
           manifest[Len(manifest) - n + 1].prior, FALSE)

------------------------------------------------------------------------------
(* commit, to the end of its journal.                                         *)

\* Mutant: what was read is not compared.
Check_Blind ==
  /\ pc = "check" /\ pc' = "backup"
  /\ UNCHANGED <<file, written, journal, backups, manifest, changes, edits, crashes, job, readVars, ghosts>>

\* KnobConflictError: a file is not as it was read.
Check ==
  LET changed == \E f \in DOMAIN job.texts : file[f] # job.seen[f]
  IN
  /\ pc = "check"
  /\ pc' = IF job.expects /\ changed THEN "idle" ELSE "backup"
  /\ job' = IF job.expects /\ changed THEN NoJob ELSE job
  /\ UNCHANGED <<file, written, journal, backups, manifest, changes, edits, crashes, readVars, ghosts>>

\* prune: the newest Keep.
Pruned(s) == IF Len(s) <= Keep THEN s ELSE SubSeq(s, Len(s) - Keep + 1, Len(s))

\* The backup of each file there is.
Backup ==
  /\ pc = "backup" /\ pc' = "journal"
  /\ backups' = [f \in Files |-> IF f \in DOMAIN job.texts /\ file[f] # Absent
                                 THEN Pruned(Append(backups[f], [for |-> changes, content |-> file[f]]))
                                 ELSE backups[f]]
  /\ job' = [job EXCEPT !.prior = file]
  /\ UNCHANGED <<file, written, journal, manifest, changes, edits, crashes, readVars, ghosts>>

\* The write of pending.json: from here on the change will be made.
WriteJournal ==
  /\ pc = "journal" /\ pc' = "apply"
  /\ journal' = [id |-> changes, texts |-> job.texts, prior |-> job.prior,
                 written |-> job.written, priorRec |-> written,
                 seen |-> IF job.expects THEN job.seen ELSE job.prior]
  /\ UNCHANGED <<file, written, backups, manifest, changes, edits, crashes, job, readVars, ghosts>>

\* Mutant: of a set with an approval only the edited files are left.
Skipped_Single(edited, names) == edited

\* _apply, recovering: edited files are left; with an approval in the set, all.
Skipped(edited, names) == IF edited # {} /\ "validated" \in names THEN names ELSE edited

\* recover: what an interruption left is finished before anything else.
StartRecovery ==
  LET names == DOMAIN journal.texts
      edited == {f \in names : file[f] \notin {journal.prior[f], journal.texts[f]}}
  IN
  /\ pc = "idle" /\ journal # NoJournal /\ pc' = "apply"
  /\ job' = [NoJob EXCEPT !.left = names \ Skipped(edited, names), !.skipped = Skipped(edited, names)]
  /\ surfaced' = IF "validated" \in Skipped(edited, names) THEN surfaced \cup {<<f, journal.texts[f]>> : f \in names} ELSE surfaced
  /\ UNCHANGED <<file, written, journal, backups, manifest, changes, edits, crashes, readVars, late, lost>>

\* A person's content that the change did not read (a reset or a rollback: back up).
Unread(f) == file[f].by \in {"hand", "bad"} /\ file[f] \notin {journal.seen[f], journal.texts[f]}

\* _apply: one file replaced, or found as it should be.
ApplyFile(f) ==
  /\ pc = "apply" /\ f \in job.left
  /\ file' = [file EXCEPT ![f] = journal.texts[f]]
  /\ lost' = IF Unread(f) THEN lost \cup {file[f].v} ELSE lost
  /\ job' = [job EXCEPT !.left = @ \ {f}]
  /\ UNCHANGED <<written, journal, backups, manifest, changes, edits, crashes, pc, readVars, late, surfaced>>

\* Mutant: a recovery replaces the files and not the record.
ApplyRecord_LiveOnly ==
  /\ pc = "apply" /\ job.left = {} /\ pc' = "manifest"
  /\ written' = IF job.written = <<>> THEN written ELSE journal.written
  /\ UNCHANGED <<file, journal, backups, manifest, changes, edits, crashes, job, readVars, ghosts>>

\* written.json: the new record, the prior one for what was skipped.
ApplyRecord ==
  /\ pc = "apply" /\ job.left = {} /\ pc' = "manifest"
  /\ written' = [f \in Files |-> IF f \in job.skipped THEN journal.priorRec[f] ELSE journal.written[f]]
  /\ UNCHANGED <<file, journal, backups, manifest, changes, edits, crashes, job, readVars, ghosts>>

\* _finish: the change in the manifest, once, if it replaced a file.
AddToManifest ==
  LET entry == [id |-> journal.id, prior |-> journal.priorRec,
                files |-> [f \in DOMAIN journal.texts |->
                             [for |-> journal.id, content |-> journal.prior[f]]]]
      known == \E i \in 1 .. Len(manifest) : manifest[i].id = journal.id
      longer == Append(manifest, entry)
  IN
  /\ pc = "manifest" /\ pc' = "unlink"
  /\ manifest' = IF DOMAIN journal.texts = {} \/ known THEN manifest
                 ELSE SubSeq(longer, IF Len(longer) > ManifestLimit THEN 2 ELSE 1, Len(longer))
  /\ UNCHANGED <<file, written, journal, backups, changes, edits, crashes, job, readVars, ghosts>>

Unlink ==
  /\ pc = "unlink" /\ pc' = "idle"
  /\ journal' = NoJournal /\ job' = NoJob
  /\ UNCHANGED <<file, written, backups, manifest, changes, edits, crashes, readVars, ghosts>>

\* A crash, or a write that raises: the journal decides.
Crash ==
  /\ pc # "idle" /\ crashes < MaxCrashes
  /\ pc' = "idle" /\ job' = NoJob /\ crashes' = crashes + 1
  /\ UNCHANGED <<file, written, journal, backups, manifest, changes, edits, readVars, ghosts>>

\* A person edits a file, well or badly, or deletes it.
Edit(f, by) ==
  /\ edits < MaxEdits /\ edits' = edits + 1
  /\ file' = [file EXCEPT ![f] = IF by = "none" THEN Absent ELSE [by |-> by, v |-> edits + 1]]
  /\ file' # file
  /\ late' = IF pc \in {"backup", "journal", "apply"} /\ f \in job.left THEN late \cup {edits + 1} ELSE late
  /\ UNCHANGED <<written, operVars, crashes, readVars, lost, surfaced>>

------------------------------------------------------------------------------
(* KnobReader.current, with no lock on the files.                             *)

\* signature: sizes and times of the files and of the record.
Signature == <<file, written>>

\* The signature differs from the cached one: _load begins with the record.
ReadRecord ==
  /\ reader.pc = "idle" /\ cache.sig # Signature
  /\ reader' = [pc |-> "signature", written |-> written, sig |-> <<>>]
  /\ UNCHANGED <<file, written, operVars, edits, crashes, cache, ghosts>>

ReadSignature ==
  /\ reader.pc = "signature"
  /\ reader' = [reader EXCEPT !.pc = "files", !.sig = Signature]
  /\ UNCHANGED <<file, written, operVars, edits, crashes, cache, ghosts>>

ReadFiles ==
  /\ reader.pc = "files"
  /\ cache' = [written |-> reader.written, file |-> file, sig |-> reader.sig]
  /\ reader' = [pc |-> "idle", written |-> <<>>, sig |-> <<>>]
  /\ UNCHANGED <<file, written, operVars, edits, crashes, ghosts>>

------------------------------------------------------------------------------

KnobInit ==
  /\ file = [f \in Files |-> Absent] /\ written = [f \in Files |-> Absent]
  /\ journal = NoJournal /\ backups = [f \in Files |-> <<>>] /\ manifest = <<>>
  /\ changes = 0 /\ edits = 0 /\ crashes = 0
  /\ pc = "idle" /\ job = NoJob
  /\ reader = [pc |-> "idle", written |-> <<>>, sig |-> <<>>] /\ cache = NoCache
  /\ late = {} /\ lost = {} /\ surfaced = {}

KnobNext ==
  \/ \E names \in SUBSET Files : UpdateFiles(names)
  \/ \E all \in BOOLEAN : ResetFiles(all)
  \/ \E n \in 1 .. ManifestLimit : Rollback(n)
  \/ Check \/ Backup \/ WriteJournal \/ StartRecovery \/ ApplyRecord \/ AddToManifest \/ Unlink
  \/ \E f \in Files : ApplyFile(f)
  \/ Crash
  \/ \E f \in Files, by \in {"hand", "bad", "none"} : Edit(f, by)

KnobSpec == KnobInit /\ [][KnobNext]_knobVars

\* The files with a reader beside them.
ReaderNext == KnobNext \/ ReadRecord \/ ReadSignature \/ ReadFiles
ReaderSpec == KnobInit /\ [][ReaderNext]_knobVars

------------------------------------------------------------------------------
(* Properties.                                                                *)

\* No change is under way and none is to be finished.
Quiet == pc = "idle" /\ journal = NoJournal

\* A person's edit is replaced only by a change that read it, or backed it up,
\* through crashes at any step and edits at any time; but for an edit made in
\* the very moment between the comparison of the digests and the replacement.
EditKept == lost \subseteq late

\* However a change was interrupted, and whatever was edited meanwhile, a machine
\* write is not taken for a hand edit (which would pin every value in it): the
\* record names it.  The exception is a set with an approval that met an edit,
\* which is surfaced on purpose.
MachineNotEdit ==
  Quiet => \A f \in Files : MachineMade(file[f]) /\ <<f, file[f]>> \notin surfaced => written[f] = file[f]

\* An approval that is trusted never stands beside a calibration older than it:
\* the two are one change, or neither is believed.
ApprovalAlwaysWithCalibration ==
  Quiet /\ ApprovalsUsable /\ written["validated"].by = "machine" =>
    written["backend"].v >= written["validated"].v

\* The same but for an approval that was put in place before its set met an edit.
\* A rollback may put back the very approval the record names still, deleted by
\* a person since; the record "restored to its prior digest" then trusts it.
ApprovalWithCalibration ==
  <<"validated", file["validated"]>> \notin surfaced => ApprovalAlwaysWithCalibration

\* "a machine write is never read as a hand edit" (timing_knob_files.py:6), of
\* the knobs the reader keeps for as long as the files' signature stays the same.
ReaderSeesNoPins ==
  Quiet /\ reader.pc = "idle" /\ cache.sig = Signature =>
    \A f \in Knobs : MachineMade(file[f]) /\ written[f] = file[f] => cache.written[f] = cache.file[f]

\* Through crashes at any step, a person's edit is kept, a machine write is not
\* taken for an edit, and an approval stands only beside its calibration.
KnobFilesKept == EditKept /\ MachineNotEdit /\ ApprovalWithCalibration
=============================================================================
