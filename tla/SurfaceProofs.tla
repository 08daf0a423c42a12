---------------------------- MODULE SurfaceProofs ----------------------------
(* Proofs about what the interfaces do: the HTTP server's writes, the catalog  *)
(* of job files, the watch of one entry (EntryWatch), and the TUI's view of    *)
(* the entry that runs (TuiFollow).  The                                       *)
(* writes keep the queue's frozen jobs valid, owned and audited, and the job   *)
(* files safe, for any number of request threads, texts and edits by hand; the *)
(* catalog's list is true once it rests, and its IDs are permanent, for any    *)
(* files, edits and overlapping reads; whoever waits for an entry is told      *)
(* what is so, for any number of runs and of actions of others; and the TUI    *)
(* shows the entry that runs once it has heard what was told.                  *)
EXTENDS ApiWrites, JobCatalog, EntryWatch, TuiFollow, FiniteSetTheorems, SequenceTheorems, TLAPS

\* Every nonempty set of numbers has a least one.
LEMMA LeastOfNat ==
  ASSUME NEW S \in SUBSET Nat, S # {}
  PROVE  \E n \in S : \A m \in S : n <= m
<1> DEFINE R == OpToRel(<, Nat)
<1>1. IsWellFoundedOn(R, Nat)
  BY NatLessThanWellFounded
<1>2. \E x \in S : \A y \in S : <<y, x>> \notin R
  <2> HIDE DEF R
  <2> QED BY <1>1, WFMin
<1>3. \A x, y \in S : x < y => <<x, y>> \in R
  BY DEF OpToRel
<1>4. PICK x \in S : \A y \in S : <<y, x>> \notin R
  BY <1>2
<1>5. \A y \in S : ~(y < x)
  <2> HIDE DEF R
  <2> QED BY <1>3, <1>4
<1> QED
  BY <1>5

------------------------------------------------------------------------------
(* The server's writes: what each request has in hand and what each row owns.  *)

Texts == Versions \cup {0}
Reading == {"read", "parse1", "config", "parse2", "mkdir", "copy", "verify", "insert", "find"}
Writing == {"validate", "link", "active", "current", "backup", "write"}
Inside == Reading \cup Writing
AllPlaces == {"idle", "lock", "failed", "ok", "answered"} \cup Inside
Requests ==
  [op : Actions \cup {"none"}, at : AllPlaces,
   text : Texts, config : Texts, ref : Texts, copy : Directories \cup {0}, expect : Texts,
   auth : BOOLEAN, rows : {0, 1}, late : BOOLEAN, raced : BOOLEAN]
Rows ==
  [kind : {"job", "generate"}, text : Texts, config : Texts, ref : Texts, copy : Directories \cup {0},
   state : {"queued", "running", "finished", "refused", "pruned"}, raced : BOOLEAN]

ApiTypeOK ==
  /\ jobFile \in Texts /\ configFile \in Texts /\ refFile \in Texts
  /\ req \in [Threads -> Requests] /\ queue \in Seq(Rows)
  /\ edits \in Nat
  /\ Existing \subseteq Directories /\ \A c \in Existing : copies[c] \in Texts

\* A route past its lock holds it, so one thread at most is.
LockOK == \A t \in Threads : req[t].at \in Inside \cup {"ok"} => lock = t

\* Each request is recorded once, when it is answered.
AuditOK ==
  \A t \in Threads :
    /\ req[t].at = "answered" => req[t].rows = IF req[t].auth THEN 1 ELSE 0
    /\ req[t].at \notin {"idle", "answered"} => req[t].auth /\ req[t].rows = 0

\* A route is at one of its own steps, and what it will store has been parsed.
Places ==
  \A t \in Threads :
    /\ req[t].at = "lock" => req[t].op \in Actions
    /\ req[t].at \in {"read", "parse1", "config", "parse2", "mkdir", "copy", "verify"} => req[t].op = "submit"
    /\ req[t].at = "find" => req[t].op = "resume"
    /\ req[t].at = "insert" => req[t].op \in {"submit", "generate", "resume"}
    /\ req[t].at \in Writing => req[t].op \in JobWrites
ValidOK ==
  /\ StoredAsValidated
  /\ \A t \in Threads : req[t].at \in {"mkdir", "copy", "verify", "insert"} /\ req[t].op # "generate"
       => <<req[t].text, req[t].config, req[t].ref>> \in Valid

\* Nothing enters the queue between the count and the insertion.
RoomOK ==
  /\ IsFiniteSet(Queued) /\ QueueBound
  /\ \A t \in Threads :
       req[t].op # "generate" /\ req[t].at \in {"config", "parse2", "mkdir", "copy", "verify", "insert"} => RoomInQueue

\* What the write was allowed on stands until it is made.
WriteOK ==
  \A t \in Threads :
    /\ req[t].at \in {"current", "backup", "write"} => Active = {}
    /\ req[t].at \in {"backup", "write"} /\ ~req[t].late => jobFile = req[t].expect
    /\ req[t].at = "write" /\ ~req[t].late => jobFile \in saved

\* A directory is a submission's in hand, a row's, or an orphan.
RowCopies == {queue[i].copy : i \in DOMAIN queue}
OldOK == old \subseteq Existing \ InHand
RowCopyOK ==
  \A i \in DOMAIN queue :
    /\ queue[i].state = "pruned" => queue[i].copy = 0
    /\ queue[i].copy # 0 /\ ~queue[i].raced => queue[i].copy \in Existing
    /\ queue[i].copy \in Existing => copies[queue[i].copy] = queue[i].ref
    /\ queue[i].copy \in Existing \cup orphans \cup {0}
OwnerOK == \A c \in Existing : c \in orphans \cup InHand \cup RowCopies
HandOK ==
  \A t \in Threads :
    /\ req[t].op = "submit" /\ req[t].at \in {"lock", "read", "parse1", "config", "parse2", "mkdir"} => req[t].copy = 0
    /\ req[t].op = "submit" /\ req[t].at \in {"copy", "verify", "insert"} /\ req[t].copy # 0 =>
         req[t].copy \in Existing \ (RowCopies \cup orphans)
    /\ req[t].at \in {"copy", "verify"} => req[t].copy # 0
    /\ req[t].at = "verify" => copies[req[t].copy] = req[t].ref
    /\ req[t].op = "submit" /\ req[t].at = "insert" /\ req[t].copy # 0 => copies[req[t].copy] = req[t].ref
    /\ req[t].op \in {"submit", "generate"} => ~req[t].raced
    /\ req[t].op = "generate" => req[t].copy = 0
ResumeOK ==
  \A t \in Threads :
    req[t].op = "resume" /\ req[t].at = "insert" /\ req[t].copy # 0 =>
      /\ req[t].copy \in Existing \cup orphans
      /\ req[t].copy \in Existing => copies[req[t].copy] = req[t].ref
      /\ ~req[t].raced => req[t].copy \in RowCopies \cap Existing
CopyOK == OldOK /\ RowCopyOK /\ OwnerOK /\ HandOK /\ ResumeOK

ApiInv == ApiTypeOK /\ LockOK /\ AuditOK /\ Places /\ ValidOK /\ RoomOK /\ WriteOK /\ CopyOK

\* The places a step names are places; the set is left closed in the proofs that only carry it along.
LEMMA PlacesThere ==
  /\ {"idle", "lock", "failed", "ok", "answered", "read", "parse1", "config", "parse2", "mkdir", "copy", "verify", "insert",
      "find", "validate", "link", "active", "current", "backup", "write"} \subseteq AllPlaces
  /\ {"none", "submit", "generate", "resume", "replace", "create", "delete"} = Actions \cup {"none"}
BY DEF AllPlaces, Inside, Reading, Writing, Actions, JobWrites

\* The requests after a step of thread t: the others are as they were, and of its own everything but the fields that are
\* given (Moved: its place; Took: what it froze, too).
Others(t) == req' \in [Threads -> Requests] /\ \A u \in Threads : u # t => req'[u] = req[u]
Same(t) ==
  /\ req'[t].op = req[t].op /\ req'[t].expect = req[t].expect /\ req'[t].auth = req[t].auth
  /\ req'[t].rows = req[t].rows /\ req'[t].late = req[t].late /\ req'[t].raced = req[t].raced
Took(t, p) == Others(t) /\ Same(t) /\ req'[t].at = p
Moved(t, p) ==
  /\ Took(t, p)
  /\ req'[t].text = req[t].text /\ req'[t].config = req[t].config /\ req'[t].ref = req[t].ref /\ req'[t].copy = req[t].copy

\* Step changes the place alone.
LEMMA StepMoves ==
  ASSUME req \in [Threads -> Requests], NEW t \in Threads, NEW p \in AllPlaces, Step(t, p)
  PROVE  Moved(t, p)
BY DEF Step, Requests, Moved, Took, Others, Same

\* A submission that fails drops its copy.
LEMMA DropEffect ==
  ASSUME req \in [Threads -> Requests], NEW t \in Threads, req' = [req EXCEPT ![t].at = "failed", ![t].copy = 0]
  PROVE  /\ Took(t, "failed") /\ req'[t].copy = 0
         /\ req'[t].text = req[t].text /\ req'[t].config = req[t].config /\ req'[t].ref = req[t].ref
BY PlacesThere DEF Requests, Took, Others, Same

\* A row changes its state alone.
Turned(i, s) ==
  /\ queue' \in Seq(Rows) /\ DOMAIN queue' = DOMAIN queue
  /\ \A j \in DOMAIN queue :
       /\ queue'[j].kind = queue[j].kind /\ queue'[j].text = queue[j].text /\ queue'[j].config = queue[j].config
       /\ queue'[j].ref = queue[j].ref /\ queue'[j].copy = queue[j].copy /\ queue'[j].raced = queue[j].raced
       /\ queue'[j].state = IF j = i THEN s ELSE queue[j].state

\* Claiming and finishing change a row's state alone.
LEMMA StateTurns ==
  ASSUME queue \in Seq(Rows), NEW i \in DOMAIN queue, NEW s \in {"queued", "running", "finished", "refused", "pruned"},
         queue' = [queue EXCEPT ![i].state = s]
  PROVE  Turned(i, s)
<1>1. queue[i] \in Rows
  OBVIOUS
<1>1a. [queue[i] EXCEPT !.state = s] \in Rows
  BY <1>1 DEF Rows
<1>2. queue' = [queue EXCEPT ![i] = [queue[i] EXCEPT !.state = s]]
  OBVIOUS
<1>3. queue' \in Seq(Rows) /\ DOMAIN queue' = DOMAIN queue
  BY <1>1a, <1>2
<1>4. \A j \in DOMAIN queue : queue'[j] = IF j = i THEN [queue[i] EXCEPT !.state = s] ELSE queue[j]
  BY <1>2
<1> QED
  BY <1>1, <1>3, <1>4 DEF Turned, Rows

\* A submission that fails after it made its copies removes them.
LEMMA DropKeeps ==
  ASSUME ApiInv, NEW t \in Threads, req[t].op = "submit", req[t].at \in {"copy", "verify", "insert"},
         copies' = Without({req[t].copy}), req' = [req EXCEPT ![t].at = "failed", ![t].copy = 0],
         UNCHANGED <<jobFile, configFile, refFile, saved, lock, queue, old, asked, edits, orphans>>
  PROVE  ApiInv'
<1>1. /\ Took(t, "failed") /\ req'[t].copy = 0
      /\ req'[t].text = req[t].text /\ req'[t].config = req[t].config /\ req'[t].ref = req[t].ref
  BY DropEffect DEF ApiInv, ApiTypeOK
<1>2. /\ Existing' = Existing \ {req[t].copy} /\ \A c \in Existing' : copies'[c] = copies[c]
  BY DEF Existing, Without
<1>3. \A u \in Threads : u # t => req[u].at \notin Inside
  BY DEF ApiInv, LockOK, Inside, Reading
<1>4. req[t].copy \notin RowCopies \cup orphans \/ req[t].copy = 0
  BY DEF ApiInv, CopyOK, HandOK
<1>5. InHand' = {} /\ InHand = {req[t].copy}
  BY <1>1, <1>3 DEF InHand, Took, Others, Same, Inside, Reading
<1>6. ApiTypeOK'
  BY <1>1, <1>2 DEF ApiInv, ApiTypeOK, Took, Others
<1>7. LockOK' /\ AuditOK' /\ Places'
  BY <1>1 DEF ApiInv, ApiTypeOK, LockOK, AuditOK, Places, Took, Others, Same, Inside, Reading, Writing
<1>8. ValidOK' /\ RoomOK' /\ WriteOK'
  BY <1>1 DEF ApiInv, ApiTypeOK, ValidOK, StoredAsValidated, RoomOK, RoomInQueue, QueueBound, Queued, WriteOK, Active,
              Took, Others, Same
<1>9. OldOK' /\ OwnerOK'
  BY <1>1, <1>2, <1>4, <1>5 DEF ApiInv, CopyOK, OldOK, OwnerOK, RowCopies
<1>10. RowCopyOK'
  BY <1>1, <1>2, <1>4 DEF ApiInv, CopyOK, RowCopyOK, RowCopies
<1>11. HandOK'
  BY <1>1, <1>2, <1>3 DEF ApiInv, ApiTypeOK, CopyOK, HandOK, Took, Others, Same, Inside, Reading, RowCopies
<1>12. ResumeOK'
  BY <1>1, <1>3 DEF ApiInv, ApiTypeOK, CopyOK, ResumeOK, Took, Others, Same, Inside, Reading
<1> QED
  BY <1>6, <1>7, <1>8, <1>9, <1>10, <1>11, <1>12 DEF ApiInv, CopyOK

\* One lemma for each action: it keeps every part of the invariant.
LEMMA ArriveKeeps == ASSUME ApiInv, NEW t \in Threads, Arrive(t) PROVE ApiInv'
<1>1. ApiInv /\ t \in Threads /\ Arrive(t)
  OBVIOUS
<1> QED
  <2>0. /\ req' \in [Threads -> Requests]
        /\ UNCHANGED <<jobFile, configFile, refFile, saved, lock, queue, copies, old, edits, crashes, orphans>>
    <3>1. PICK op \in Actions, auth \in BOOLEAN, body \in {"large", "malformed", "refused", "fine"}, caller \in BOOLEAN,
               text \in Versions, expect \in Versions :
            LET r == [Idle EXCEPT !.op = op, !.auth = auth]
            IN  req' = [req EXCEPT ![t] =
                   IF ~ReachesRoute(op, auth, body)
                   THEN [r EXCEPT !.at = "answered", !.rows = IF RefusalRecorded(op, auth, body) THEN 1 ELSE 0]
                   ELSE IF body = "malformed" \/ ~caller \/ ~GenerationParses(op, body) THEN [r EXCEPT !.at = "failed"]
                   ELSE [r EXCEPT !.at = "lock", !.text = IF op \in {"replace", "create"} THEN text ELSE 0,
                                  !.expect = IF op \in {"replace", "delete"} THEN expect ELSE 0]]
      BY <1>1 DEF Arrive
    <3> DEFINE r == [Idle EXCEPT !.op = op, !.auth = auth]
    <3>2. r \in Requests
      BY PlacesThere DEF Idle, Requests, Texts
    <3>3. /\ [r EXCEPT !.at = "answered", !.rows = IF RefusalRecorded(op, auth, body) THEN 1 ELSE 0] \in Requests
          /\ [r EXCEPT !.at = "failed"] \in Requests
          /\ [r EXCEPT !.at = "lock", !.text = IF op \in {"replace", "create"} THEN text ELSE 0,
                       !.expect = IF op \in {"replace", "delete"} THEN expect ELSE 0] \in Requests
      BY <3>2, PlacesThere DEF Requests, Texts
    <3> HIDE DEF r
    <3> QED
      BY <1>1, <3>1, <3>3 DEF Arrive, ApiInv, ApiTypeOK, r
  <2>1. ApiTypeOK'
        BY <1>1, <2>0 DEF ApiInv, ApiTypeOK, Existing
  <2>2. LockOK' /\ AuditOK' /\ Places'
        BY <1>1 DEF ApiInv, LockOK, ApiTypeOK, Inside, Reading, Writing, Arrive, Idle, ReachesRoute, RefusalRecorded,
        GenerationParses, Step, At, AuditOK, Places, Actions, JobWrites
  <2>3. ValidOK' /\ RoomOK' /\ WriteOK'
        BY <1>1 DEF ApiInv, ValidOK, StoredAsValidated, ApiTypeOK, Places, Arrive, Idle, ReachesRoute, RefusalRecorded,
        GenerationParses, Step, At, RoomOK, QueueBound, RoomInQueue, Queued, LockOK, Inside, Reading, WriteOK, Active,
        Writing
  <2>4. OldOK' /\ RowCopyOK' /\ OwnerOK'
        BY <1>1 DEF ApiInv, CopyOK, OldOK, ApiTypeOK, InHand, Existing, Places, JobWrites, Arrive, Idle, ReachesRoute,
        RefusalRecorded, GenerationParses, Step, At, RowCopyOK, OwnerOK, RowCopies
  <2>5. HandOK' /\ ResumeOK'
        BY <1>1 DEF ApiInv, CopyOK, HandOK, ApiTypeOK, RowCopies, Existing, Places, Actions, JobWrites, Arrive, Idle,
        ReachesRoute, RefusalRecorded, GenerationParses, Step, At, ResumeOK
  <2> QED
    BY <2>1, <2>2, <2>3, <2>4, <2>5 DEF ApiInv, CopyOK

LEMMA LockKeeps == ASSUME ApiInv, NEW t \in Threads, Lock(t) PROVE ApiInv'
<1>1. ApiInv /\ t \in Threads /\ Lock(t)
  OBVIOUS
<1> QED
  <2>0. /\ req[t].at = "lock"
        /\ \E p \in {"read", "insert", "find", "validate", "active"} :
             /\ Moved(t, p)
             /\ p = "read" => req[t].op = "submit"
             /\ p = "insert" => req[t].op = "generate"
             /\ p = "find" => req[t].op = "resume"
             /\ p \in {"validate", "active"} => req[t].op \in JobWrites
    <3>1. FirstStep(req[t].op) \in AllPlaces /\ req[t].op \in Actions
      BY <1>1 DEF ApiInv, Places, Lock, At, FirstStep, Actions, JobWrites, AllPlaces, Inside, Reading, Writing
    <3>2. Moved(t, FirstStep(req[t].op))
      BY <1>1, <3>1, StepMoves DEF ApiInv, ApiTypeOK, Lock
    <3> QED
      BY <1>1, <3>1, <3>2 DEF Lock, At, FirstStep, Actions, JobWrites
  <2>u. UNCHANGED <<jobFile, configFile, refFile, saved, queue, copies, old, asked, edits, crashes, orphans>>
    BY <1>1 DEF Lock
  <2>1. ApiTypeOK'
        BY <1>1, <2>0, <2>u DEF ApiInv, ApiTypeOK, Moved, Took, Others, Same, Existing
  <2>2. LockOK' /\ AuditOK' /\ Places'
        BY <1>1, <2>0, <2>u, ApiAssumption DEF ApiInv, LockOK, ApiTypeOK, Moved, Took, Others, Same, Inside, Reading,
        Writing, Lock, AuditOK, Places, Actions, JobWrites
  <2>3. ValidOK' /\ RoomOK' /\ WriteOK'
        BY <1>1, <2>0, <2>u DEF ApiInv, ValidOK, ApiTypeOK, Moved, Took, Others, Same, StoredAsValidated, Places, RoomOK,
        QueueBound, RoomInQueue, Queued, LockOK, Inside, Reading, Lock, WriteOK, Active, Writing
  <2>4. OldOK' /\ RowCopyOK' /\ OwnerOK'
        BY <1>1, <2>0, <2>u DEF ApiInv, OldOK, ApiTypeOK, Moved, Took, Others, Same, CopyOK, InHand, Places, Existing,
        JobWrites, RowCopyOK, OwnerOK, RowCopies
  <2>5. HandOK'
    <3>1. /\ \A u \in Threads : u # t => req'[u] = req[u]
          /\ req'[t].op = req[t].op /\ req'[t].copy = req[t].copy /\ req'[t].ref = req[t].ref /\ req'[t].raced = req[t].raced
          /\ req[t].at = "lock" /\ req'[t].at \in {"read", "insert", "find", "validate", "active"}
          /\ req'[t].at = "insert" => req[t].op = "generate"
      BY <2>0 DEF Moved, Took, Others, Same
    <3>2. req'[t].op = "submit" => req'[t].copy = 0
      BY <3>1, <1>1 DEF ApiInv, CopyOK, HandOK
    <3> QED
      BY <1>1, <2>u, <3>1, <3>2 DEF ApiInv, CopyOK, HandOK, Existing, RowCopies
  <2>6. ResumeOK'
        BY <1>1, <2>0, <2>u DEF ApiInv, ResumeOK, ApiTypeOK, Moved, Took, Others, Same, CopyOK, RowCopies, Existing
  <2> QED
    BY <2>1, <2>2, <2>3, <2>4, <2>5, <2>6 DEF ApiInv, CopyOK

LEMMA AnswerKeeps == ASSUME ApiInv, NEW t \in Threads, Answer(t) PROVE ApiInv'
<1>1. ApiInv /\ t \in Threads /\ Answer(t)
  OBVIOUS
<1> QED
  <2>1. ApiTypeOK'
        BY <1>1, PlacesThere DEF ApiInv, ApiTypeOK, Requests, Rows, Texts, Existing, Answer, Step, At
  <2>2. LockOK' /\ AuditOK' /\ Places'
        BY <1>1 DEF ApiInv, LockOK, ApiTypeOK, Inside, Reading, Writing, Answer, Step, At, AuditOK, Places, Actions,
        JobWrites
  <2>3. ValidOK' /\ RoomOK' /\ WriteOK'
        BY <1>1 DEF ApiInv, ValidOK, StoredAsValidated, ApiTypeOK, Places, Answer, Step, At, RoomOK, QueueBound, RoomInQueue,
        Queued, LockOK, Inside, Reading, WriteOK, Active, Writing
  <2>4. OldOK' /\ RowCopyOK' /\ OwnerOK'
        BY <1>1 DEF ApiInv, CopyOK, OldOK, ApiTypeOK, InHand, Existing, Places, JobWrites, Answer, Step, At, RowCopyOK,
        OwnerOK, RowCopies
  <2>5. HandOK' /\ ResumeOK'
        BY <1>1 DEF ApiInv, CopyOK, HandOK, ApiTypeOK, RowCopies, Existing, Places, Actions, JobWrites, Answer, Step, At,
        ResumeOK
  <2> QED
    BY <2>1, <2>2, <2>3, <2>4, <2>5 DEF ApiInv, CopyOK

LEMMA LeaveKeeps == ASSUME ApiInv, NEW t \in Threads, Leave(t) PROVE ApiInv'
<1>1. ApiInv /\ t \in Threads /\ Leave(t)
  OBVIOUS
<1> QED
  <2>1. ApiTypeOK'
        BY <1>1, PlacesThere DEF ApiInv, ApiTypeOK, Requests, Rows, Texts, Existing, Leave, Idle, Step, At
  <2>2. LockOK' /\ AuditOK' /\ Places'
        BY <1>1 DEF ApiInv, LockOK, ApiTypeOK, Inside, Reading, Writing, Leave, Idle, Step, At, AuditOK, Places, Actions,
        JobWrites
  <2>3. ValidOK' /\ RoomOK' /\ WriteOK'
        BY <1>1 DEF ApiInv, ValidOK, StoredAsValidated, ApiTypeOK, Places, Leave, Idle, Step, At, RoomOK, QueueBound,
        RoomInQueue, Queued, LockOK, Inside, Reading, WriteOK, Active, Writing
  <2>4. OldOK' /\ RowCopyOK' /\ OwnerOK'
        BY <1>1 DEF ApiInv, CopyOK, OldOK, ApiTypeOK, InHand, Existing, Places, JobWrites, Leave, Idle, Step, At, RowCopyOK,
        OwnerOK, RowCopies
  <2>5. HandOK' /\ ResumeOK'
        BY <1>1 DEF ApiInv, CopyOK, HandOK, ApiTypeOK, RowCopies, Existing, Places, Actions, JobWrites, Leave, Idle, Step,
        At, ResumeOK
  <2> QED
    BY <2>1, <2>2, <2>3, <2>4, <2>5 DEF ApiInv, CopyOK

LEMMA ReadTextKeeps == ASSUME ApiInv, NEW t \in Threads, ReadText(t) PROVE ApiInv'
<1>1. ApiInv /\ t \in Threads /\ ReadText(t)
  OBVIOUS
<1> QED
  <2>1. ApiTypeOK'
    <3> DEFINE r == [req[t] EXCEPT !.at = IF jobFile = 0 THEN "failed" ELSE "parse1", !.text = jobFile]
    <3>1. req[t] \in Requests /\ jobFile \in Texts /\ configFile \in Texts /\ refFile \in Texts
      BY <1>1 DEF ApiInv, ApiTypeOK
    <3>2. r \in Requests
      BY <3>1, PlacesThere DEF Requests, Texts
    <3>3. req' = [req EXCEPT ![t] = r]
      BY <1>1 DEF ReadText, ApiInv, ApiTypeOK, At
    <3>4. req' \in [Threads -> Requests]
      BY <1>1, <3>2, <3>3 DEF ApiInv, ApiTypeOK
    <3> QED
      BY <1>1, <3>4 DEF ApiInv, ApiTypeOK, ReadText, Existing, Texts
  <2>2. LockOK' /\ AuditOK' /\ Places'
        BY <1>1 DEF ApiInv, LockOK, ApiTypeOK, Inside, Reading, Writing, ReadText, Step, At, AuditOK, Places, Actions,
        JobWrites
  <2>3. ValidOK' /\ RoomOK' /\ WriteOK'
        BY <1>1 DEF ApiInv, ValidOK, StoredAsValidated, ApiTypeOK, Places, ReadText, Step, At, RoomOK, QueueBound,
        RoomInQueue, Queued, LockOK, Inside, Reading, WriteOK, Active, Writing
  <2>4. OldOK' /\ RowCopyOK' /\ OwnerOK'
        BY <1>1 DEF ApiInv, CopyOK, OldOK, ApiTypeOK, InHand, Existing, Places, JobWrites, ReadText, Step, At, RowCopyOK,
        OwnerOK, RowCopies
  <2>5. HandOK' /\ ResumeOK'
        BY <1>1 DEF ApiInv, CopyOK, HandOK, ApiTypeOK, RowCopies, Existing, Places, Actions, JobWrites, ReadText, Step, At,
        ResumeOK
  <2> QED
    BY <2>1, <2>2, <2>3, <2>4, <2>5 DEF ApiInv, CopyOK

LEMMA Parse1Keeps == ASSUME ApiInv, NEW t \in Threads, Parse1(t) PROVE ApiInv'
<1>1. ApiInv /\ t \in Threads /\ Parse1(t)
  OBVIOUS
<1> QED
  <2>1. ApiTypeOK'
        BY <1>1, PlacesThere DEF ApiInv, ApiTypeOK, Requests, Rows, Texts, Existing, Parse1, RoomInQueue, Step, At
  <2>2. LockOK' /\ AuditOK' /\ Places'
        BY <1>1 DEF ApiInv, LockOK, ApiTypeOK, Inside, Reading, Writing, Parse1, RoomInQueue, Step, At, AuditOK, Places,
        Actions, JobWrites
  <2>3. ValidOK' /\ RoomOK' /\ WriteOK'
        BY <1>1 DEF ApiInv, ValidOK, StoredAsValidated, ApiTypeOK, Places, Parse1, RoomInQueue, Step, At, RoomOK, QueueBound,
        Queued, LockOK, Inside, Reading, WriteOK, Active, Writing
  <2>4. OldOK' /\ RowCopyOK' /\ OwnerOK'
        BY <1>1 DEF ApiInv, CopyOK, OldOK, ApiTypeOK, InHand, Existing, Places, JobWrites, Parse1, RoomInQueue, Step, At,
        RowCopyOK, OwnerOK, RowCopies
  <2>5. HandOK' /\ ResumeOK'
        BY <1>1 DEF ApiInv, CopyOK, HandOK, ApiTypeOK, RowCopies, Existing, Places, Actions, JobWrites, Parse1, RoomInQueue,
        Step, At, ResumeOK
  <2> QED
    BY <2>1, <2>2, <2>3, <2>4, <2>5 DEF ApiInv, CopyOK

LEMMA SnapshotConfigKeeps == ASSUME ApiInv, NEW t \in Threads, SnapshotConfig(t) PROVE ApiInv'
<1>1. ApiInv /\ t \in Threads /\ SnapshotConfig(t)
  OBVIOUS
<1> QED
  <2>1. ApiTypeOK'
    <3> DEFINE r == [req[t] EXCEPT !.at = IF configFile = 0 THEN "failed" ELSE "parse2", !.config = configFile]
    <3>1. req[t] \in Requests /\ jobFile \in Texts /\ configFile \in Texts /\ refFile \in Texts
      BY <1>1 DEF ApiInv, ApiTypeOK
    <3>2. r \in Requests
      BY <3>1, PlacesThere DEF Requests, Texts
    <3>3. req' = [req EXCEPT ![t] = r]
      BY <1>1 DEF SnapshotConfig, ApiInv, ApiTypeOK, At
    <3>4. req' \in [Threads -> Requests]
      BY <1>1, <3>2, <3>3 DEF ApiInv, ApiTypeOK
    <3> QED
      BY <1>1, <3>4 DEF ApiInv, ApiTypeOK, SnapshotConfig, Existing, Texts
  <2>2. LockOK' /\ AuditOK' /\ Places'
        BY <1>1 DEF ApiInv, LockOK, ApiTypeOK, Inside, Reading, Writing, SnapshotConfig, Step, At, AuditOK, Places, Actions,
        JobWrites
  <2>3. ValidOK' /\ RoomOK' /\ WriteOK'
        BY <1>1 DEF ApiInv, ValidOK, StoredAsValidated, ApiTypeOK, Places, SnapshotConfig, Step, At, RoomOK, QueueBound,
        RoomInQueue, Queued, LockOK, Inside, Reading, WriteOK, Active, Writing
  <2>4. OldOK' /\ RowCopyOK' /\ OwnerOK'
        BY <1>1 DEF ApiInv, CopyOK, OldOK, ApiTypeOK, InHand, Existing, Places, JobWrites, SnapshotConfig, Step, At,
        RowCopyOK, OwnerOK, RowCopies
  <2>5. HandOK' /\ ResumeOK'
        BY <1>1 DEF ApiInv, CopyOK, HandOK, ApiTypeOK, RowCopies, Existing, Places, Actions, JobWrites, SnapshotConfig, Step,
        At, ResumeOK
  <2> QED
    BY <2>1, <2>2, <2>3, <2>4, <2>5 DEF ApiInv, CopyOK

LEMMA Parse2Keeps == ASSUME ApiInv, NEW t \in Threads, Parse2(t) PROVE ApiInv'
<1>1. ApiInv /\ t \in Threads /\ Parse2(t)
  OBVIOUS
<1> QED
  <2>0. PICK p \in {"failed", "mkdir", "insert"} :
          /\ req[t].at = "parse2" /\ req[t].op = "submit" /\ Took(t, p)
          /\ req'[t].text = req[t].text /\ req'[t].config = req[t].config /\ req'[t].copy = req[t].copy
          /\ p # "failed" => <<req[t].text, req[t].config, req'[t].ref>> \in Valid
    <3> DEFINE p == IF ~Reparsed(t) THEN "failed" ELSE IF req[t].text \in WithReference THEN "mkdir" ELSE "insert"
               r == [req[t] EXCEPT !.at = p, !.ref = RefOf(req[t].text, refFile)]
    <3>1. req[t] \in Requests /\ refFile \in Texts /\ req[t].op = "submit" /\ req[t].at = "parse2"
      BY <1>1 DEF ApiInv, ApiTypeOK, Places, Parse2, At
    <3>2. r \in Requests
      BY <3>1, PlacesThere DEF Requests, Texts, RefOf
    <3>3. req' = [req EXCEPT ![t] = r] /\ req \in [Threads -> Requests]
      BY <1>1 DEF Parse2, ApiInv, ApiTypeOK
    <3>4. req' \in [Threads -> Requests] /\ req'[t] = r /\ \A u \in Threads : u # t => req'[u] = req[u]
      BY <3>2, <3>3
    <3>5. p # "failed" => <<req[t].text, req[t].config, RefOf(req[t].text, refFile)>> \in Valid
      BY DEF Reparsed, Parses
    <3>6. /\ r.op = req[t].op /\ r.expect = req[t].expect /\ r.auth = req[t].auth /\ r.rows = req[t].rows /\ r.late = req[t].late
          /\ r.raced = req[t].raced /\ r.at = p /\ r.text = req[t].text /\ r.config = req[t].config /\ r.copy = req[t].copy
          /\ r.ref = RefOf(req[t].text, refFile)
      BY <3>1 DEF Requests
    <3>7. p \in {"failed", "mkdir", "insert"}
      OBVIOUS
    <3> HIDE DEF p, r
    <3> QED
      BY <3>1, <3>4, <3>5, <3>6, <3>7 DEF Took, Others, Same
  <2>u. UNCHANGED <<jobFile, configFile, refFile, saved, lock, queue, copies, old, asked, edits, crashes, orphans>>
    BY <1>1 DEF Parse2
  <2>1. ApiTypeOK'
        BY <1>1, <2>0, <2>u DEF ApiInv, ApiTypeOK, Took, Others, Same, Existing, Texts
  <2>2. LockOK' /\ AuditOK' /\ Places'
        BY <1>1, <2>0, <2>u DEF ApiInv, LockOK, ApiTypeOK, Took, Others, Same, Inside, Reading, Writing, AuditOK, Places,
        Actions, JobWrites
  <2>3. ValidOK' /\ RoomOK' /\ WriteOK'
        BY <1>1, <2>0, <2>u DEF ApiInv, ValidOK, ApiTypeOK, Took, Others, Same, StoredAsValidated, Places, RoomOK,
        QueueBound, RoomInQueue, Queued, LockOK, Inside, Reading, WriteOK, Active, Writing
  <2>4. OldOK'
    <3>1. InHand' \subseteq InHand \cup {0} /\ 0 \notin Existing
      BY <1>1, <2>0, ApiAssumption DEF ApiInv, ApiTypeOK, CopyOK, HandOK, InHand, Took, Others, Same
    <3> QED
      BY <1>1, <2>u, <3>1 DEF ApiInv, CopyOK, OldOK, Existing
  <2>5. RowCopyOK'
        BY <1>1, <2>0, <2>u DEF ApiInv, RowCopyOK, ApiTypeOK, Took, Others, Same, CopyOK, Existing
  <2>6. OwnerOK'
        BY <1>1, <2>0, <2>u DEF ApiInv, OwnerOK, ApiTypeOK, Took, Others, Same, CopyOK, InHand, RowCopies, Existing, Places,
        JobWrites
  <2>7. HandOK'
        BY <1>1, <2>0, <2>u DEF ApiInv, HandOK, ApiTypeOK, Took, Others, Same, CopyOK, RowCopies, Existing, Places, JobWrites
  <2>8. ResumeOK'
        BY <1>1, <2>0, <2>u DEF ApiInv, ResumeOK, ApiTypeOK, Took, Others, Same, CopyOK, RowCopies, Existing
  <2> QED
    BY <2>1, <2>2, <2>3, <2>4, <2>5, <2>6, <2>7, <2>8 DEF ApiInv, CopyOK

LEMMA MakeDirectoryKeeps == ASSUME ApiInv, NEW t \in Threads, MakeDirectory(t) PROVE ApiInv'
<1>1. ApiInv /\ t \in Threads /\ MakeDirectory(t)
  OBVIOUS
<1> QED
  <2>0. /\ req[t].at = "mkdir" /\ req[t].op = "submit" /\ req[t].copy = 0 /\ lock = t
        /\ NextCopy \in Directories /\ NextCopy \notin Existing \cup orphans \cup RowCopies /\ NextCopy # 0
    BY <1>1, ApiAssumption DEF ApiInv, MakeDirectory, At, Places, CopyOK, HandOK, LockOK, Inside, Reading, NextCopy, UnusedNames, RowCopies
  <2>1a. /\ Took(t, "copy") /\ req'[t].copy = NextCopy
         /\ req'[t].text = req[t].text /\ req'[t].config = req[t].config /\ req'[t].ref = req[t].ref
    <3> DEFINE r == [req[t] EXCEPT !.at = "copy", !.copy = NextCopy]
    <3>1. req[t] \in Requests
      BY <1>1 DEF ApiInv, ApiTypeOK
    <3>2. r \in Requests
      BY <2>0, <3>1, PlacesThere DEF Requests
    <3>3. req' = [req EXCEPT ![t] = r] /\ req \in [Threads -> Requests]
      BY <1>1 DEF MakeDirectory, ApiInv, ApiTypeOK
    <3>4. req' \in [Threads -> Requests] /\ req'[t] = r /\ \A u \in Threads : u # t => req'[u] = req[u]
      BY <3>2, <3>3
    <3> QED
      BY <3>1, <3>4 DEF Took, Others, Same, Requests
  <2>1b. /\ Existing' = Existing \cup {NextCopy} /\ copies'[NextCopy] = 0 /\ \A c \in Existing : copies'[c] = copies[c]
    BY <1>1, <2>0 DEF MakeDirectory, Existing
  <2>u. UNCHANGED <<jobFile, configFile, refFile, saved, lock, queue, old, asked, edits, crashes, orphans>>
    BY <1>1 DEF MakeDirectory
  <2>1c. /\ InHand' = {NextCopy} /\ \A u \in Threads : u # t => req[u].at \notin Inside
    <3>1. \A u \in Threads : u # t => req[u].at \notin Inside
      BY <1>1, <2>0 DEF ApiInv, LockOK
    <3> QED
      BY <2>0, <2>1a, <3>1 DEF InHand, Took, Others, Same, Inside, Reading
  <2>1. ApiTypeOK'
        BY <1>1, <2>0, <2>1a, <2>1b, <2>1c, <2>u DEF ApiInv, ApiTypeOK, Took, Others, Same, Texts
  <2>2. LockOK' /\ AuditOK' /\ Places'
        BY <1>1, <2>0, <2>1a, <2>1b, <2>1c, <2>u DEF ApiInv, LockOK, ApiTypeOK, Took, Others, Same, Inside, Reading, Writing,
        AuditOK, Places, Actions, JobWrites
  <2>3. ValidOK' /\ RoomOK' /\ WriteOK'
        BY <1>1, <2>0, <2>1a, <2>1b, <2>1c, <2>u DEF ApiInv, ValidOK, ApiTypeOK, Took, Others, Same, StoredAsValidated,
        Places, RoomOK, QueueBound, RoomInQueue, Queued, LockOK, Inside, Reading, WriteOK, Active, Writing
  <2>4. OldOK' /\ RowCopyOK' /\ OwnerOK'
        BY <1>1, <2>0, <2>1a, <2>1b, <2>1c, <2>u DEF ApiInv, CopyOK, OldOK, RowCopyOK, ApiTypeOK, Took, Others, Same,
        OwnerOK, InHand, RowCopies, Places, JobWrites
  <2>5. HandOK'
    <3>1. ~req[t].raced
      BY <1>1, <2>0 DEF ApiInv, CopyOK, HandOK
    <3>2. \A u \in Threads : u # t => req[u].at \notin {"read", "parse1", "config", "parse2", "mkdir", "copy", "verify", "insert"}
      BY <2>1c DEF Inside, Reading
    <3> QED
      BY <1>1, <2>0, <2>1a, <2>1b, <2>u, <3>1, <3>2 DEF ApiInv, CopyOK, HandOK, Took, Others, Same, RowCopies
  <2>6. ResumeOK'
        BY <1>1, <2>0, <2>1a, <2>1b, <2>1c, <2>u DEF ApiInv, ResumeOK, ApiTypeOK, Took, Others, Same, CopyOK, RowCopies
  <2> QED
    BY <2>1, <2>2, <2>3, <2>4, <2>5, <2>6 DEF ApiInv, CopyOK

LEMMA CopyReferenceKeeps == ASSUME ApiInv, NEW t \in Threads, CopyReference(t) PROVE ApiInv'
<1>0. req[t].at = "copy" /\ req[t].op = "submit" /\ req[t].copy \in Existing /\ lock = t
  BY DEF ApiInv, CopyReference, At, Places, CopyOK, HandOK, LockOK, Inside, Reading
<1>1. CASE refFile # req[t].ref
  BY <1>0, <1>1, DropKeeps DEF CopyReference
<1>2. CASE refFile = req[t].ref
  <2>1. Moved(t, "verify")
    BY <1>2, StepMoves, PlacesThere DEF CopyReference, ApiInv, ApiTypeOK
  <2>2. /\ Existing' = Existing /\ copies'[req[t].copy] = req[t].ref
        /\ \A c \in Existing : c # req[t].copy => copies'[c] = copies[c]
    BY <1>0, <1>2 DEF CopyReference, Existing
  <2>3. UNCHANGED <<jobFile, configFile, refFile, saved, lock, queue, old, asked, edits, crashes, orphans>>
    BY DEF CopyReference
  <2>4. InHand' = InHand
    BY <1>0, <2>1 DEF InHand, Moved, Took, Others, Same
  <2>5. ApiTypeOK'
    BY <1>0, <1>2, <2>1, <2>2, <2>3 DEF ApiInv, ApiTypeOK, Moved, Took, Others
  <2>6. LockOK' /\ AuditOK' /\ Places'
    BY <1>0, <2>1, <2>3 DEF ApiInv, ApiTypeOK, LockOK, AuditOK, Places, Moved, Took, Others, Same, Inside, Reading, Writing
  <2>7. ValidOK' /\ RoomOK' /\ WriteOK'
    BY <1>0, <2>1, <2>3 DEF ApiInv, ApiTypeOK, ValidOK, StoredAsValidated, RoomOK, RoomInQueue, QueueBound, Queued, WriteOK,
                            Active, Moved, Took, Others, Same
  <2>8. OldOK' /\ OwnerOK'
    BY <2>2, <2>3, <2>4 DEF ApiInv, CopyOK, OldOK, OwnerOK, RowCopies
  <2>9. RowCopyOK'
    BY <1>0, <2>2, <2>3 DEF ApiInv, CopyOK, RowCopyOK, RowCopies, HandOK
  <2>10. HandOK' /\ ResumeOK'
    <3>1. \A u \in Threads : u # t => req[u].at \notin Inside
      BY <1>0 DEF ApiInv, LockOK
    <3> QED
      BY <1>0, <2>1, <2>2, <2>3, <3>1 DEF ApiInv, ApiTypeOK, CopyOK, HandOK, ResumeOK, Moved, Took, Others, Same, Inside, Reading, RowCopies
  <2> QED
    BY <2>5, <2>6, <2>7, <2>8, <2>9, <2>10 DEF ApiInv, CopyOK
<1> QED
  BY <1>1, <1>2

LEMMA VerifyCopyKeeps == ASSUME ApiInv, NEW t \in Threads, VerifyCopy(t) PROVE ApiInv'
<1>0. req[t].at = "verify" /\ req[t].op = "submit" /\ lock = t
  BY DEF ApiInv, VerifyCopy, At, Places, LockOK, Inside, Reading
<1>1. CASE ~Step(t, "insert")
  BY <1>0, <1>1, DropKeeps DEF VerifyCopy
<1>2. CASE Step(t, "insert") /\ UNCHANGED copies
  <2>1. Moved(t, "insert")
    BY <1>2, StepMoves, PlacesThere DEF ApiInv, ApiTypeOK
  <2>3. UNCHANGED <<jobFile, configFile, refFile, saved, lock, queue, copies, old, asked, edits, crashes, orphans>>
    BY <1>2 DEF VerifyCopy
  <2>4. InHand' = InHand
    BY <1>0, <2>1 DEF InHand, Moved, Took, Others, Same
  <2>5. ApiTypeOK'
    BY <2>1, <2>3 DEF ApiInv, ApiTypeOK, Moved, Took, Others, Existing
  <2>6. LockOK' /\ AuditOK' /\ Places'
    BY <1>0, <2>1, <2>3 DEF ApiInv, ApiTypeOK, LockOK, AuditOK, Places, Moved, Took, Others, Same, Inside, Reading, Writing
  <2>7. ValidOK' /\ RoomOK' /\ WriteOK'
    BY <1>0, <2>1, <2>3 DEF ApiInv, ApiTypeOK, ValidOK, StoredAsValidated, RoomOK, RoomInQueue, QueueBound, Queued, WriteOK,
                            Active, Moved, Took, Others, Same
  <2>8. OldOK' /\ OwnerOK' /\ RowCopyOK'
    BY <2>3, <2>4 DEF ApiInv, CopyOK, OldOK, OwnerOK, RowCopyOK, RowCopies, Existing
  <2>9. HandOK' /\ ResumeOK'
    BY <1>0, <2>1, <2>3 DEF ApiInv, ApiTypeOK, CopyOK, HandOK, ResumeOK, Moved, Took, Others, Same, RowCopies, Existing
  <2> QED
    BY <2>5, <2>6, <2>7, <2>8, <2>9 DEF ApiInv, CopyOK
<1> QED
  BY <1>1, <1>2, <1>0, DropKeeps DEF VerifyCopy

LEMMA InsertKeeps == ASSUME ApiInv, NEW t \in Threads, Insert(t) PROVE ApiInv'
<1> DEFINE n == Len(queue) + 1
<1>0. /\ req[t].at = "insert" /\ req[t].op \in {"submit", "generate", "resume"} /\ lock = t
      /\ req[t] \in Requests /\ queue \in Seq(Rows)
      /\ UNCHANGED <<jobFile, configFile, refFile, saved, lock, old, asked, edits, orphans>>
  BY DEF ApiInv, ApiTypeOK, Insert, At, Places, LockOK, Inside, Reading
<1>1. CASE InsertAllowed(t) /\ queue' = Append(queue, Row(t)) /\ Step(t, "ok") /\ UNCHANGED <<copies, crashes>>
  <2>1. Moved(t, "ok")
    BY <1>1, StepMoves, PlacesThere DEF ApiInv, ApiTypeOK
  <2>2. Row(t) \in Rows
    BY <1>0 DEF Row, Rows, Requests
  <2>3. /\ queue' \in Seq(Rows) /\ DOMAIN queue' = DOMAIN queue \cup {n} /\ n \notin DOMAIN queue
        /\ queue'[n] = Row(t) /\ \A i \in DOMAIN queue : queue'[i] = queue[i]
    BY <1>0, <1>1, <2>2
  <2>4. UNCHANGED <<jobFile, configFile, refFile, saved, lock, copies, old, asked, edits, orphans>>
    BY <1>0, <1>1
  <2>5. /\ RowCopies' = RowCopies \cup {req[t].copy} /\ Existing' = Existing
        /\ InHand' = InHand \ {req[t].copy} /\ (req[t].op = "submit" => InHand = {req[t].copy})
        /\ (req[t].op # "submit" => InHand = {})
    <3>1. RowCopies' = RowCopies \cup {req[t].copy}
      BY <2>3 DEF RowCopies, Row
    <3>2. \A u \in Threads : u # t => req[u].at \notin Inside
      BY <1>0 DEF ApiInv, LockOK
    <3> QED
      BY <1>0, <2>1, <2>4, <3>1, <3>2 DEF InHand, Moved, Took, Others, Same, Existing, Inside, Reading
  <2>6. ApiTypeOK'
    BY <2>1, <2>3, <2>4 DEF ApiInv, ApiTypeOK, Moved, Took, Others, Existing
  <2>7. LockOK' /\ AuditOK' /\ Places'
    BY <1>0, <2>1, <2>4 DEF ApiInv, ApiTypeOK, LockOK, AuditOK, Places, Moved, Took, Others, Same, Inside, Reading, Writing
  <2>8. ValidOK'
    BY <1>0, <2>1, <2>3 DEF ApiInv, ApiTypeOK, ValidOK, StoredAsValidated, Moved, Took, Others, Same, Row
  <2>9. RoomOK'
    <3>1. Queued' = Queued \cup {n} /\ n \notin Queued
      BY <2>3 DEF Queued, Row
    <3>2. RoomInQueue
      BY <1>0, <1>1 DEF ApiInv, RoomOK, InsertAllowed
    <3>3. IsFiniteSet(Queued') /\ Cardinality(Queued') = Cardinality(Queued) + 1 /\ Cardinality(Queued) \in Nat
      BY <3>1, FS_AddElement, FS_CardinalityType DEF ApiInv, RoomOK
    <3>4. QueueBound'
      BY <3>2, <3>3, ApiAssumption DEF RoomInQueue, QueueBound
    <3>5. \A u \in Threads : req'[u].at \notin {"config", "parse2", "mkdir", "copy", "verify", "insert"}
      BY <1>0, <2>1 DEF ApiInv, LockOK, Inside, Reading, Moved, Took, Others
    <3> QED
      BY <3>3, <3>4, <3>5 DEF RoomOK
  <2>10. WriteOK'
    BY <1>0, <2>1 DEF ApiInv, LockOK, Inside, Reading, Writing, Moved, Took, Others, WriteOK
  <2>11. OldOK' /\ OwnerOK'
    BY <2>4, <2>5 DEF ApiInv, CopyOK, OldOK, OwnerOK
  <2>12. RowCopyOK'
    <3>1. LET r == Row(t)
          IN  /\ r.state = "queued" /\ r.copy = req[t].copy /\ r.raced = req[t].raced /\ r.ref = req[t].ref
      BY DEF Row
    <3>2. /\ req[t].copy # 0 /\ ~req[t].raced => req[t].copy \in Existing
          /\ req[t].copy \in Existing => copies[req[t].copy] = req[t].ref
          /\ req[t].copy \in Existing \cup orphans \cup {0}
      <4>1. CASE req[t].op = "submit"
        BY <1>0, <4>1, ApiAssumption DEF ApiInv, ApiTypeOK, CopyOK, HandOK
      <4>2. CASE req[t].op = "generate"
        BY <1>0, <4>2, ApiAssumption DEF ApiInv, ApiTypeOK, CopyOK, HandOK
      <4>3. CASE req[t].op = "resume"
        BY <1>0, <4>3, ApiAssumption DEF ApiInv, ApiTypeOK, CopyOK, ResumeOK
      <4> QED
        BY <1>0, <4>1, <4>2, <4>3
    <3> QED
      BY <2>3, <2>4, <2>5, <3>1, <3>2 DEF ApiInv, CopyOK, RowCopyOK, Existing
  <2>13. HandOK' /\ ResumeOK'
    BY <1>0, <2>1, <2>4, <2>5 DEF ApiInv, ApiTypeOK, LockOK, Inside, Reading, CopyOK, HandOK, ResumeOK, Moved, Took, Others, Same
  <2> QED
    BY <2>6, <2>7, <2>8, <2>9, <2>10, <2>11, <2>12, <2>13 DEF ApiInv, CopyOK
<1>2. CASE CleanupSnapshot(t) /\ req' = [req EXCEPT ![t].at = "failed", ![t].copy = 0] /\ UNCHANGED queue
  <2>1. CASE req[t].op = "submit"
    BY <1>0, <1>2, <2>1, DropKeeps DEF CleanupSnapshot
  <2>2. CASE req[t].op # "submit"
    <3>1. /\ Took(t, "failed") /\ req'[t].copy = 0
          /\ req'[t].text = req[t].text /\ req'[t].config = req[t].config /\ req'[t].ref = req[t].ref
      BY <1>2, DropEffect DEF ApiInv, ApiTypeOK
    <3>2. UNCHANGED <<jobFile, configFile, refFile, saved, lock, queue, copies, old, asked, edits, orphans>>
      BY <1>0, <1>2, <2>2 DEF CleanupSnapshot
    <3>3. InHand' = InHand
      BY <2>2, <3>1 DEF InHand, Took, Others, Same
    <3>4. ApiTypeOK'
      BY <3>1, <3>2 DEF ApiInv, ApiTypeOK, Took, Others, Existing
    <3>5. LockOK' /\ AuditOK' /\ Places'
      BY <1>0, <3>1, <3>2 DEF ApiInv, ApiTypeOK, LockOK, AuditOK, Places, Took, Others, Same, Inside, Reading, Writing
    <3>6. ValidOK' /\ RoomOK' /\ WriteOK'
      BY <1>0, <3>1, <3>2 DEF ApiInv, ApiTypeOK, ValidOK, StoredAsValidated, RoomOK, RoomInQueue, QueueBound, Queued, WriteOK,
                              Active, Took, Others, Same
    <3>7. OldOK' /\ OwnerOK' /\ RowCopyOK'
      BY <3>2, <3>3 DEF ApiInv, CopyOK, OldOK, OwnerOK, RowCopyOK, RowCopies, Existing
    <3>8. HandOK' /\ ResumeOK'
      BY <1>0, <3>1, <3>2 DEF ApiInv, ApiTypeOK, CopyOK, HandOK, ResumeOK, Took, Others, Same, RowCopies, Existing
    <3> QED
      BY <3>4, <3>5, <3>6, <3>7, <3>8 DEF ApiInv, CopyOK
  <2> QED
    BY <2>1, <2>2
<1> QED
  BY <1>1, <1>2 DEF Insert

LEMMA FindEntryKeeps == ASSUME ApiInv, NEW t \in Threads, FindEntry(t) PROVE ApiInv'
<1>0. /\ req[t].at = "find" /\ req[t].op = "resume" /\ lock = t /\ req[t] \in Requests
      /\ UNCHANGED <<jobFile, configFile, refFile, saved, lock, queue, copies, old, asked, edits, crashes, orphans>>
  BY DEF ApiInv, ApiTypeOK, FindEntry, At, Places, LockOK, Inside, Reading
<1>1. \A p \in AllPlaces : Took(t, p) => InHand' = InHand
  BY <1>0 DEF InHand, Took, Others, Same
<1>2. ASSUME NEW i \in DOMAIN queue, queue[i].kind = "job", RoomInQueue, queue[i].copy # 0 => queue[i].copy \in Existing,
             req' = [req EXCEPT ![t].at = "insert", ![t].text = queue[i].text, ![t].config = queue[i].config,
                                ![t].ref = queue[i].ref, ![t].copy = queue[i].copy]
      PROVE  ApiInv'
  <2>1. queue[i] \in Rows
    BY DEF ApiInv, ApiTypeOK
  <2>2. /\ Took(t, "insert") /\ req'[t].text = queue[i].text /\ req'[t].config = queue[i].config
        /\ req'[t].ref = queue[i].ref /\ req'[t].copy = queue[i].copy
    <3> DEFINE r == [req[t] EXCEPT !.at = "insert", !.text = queue[i].text, !.config = queue[i].config,
                                   !.ref = queue[i].ref, !.copy = queue[i].copy]
    <3>1. r \in Requests
      BY <1>0, <2>1, PlacesThere DEF Requests, Rows
    <3>2. req' = [req EXCEPT ![t] = r] /\ req \in [Threads -> Requests]
      BY <1>2 DEF ApiInv, ApiTypeOK
    <3>3. req' \in [Threads -> Requests] /\ req'[t] = r /\ \A u \in Threads : u # t => req'[u] = req[u]
      BY <3>1, <3>2
    <3> QED
      BY <1>0, <3>3 DEF Took, Others, Same, Requests
  <2>3. InHand' = InHand
    BY <1>1, <2>2, PlacesThere
  <2>4. ApiTypeOK'
    BY <1>0, <2>2 DEF ApiInv, ApiTypeOK, Took, Others, Existing
  <2>5. LockOK' /\ AuditOK' /\ Places'
    BY <1>0, <2>2 DEF ApiInv, ApiTypeOK, LockOK, AuditOK, Places, Took, Others, Same, Inside, Reading, Writing
  <2>6. ValidOK'
    BY <1>0, <1>2, <2>2 DEF ApiInv, ApiTypeOK, ValidOK, StoredAsValidated, Took, Others, Same
  <2>6a. RoomOK'
    BY <1>0, <1>2, <2>2 DEF ApiInv, ApiTypeOK, RoomOK, RoomInQueue, QueueBound, Queued, Took, Others, Same
  <2>6b. WriteOK'
    BY <1>0, <2>2 DEF ApiInv, ApiTypeOK, WriteOK, Active, Took, Others, Same
  <2>7. OldOK' /\ OwnerOK' /\ RowCopyOK'
    BY <1>0, <2>3 DEF ApiInv, CopyOK, OldOK, OwnerOK, RowCopyOK, RowCopies, Existing
  <2>8. HandOK'
    BY <1>0, <2>2 DEF ApiInv, ApiTypeOK, CopyOK, HandOK, Took, Others, Same, RowCopies, Existing
  <2>9. ResumeOK'
    <3>1. queue[i].copy # 0 => queue[i].copy \in RowCopies \cap Existing /\ copies[queue[i].copy] = queue[i].ref
      BY <1>2 DEF ApiInv, CopyOK, RowCopyOK, RowCopies
    <3> QED
      BY <1>0, <2>2, <3>1 DEF ApiInv, ApiTypeOK, CopyOK, ResumeOK, Took, Others, Same, RowCopies, Existing
  <2> QED
    BY <2>9, <2>6a, <2>6b, <2>4, <2>5, <2>6, <2>7, <2>8 DEF ApiInv, CopyOK
<1>3. CASE Step(t, "failed")
  <2>1. Moved(t, "failed")
    BY <1>3, StepMoves, PlacesThere DEF ApiInv, ApiTypeOK
  <2>2. InHand' = InHand
    BY <1>1, <2>1, PlacesThere DEF Moved
  <2>3. ApiTypeOK'
    BY <1>0, <2>1 DEF ApiInv, ApiTypeOK, Moved, Took, Others, Existing
  <2>4. LockOK' /\ AuditOK' /\ Places'
    BY <1>0, <2>1 DEF ApiInv, ApiTypeOK, LockOK, AuditOK, Places, Moved, Took, Others, Same, Inside, Reading, Writing
  <2>5. ValidOK' /\ RoomOK' /\ WriteOK'
    BY <1>0, <2>1 DEF ApiInv, ApiTypeOK, ValidOK, StoredAsValidated, RoomOK, RoomInQueue, QueueBound, Queued, WriteOK,
                      Active, Moved, Took, Others, Same
  <2>6. OldOK' /\ OwnerOK' /\ RowCopyOK'
    BY <1>0, <2>2 DEF ApiInv, CopyOK, OldOK, OwnerOK, RowCopyOK, RowCopies, Existing
  <2>7. HandOK' /\ ResumeOK'
    BY <1>0, <2>1 DEF ApiInv, ApiTypeOK, CopyOK, HandOK, ResumeOK, Moved, Took, Others, Same, RowCopies, Existing
  <2> QED
    BY <2>3, <2>4, <2>5, <2>6, <2>7 DEF ApiInv, CopyOK
<1> QED
  BY <1>2, <1>3 DEF FindEntry

LEMMA ValidateTextKeeps == ASSUME ApiInv, NEW t \in Threads, ValidateText(t) PROVE ApiInv'
<1>1. ApiInv /\ t \in Threads /\ ValidateText(t)
  OBVIOUS
<1> QED
  <2>1. ApiTypeOK'
        BY <1>1, PlacesThere DEF ApiInv, ApiTypeOK, Requests, Rows, Texts, Existing, ValidateText, Step, At
  <2>2. LockOK' /\ AuditOK' /\ Places'
        BY <1>1 DEF ApiInv, LockOK, ApiTypeOK, Inside, Reading, Writing, ValidateText, Step, At, AuditOK, Places, Actions,
        JobWrites
  <2>3. ValidOK' /\ RoomOK' /\ WriteOK'
        BY <1>1 DEF ApiInv, ValidOK, StoredAsValidated, ApiTypeOK, Places, ValidateText, Step, At, RoomOK, QueueBound,
        RoomInQueue, Queued, LockOK, Inside, Reading, WriteOK, Active, Writing
  <2>4. OldOK' /\ RowCopyOK' /\ OwnerOK'
        BY <1>1 DEF ApiInv, CopyOK, OldOK, ApiTypeOK, InHand, Existing, Places, JobWrites, ValidateText, Step, At, RowCopyOK,
        OwnerOK, RowCopies
  <2>5. HandOK' /\ ResumeOK'
        BY <1>1 DEF ApiInv, CopyOK, HandOK, ApiTypeOK, RowCopies, Existing, Places, Actions, JobWrites, ValidateText, Step,
        At, ResumeOK
  <2> QED
    BY <2>1, <2>2, <2>3, <2>4, <2>5 DEF ApiInv, CopyOK

LEMMA LinkNewKeeps == ASSUME ApiInv, NEW t \in Threads, LinkNew(t) PROVE ApiInv'
<1>1. ApiInv /\ t \in Threads /\ LinkNew(t)
  OBVIOUS
<1> QED
  <2>1. ApiTypeOK'
        BY <1>1, PlacesThere DEF ApiInv, ApiTypeOK, Requests, Rows, Texts, Existing, LinkNew, Step, At
  <2>2. LockOK' /\ AuditOK' /\ Places'
        BY <1>1 DEF ApiInv, LockOK, ApiTypeOK, Inside, Reading, Writing, LinkNew, Step, At, AuditOK, Places, Actions,
        JobWrites
  <2>3. ValidOK' /\ RoomOK' /\ WriteOK'
        BY <1>1 DEF ApiInv, ValidOK, StoredAsValidated, ApiTypeOK, Places, LinkNew, Step, At, RoomOK, QueueBound,
        RoomInQueue, Queued, LockOK, Inside, Reading, WriteOK, Active, Writing
  <2>4. OldOK' /\ RowCopyOK' /\ OwnerOK'
        BY <1>1 DEF ApiInv, CopyOK, OldOK, ApiTypeOK, InHand, Existing, Places, JobWrites, LinkNew, Step, At, RowCopyOK,
        OwnerOK, RowCopies
  <2>5. HandOK' /\ ResumeOK'
        BY <1>1 DEF ApiInv, CopyOK, HandOK, ApiTypeOK, RowCopies, Existing, Places, Actions, JobWrites, LinkNew, Step, At,
        ResumeOK
  <2> QED
    BY <2>1, <2>2, <2>3, <2>4, <2>5 DEF ApiInv, CopyOK

LEMMA CheckActiveKeeps == ASSUME ApiInv, NEW t \in Threads, CheckActive(t) PROVE ApiInv'
<1>1. ApiInv /\ t \in Threads /\ CheckActive(t)
  OBVIOUS
<1> QED
  <2>0. /\ req[t].at = "active"
        /\ \E p \in {"failed", "current"} : Moved(t, p) /\ (p = "current" => Active = {})
    <3>1. PICK p \in {"failed", "current"} : Step(t, p) /\ (p = "current" => Active = {})
      BY <1>1 DEF CheckActive, IsActive, Active
    <3> QED
      BY <1>1, <3>1, StepMoves DEF ApiInv, ApiTypeOK, CheckActive, At, AllPlaces, Inside, Writing
  <2>u. UNCHANGED <<jobFile, configFile, refFile, saved, lock, queue, copies, old, asked, edits, crashes, orphans>>
    BY <1>1 DEF CheckActive
  <2>1. ApiTypeOK'
        BY <1>1, <2>0, <2>u DEF ApiInv, ApiTypeOK, Moved, Took, Others, Same, Existing
  <2>2. LockOK' /\ AuditOK' /\ Places'
        BY <1>1, <2>0, <2>u DEF ApiInv, LockOK, ApiTypeOK, Moved, Took, Others, Same, Inside, Reading, Writing, AuditOK,
        Places, Actions, JobWrites
  <2>3. ValidOK' /\ RoomOK' /\ WriteOK'
        BY <1>1, <2>0, <2>u DEF ApiInv, ValidOK, ApiTypeOK, Moved, Took, Others, Same, StoredAsValidated, Places, RoomOK,
        QueueBound, RoomInQueue, Queued, LockOK, Inside, Reading, WriteOK, Active, Writing
  <2>4. OldOK' /\ RowCopyOK' /\ OwnerOK'
        BY <1>1, <2>0, <2>u DEF ApiInv, OldOK, ApiTypeOK, Moved, Took, Others, Same, CopyOK, InHand, Places, Existing,
        JobWrites, RowCopyOK, OwnerOK, RowCopies
  <2>5. HandOK' /\ ResumeOK'
        BY <1>1, <2>0, <2>u DEF ApiInv, HandOK, ApiTypeOK, Moved, Took, Others, Same, CopyOK, RowCopies, Existing, Places,
        JobWrites, ResumeOK
  <2> QED
    BY <2>1, <2>2, <2>3, <2>4, <2>5 DEF ApiInv, CopyOK

LEMMA CheckCurrentKeeps == ASSUME ApiInv, NEW t \in Threads, CheckCurrent(t) PROVE ApiInv'
<1>1. ApiInv /\ t \in Threads /\ CheckCurrent(t)
  OBVIOUS
<1> QED
  <2>1. ApiTypeOK'
        BY <1>1, PlacesThere DEF ApiInv, ApiTypeOK, Requests, Rows, Texts, Existing, CheckCurrent, Step, At
  <2>2. LockOK' /\ AuditOK' /\ Places'
        BY <1>1 DEF ApiInv, LockOK, ApiTypeOK, Inside, Reading, Writing, CheckCurrent, Step, At, AuditOK, Places, Actions,
        JobWrites
  <2>3. ValidOK' /\ RoomOK' /\ WriteOK'
        BY <1>1 DEF ApiInv, ValidOK, StoredAsValidated, ApiTypeOK, Places, CheckCurrent, Step, At, RoomOK, QueueBound,
        RoomInQueue, Queued, LockOK, Inside, Reading, WriteOK, Active, Writing
  <2>4. OldOK' /\ RowCopyOK' /\ OwnerOK'
        BY <1>1 DEF ApiInv, CopyOK, OldOK, ApiTypeOK, InHand, Existing, Places, JobWrites, CheckCurrent, Step, At, RowCopyOK,
        OwnerOK, RowCopies
  <2>5. HandOK' /\ ResumeOK'
        BY <1>1 DEF ApiInv, CopyOK, HandOK, ApiTypeOK, RowCopies, Existing, Places, Actions, JobWrites, CheckCurrent, Step,
        At, ResumeOK
  <2> QED
    BY <2>1, <2>2, <2>3, <2>4, <2>5 DEF ApiInv, CopyOK

LEMMA BackupKeeps == ASSUME ApiInv, NEW t \in Threads, Backup(t) PROVE ApiInv'
<1>1. ApiInv /\ t \in Threads /\ Backup(t)
  OBVIOUS
<1> QED
  <2>0. /\ req[t].at = "backup" /\ Moved(t, "write")
    BY <1>1, StepMoves DEF ApiInv, ApiTypeOK, Backup, At, AllPlaces, Inside, Writing
  <2>u. UNCHANGED <<jobFile, configFile, refFile, lock, queue, copies, old, asked, edits, crashes, orphans>>
    BY <1>1 DEF Backup
  <2>1. ApiTypeOK'
        BY <1>1, <2>0, <2>u DEF ApiInv, ApiTypeOK, Moved, Took, Others, Same, Existing
  <2>2. LockOK' /\ AuditOK' /\ Places'
        BY <1>1, <2>0, <2>u DEF ApiInv, LockOK, ApiTypeOK, Moved, Took, Others, Same, Inside, Reading, Writing, AuditOK,
        Places, Actions, JobWrites
  <2>3. ValidOK' /\ RoomOK' /\ WriteOK'
        BY <1>1, <2>0, <2>u DEF ApiInv, ValidOK, ApiTypeOK, Moved, Took, Others, Same, StoredAsValidated, Places, RoomOK,
        QueueBound, RoomInQueue, Queued, LockOK, Inside, Reading, WriteOK, Active, Writing, Backup
  <2>4. OldOK' /\ RowCopyOK' /\ OwnerOK'
        BY <1>1, <2>0, <2>u DEF ApiInv, OldOK, ApiTypeOK, Moved, Took, Others, Same, CopyOK, InHand, Places, Existing,
        JobWrites, RowCopyOK, OwnerOK, RowCopies
  <2>5. HandOK' /\ ResumeOK'
        BY <1>1, <2>0, <2>u DEF ApiInv, HandOK, ApiTypeOK, Moved, Took, Others, Same, CopyOK, RowCopies, Existing, Places,
        JobWrites, ResumeOK
  <2> QED
    BY <2>1, <2>2, <2>3, <2>4, <2>5 DEF ApiInv, CopyOK

LEMMA WriteKeeps == ASSUME ApiInv, NEW t \in Threads, Write(t) PROVE ApiInv'
<1>1. ApiInv /\ t \in Threads /\ Write(t)
  OBVIOUS
<1> QED
  <2>1. ApiTypeOK'
        BY <1>1, PlacesThere DEF ApiInv, ApiTypeOK, Requests, Rows, Texts, Existing, Write, Step, At
  <2>2. LockOK' /\ AuditOK' /\ Places'
        BY <1>1 DEF ApiInv, LockOK, ApiTypeOK, Inside, Reading, Writing, Write, Step, At, AuditOK, Places, Actions, JobWrites
  <2>3. ValidOK' /\ RoomOK' /\ WriteOK'
        BY <1>1 DEF ApiInv, ValidOK, StoredAsValidated, ApiTypeOK, Places, Write, Step, At, RoomOK, QueueBound, RoomInQueue,
        Queued, LockOK, Inside, Reading, WriteOK, Active, Writing
  <2>4. OldOK' /\ RowCopyOK' /\ OwnerOK'
        BY <1>1 DEF ApiInv, CopyOK, OldOK, ApiTypeOK, InHand, Existing, Places, JobWrites, Write, Step, At, RowCopyOK,
        OwnerOK, RowCopies
  <2>5. HandOK' /\ ResumeOK'
        BY <1>1 DEF ApiInv, CopyOK, HandOK, ApiTypeOK, RowCopies, Existing, Places, Actions, JobWrites, Write, Step, At,
        ResumeOK
  <2> QED
    BY <2>1, <2>2, <2>3, <2>4, <2>5 DEF ApiInv, CopyOK

LEMMA EditByHandKeeps == ASSUME ApiInv, EditByHand PROVE ApiInv'
<1>1. ApiInv /\ EditByHand
  OBVIOUS
<1> QED
  <2>0. /\ req' \in [Threads -> Requests] /\ edits' \in Nat /\ jobFile' \in Texts /\ configFile' \in Texts /\ refFile' \in Texts
        /\ UNCHANGED <<queue, copies>>
    <3>1. \A r \in Requests : [r EXCEPT !.late = TRUE] \in Requests
      BY DEF Requests
    <3>2. req' \in [Threads -> Requests]
      BY <1>1, <3>1 DEF EditByHand, ApiInv, ApiTypeOK
    <3> QED
      BY <1>1, <3>2 DEF EditByHand, ApiInv, ApiTypeOK, Texts
  <2>1. ApiTypeOK'
        BY <1>1, <2>0 DEF ApiInv, ApiTypeOK, Existing
  <2>2. LockOK' /\ AuditOK' /\ Places'
        BY <1>1 DEF ApiInv, LockOK, ApiTypeOK, Inside, Reading, Writing, EditByHand, At, AuditOK, Places, Actions, JobWrites
  <2>3. ValidOK' /\ RoomOK' /\ WriteOK'
        BY <1>1 DEF ApiInv, ValidOK, StoredAsValidated, ApiTypeOK, Places, EditByHand, At, RoomOK, QueueBound, RoomInQueue,
        Queued, LockOK, Inside, Reading, WriteOK, Active, Writing
  <2>4. OldOK'
        BY <1>1 DEF ApiInv, CopyOK, OldOK, ApiTypeOK, InHand, Existing, Places, JobWrites, EditByHand, At
  <2>5. RowCopyOK'
        BY <1>1 DEF ApiInv, CopyOK, RowCopyOK, ApiTypeOK, Existing, EditByHand, At
  <2>6. OwnerOK'
        BY <1>1 DEF ApiInv, CopyOK, OwnerOK, ApiTypeOK, InHand, RowCopies, Existing, Places, JobWrites, EditByHand, At
  <2>7. HandOK' /\ ResumeOK'
        BY <1>1 DEF ApiInv, CopyOK, HandOK, ApiTypeOK, RowCopies, Existing, Places, Actions, JobWrites, EditByHand, At,
        ResumeOK
  <2> QED
    BY <2>1, <2>2, <2>3, <2>4, <2>5, <2>6, <2>7 DEF ApiInv, CopyOK

\* The worker claims the first queued row.
LEMMA ClaimKeeps == ASSUME ApiInv, Claim PROVE ApiInv'
<1>1. ApiInv /\ Claim
  OBVIOUS
<1> QED
  <2>1a. PICK i \in DOMAIN queue, s \in {"running", "refused"} : queue[i].state = "queued" /\ Turned(i, s)
    <3>1. Queued \in SUBSET Nat /\ Queued # {}
      BY <1>1 DEF Claim, ApiInv, ApiTypeOK, Queued
    <3>2. Min(Queued) \in Queued
      BY <3>1, LeastOfNat DEF Min
    <3> QED
      BY <1>1, <3>2, StateTurns DEF Claim, ApiInv, ApiTypeOK, Queued
  <2>1b. UNCHANGED <<jobFile, configFile, refFile, saved, lock, req, copies, old, asked, edits, crashes, orphans>>
    BY <1>1 DEF Claim
  <2>1. ApiTypeOK'
        BY <1>1, <2>1a, <2>1b DEF ApiInv, ApiTypeOK, Existing, Texts, Turned
  <2>2. LockOK' /\ AuditOK' /\ Places'
        BY <1>1, <2>1a, <2>1b DEF ApiInv, LockOK, ApiTypeOK, Inside, Reading, Writing, Turned, AuditOK, Places, Actions,
        JobWrites
  <2>3. ValidOK'
        BY <1>1, <2>1a, <2>1b DEF ApiInv, ValidOK, ApiTypeOK, StoredAsValidated, Places, Turned
  <2>4. RoomOK'
    <3>1. Queued' \in SUBSET Queued
      BY <2>1a DEF Queued, Turned
    <3>2. IsFiniteSet(Queued) /\ IsFiniteSet(Queued') /\ Cardinality(Queued') <= Cardinality(Queued)
          /\ Cardinality(Queued) \in Nat /\ Cardinality(Queued') \in Nat
      BY <1>1, <3>1, FS_Subset, FS_CardinalityType DEF ApiInv, RoomOK
    <3> QED
      BY <1>1, <2>1b, <3>2, ApiAssumption DEF ApiInv, RoomOK, QueueBound, RoomInQueue
  <2>5. WriteOK'
        BY <1>1, <2>1a, <2>1b DEF ApiInv, WriteOK, ApiTypeOK, Active, LockOK, Inside, Writing, Reading, Places, Turned
  <2>6. OldOK' /\ RowCopyOK' /\ OwnerOK'
        BY <1>1, <2>1a, <2>1b DEF ApiInv, OldOK, ApiTypeOK, CopyOK, InHand, Places, Existing, JobWrites, Turned, RowCopyOK,
        OwnerOK, RowCopies
  <2>7. HandOK'
        BY <1>1, <2>1a, <2>1b DEF ApiInv, HandOK, ApiTypeOK, CopyOK, RowCopies, Existing, Places, JobWrites, Turned
  <2>8. ResumeOK'
        BY <1>1, <2>1a, <2>1b DEF ApiInv, ResumeOK, ApiTypeOK, CopyOK, RowCopies, Existing, Turned
  <2> QED
    BY <2>1, <2>2, <2>3, <2>4, <2>5, <2>6, <2>7, <2>8 DEF ApiInv, CopyOK

LEMMA FinishKeeps == ASSUME ApiInv, Finish PROVE ApiInv'
<1>1. ApiInv /\ Finish
  OBVIOUS
<1> QED
  <2>1a. PICK i \in DOMAIN queue : queue[i].state = "running" /\ Turned(i, "finished")
    BY <1>1, StateTurns DEF Finish, ApiInv, ApiTypeOK
  <2>1b. UNCHANGED <<jobFile, configFile, refFile, saved, lock, req, copies, old, asked, edits, crashes, orphans>>
    BY <1>1 DEF Finish
  <2>1. ApiTypeOK'
        BY <1>1, <2>1a, <2>1b DEF ApiInv, ApiTypeOK, Existing, Texts, Turned
  <2>2. LockOK' /\ AuditOK' /\ Places'
        BY <1>1, <2>1a, <2>1b DEF ApiInv, LockOK, ApiTypeOK, Inside, Reading, Writing, Turned, AuditOK, Places, Actions,
        JobWrites
  <2>3. ValidOK'
        BY <1>1, <2>1a, <2>1b DEF ApiInv, ValidOK, ApiTypeOK, StoredAsValidated, Places, Turned
  <2>4. RoomOK'
    <3>1. Queued' = Queued
      BY <2>1a DEF Queued, Turned
    <3> QED
      BY <2>1b, <3>1 DEF ApiInv, RoomOK, QueueBound, RoomInQueue
  <2>5. WriteOK'
        BY <1>1, <2>1a, <2>1b DEF ApiInv, WriteOK, ApiTypeOK, Active, LockOK, Inside, Writing, Reading, Places, Turned
  <2>6. OldOK' /\ RowCopyOK' /\ OwnerOK'
        BY <1>1, <2>1a, <2>1b DEF ApiInv, OldOK, ApiTypeOK, CopyOK, InHand, Places, Existing, JobWrites, Turned, RowCopyOK,
        OwnerOK, RowCopies
  <2>7. HandOK'
        BY <1>1, <2>1a, <2>1b DEF ApiInv, HandOK, ApiTypeOK, CopyOK, RowCopies, Existing, Places, JobWrites, Turned
  <2>8. ResumeOK'
        BY <1>1, <2>1a, <2>1b DEF ApiInv, ResumeOK, ApiTypeOK, CopyOK, RowCopies, Existing, Turned
  <2> QED
    BY <2>1, <2>2, <2>3, <2>4, <2>5, <2>6, <2>7, <2>8 DEF ApiInv, CopyOK

LEMMA AnHourKeeps == ASSUME ApiInv, AnHour PROVE ApiInv'
<1>1. ApiInv /\ AnHour
  OBVIOUS
<1> QED
  <2>1. ApiTypeOK'
        BY <1>1, PlacesThere DEF ApiInv, ApiTypeOK, Requests, Rows, Texts, Existing, AnHour, At
  <2>2. LockOK' /\ AuditOK' /\ Places'
        BY <1>1 DEF ApiInv, LockOK, ApiTypeOK, Inside, Reading, Writing, AnHour, At, AuditOK, Places, Actions, JobWrites
  <2>3. ValidOK' /\ RoomOK' /\ WriteOK'
        BY <1>1 DEF ApiInv, ValidOK, StoredAsValidated, ApiTypeOK, Places, AnHour, At, RoomOK, QueueBound, RoomInQueue,
        Queued, LockOK, Inside, Reading, WriteOK, Active, Writing
  <2>4. OldOK' /\ RowCopyOK' /\ OwnerOK'
        BY <1>1 DEF ApiInv, CopyOK, OldOK, ApiTypeOK, InHand, Existing, Places, JobWrites, AnHour, At, RowCopyOK, OwnerOK,
        RowCopies
  <2>5. HandOK' /\ ResumeOK'
        BY <1>1 DEF ApiInv, CopyOK, HandOK, ApiTypeOK, RowCopies, Existing, Places, Actions, JobWrites, AnHour, At, ResumeOK
  <2> QED
    BY <2>1, <2>2, <2>3, <2>4, <2>5 DEF ApiInv, CopyOK

\* What retention makes of a row, and of the request that had found it.
LEMMA PrunedRow ==
  ASSUME NEW r \in Rows, NEW s, s = [r EXCEPT !.state = "pruned", !.copy = 0]
  PROVE  /\ s \in Rows /\ s.kind = r.kind /\ s.text = r.text /\ s.config = r.config /\ s.ref = r.ref /\ s.raced = r.raced
         /\ s.state = "pruned" /\ s.copy = 0
BY DEF Rows

LEMMA RacedRequest ==
  ASSUME NEW r \in Requests, NEW s, s = [r EXCEPT !.raced = TRUE]
  PROVE  /\ s \in Requests /\ s.op = r.op /\ s.at = r.at /\ s.text = r.text /\ s.config = r.config
         /\ s.ref = r.ref /\ s.copy = r.copy /\ s.expect = r.expect /\ s.auth = r.auth
         /\ s.rows = r.rows /\ s.late = r.late /\ s.raced = TRUE
BY DEF Requests
LEMMA PruneKeeps == ASSUME ApiInv, Prune PROVE ApiInv'
<1>1. PICK dropped \in SUBSET {i \in DOMAIN queue : queue[i].state = "finished"} :
        LET rows == [i \in DOMAIN queue |-> IF i \in dropped THEN [queue[i] EXCEPT !.state = "pruned", !.copy = 0] ELSE queue[i]]
            gone == {c \in Existing : Removable(c, rows)}
        IN  /\ queue' = rows
            /\ copies' = Without(gone) /\ old' = old \ gone
            /\ orphans' = orphans \cup gone \cup {queue[i].copy : i \in dropped}
            /\ req' = [t \in Threads |-> IF req[t].op = "resume" /\ At(t, "insert") THEN [req[t] EXCEPT !.raced = TRUE] ELSE req[t]]
  BY DEF Prune
<1> DEFINE gone == {c \in Existing : Removable(c, queue')}
<1>2. /\ queue' \in Seq(Rows) /\ DOMAIN queue' = DOMAIN queue
      /\ \A i \in dropped : queue[i].state = "finished" /\ i \in DOMAIN queue
      /\ \A i \in DOMAIN queue :
           /\ queue'[i].kind = queue[i].kind /\ queue'[i].text = queue[i].text /\ queue'[i].config = queue[i].config
           /\ queue'[i].ref = queue[i].ref /\ queue'[i].raced = queue[i].raced
           /\ queue'[i].state = (IF i \in dropped THEN "pruned" ELSE queue[i].state)
           /\ queue'[i].copy = (IF i \in dropped THEN 0 ELSE queue[i].copy)
  <2>1. queue' = [i \in DOMAIN queue |-> IF i \in dropped THEN [queue[i] EXCEPT !.state = "pruned", !.copy = 0] ELSE queue[i]]
    BY <1>1
  <2>2. \A i \in DOMAIN queue : queue[i] \in Rows /\ [queue[i] EXCEPT !.state = "pruned", !.copy = 0] \in Rows
    <3>1. \A i \in DOMAIN queue : queue[i] \in Rows
      BY DEF ApiInv, ApiTypeOK
    <3> QED
      BY <3>1, PrunedRow
  <2>3. queue' \in Seq(Rows) /\ DOMAIN queue' = DOMAIN queue
    <3>1. DOMAIN queue = 1..Len(queue) /\ Len(queue) \in Nat
      BY DEF ApiInv, ApiTypeOK
    <3>2. queue' \in [1..Len(queue) -> Rows]
      BY <2>1, <2>2, <3>1
    <3> QED
      BY <3>1, <3>2, SeqDef
  <2>5. \A i \in dropped : queue'[i] = [queue[i] EXCEPT !.state = "pruned", !.copy = 0]
    BY <2>1
  <2>6. \A i \in DOMAIN queue \ dropped : queue'[i] = queue[i]
    BY <2>1
  <2>7. \A i \in dropped : queue[i].state = "finished" /\ i \in DOMAIN queue
    OBVIOUS
  <2>8. \A i \in DOMAIN queue :
           /\ queue'[i].kind = queue[i].kind /\ queue'[i].text = queue[i].text /\ queue'[i].config = queue[i].config
           /\ queue'[i].ref = queue[i].ref /\ queue'[i].raced = queue[i].raced
           /\ queue'[i].state = (IF i \in dropped THEN "pruned" ELSE queue[i].state)
           /\ queue'[i].copy = (IF i \in dropped THEN 0 ELSE queue[i].copy)
    <3> TAKE i \in DOMAIN queue
    <3>1. CASE i \in dropped
      <4>1. queue[i] \in Rows /\ queue'[i] = [queue[i] EXCEPT !.state = "pruned", !.copy = 0]
        BY <2>2, <2>5, <3>1
      <4>2. /\ queue'[i].kind = queue[i].kind /\ queue'[i].text = queue[i].text /\ queue'[i].config = queue[i].config
            /\ queue'[i].ref = queue[i].ref /\ queue'[i].raced = queue[i].raced
            /\ queue'[i].state = "pruned" /\ queue'[i].copy = 0
        BY <4>1, PrunedRow
      <4> QED
        BY <3>1, <4>2
    <3>2. CASE i \notin dropped
      BY <2>6, <3>2
    <3> QED
      BY <3>1, <3>2
  <2> QED
    BY <2>3, <2>7, <2>8
<1>3. /\ req' \in [Threads -> Requests]
      /\ \A t \in Threads :
           /\ req'[t].op = req[t].op /\ req'[t].at = req[t].at /\ req'[t].text = req[t].text /\ req'[t].config = req[t].config
           /\ req'[t].ref = req[t].ref /\ req'[t].copy = req[t].copy /\ req'[t].expect = req[t].expect
           /\ req'[t].auth = req[t].auth /\ req'[t].rows = req[t].rows /\ req'[t].late = req[t].late
           /\ req'[t].raced = (IF req[t].op = "resume" /\ req[t].at = "insert" THEN TRUE ELSE req[t].raced)
  <2>1. req \in [Threads -> Requests]
    BY DEF ApiInv, ApiTypeOK
  <2>2. \A r \in Requests : [r EXCEPT !.raced = TRUE] \in Requests
    BY RacedRequest
  <2>3. req' = [t \in Threads |-> IF req[t].op = "resume" /\ req[t].at = "insert" THEN [req[t] EXCEPT !.raced = TRUE] ELSE req[t]]
    BY <1>1 DEF At
  <2>4. \A t \in Threads : req'[t] = IF req[t].op = "resume" /\ req[t].at = "insert" THEN [req[t] EXCEPT !.raced = TRUE] ELSE req[t]
    BY <2>3
  <2>5. \A t \in Threads : req[t] \in Requests
    BY <2>1
  <2>6. req' \in [Threads -> Requests]
    BY <2>2, <2>3, <2>5
  <2> SUFFICES ASSUME NEW t \in Threads
               PROVE  /\ req'[t].op = req[t].op /\ req'[t].at = req[t].at /\ req'[t].text = req[t].text
                      /\ req'[t].config = req[t].config
                      /\ req'[t].ref = req[t].ref /\ req'[t].copy = req[t].copy /\ req'[t].expect = req[t].expect
                      /\ req'[t].auth = req[t].auth /\ req'[t].rows = req[t].rows /\ req'[t].late = req[t].late
                      /\ req'[t].raced = (IF req[t].op = "resume" /\ req[t].at = "insert" THEN TRUE ELSE req[t].raced)
    BY <2>6
  <2>7. CASE req[t].op = "resume" /\ req[t].at = "insert"
    <3>1. req[t] \in Requests /\ req'[t] = [req[t] EXCEPT !.raced = TRUE]
      BY <2>4, <2>5, <2>7
    <3>2. /\ req'[t].op = req[t].op /\ req'[t].at = req[t].at /\ req'[t].text = req[t].text
          /\ req'[t].config = req[t].config /\ req'[t].ref = req[t].ref /\ req'[t].copy = req[t].copy
          /\ req'[t].expect = req[t].expect /\ req'[t].auth = req[t].auth /\ req'[t].rows = req[t].rows
          /\ req'[t].late = req[t].late /\ req'[t].raced = TRUE
      BY <3>1, RacedRequest
    <3> QED
      BY <2>7, <3>2
  <2>8. CASE ~(req[t].op = "resume" /\ req[t].at = "insert")
    BY <2>4, <2>8
  <2> QED
    BY <2>7, <2>8
<1>4. /\ gone = {c \in Existing : c \in old /\ c \notin RowCopies'}
      /\ Existing' = Existing \ gone /\ \A c \in Existing' : copies'[c] = copies[c]
      /\ old' = old \ gone /\ orphans' = orphans \cup gone \cup {queue[i].copy : i \in dropped}
      /\ UNCHANGED <<jobFile, configFile, refFile, saved, lock, edits>>
  <2>1. gone = {c \in Existing : c \in old /\ c \notin RowCopies'}
    BY DEF Removable, RowCopies
  <2> QED
    BY <1>1, <2>1 DEF Prune, Existing, Without
<1>5. InHand' = InHand
  <2>1. \A t \in Threads : req'[t].op = req[t].op /\ req'[t].at = req[t].at /\ req'[t].copy = req[t].copy
    BY <1>3
  <2> QED
    BY <2>1 DEF InHand
<1>6. RowCopies' \subseteq RowCopies \cup {0} /\ RowCopies \subseteq RowCopies' \cup {queue[i].copy : i \in dropped}
  BY <1>2 DEF RowCopies
<1>7. ApiTypeOK'
  BY <1>2, <1>3, <1>4 DEF ApiInv, ApiTypeOK
<1>8. LockOK' /\ AuditOK' /\ Places'
  <2>1. \A t \in Threads : /\ req'[t].op = req[t].op /\ req'[t].at = req[t].at
                         /\ req'[t].auth = req[t].auth /\ req'[t].rows = req[t].rows
    BY <1>3
  <2>2. lock' = lock
    BY <1>4
  <2> QED
    BY <2>1, <2>2 DEF ApiInv, LockOK, AuditOK, Places
<1>9. ValidOK'
  BY <1>2, <1>3 DEF ApiInv, ValidOK, StoredAsValidated
<1>10. RoomOK'
  <2>1. Queued' = Queued
    BY <1>2 DEF Queued
  <2> QED
    BY <1>3, <2>1 DEF ApiInv, RoomOK, QueueBound, RoomInQueue
<1>11. WriteOK'
  <2>1. Active' = Active
    BY <1>2 DEF Active
  <2> QED
    BY <1>3, <1>4, <2>1 DEF ApiInv, WriteOK
<1>12. OldOK' /\ OwnerOK'
  BY <1>4, <1>5, <1>6 DEF ApiInv, CopyOK, OldOK, OwnerOK
<1>13. RowCopyOK'
  <2> SUFFICES ASSUME NEW i \in DOMAIN queue
               PROVE  /\ queue'[i].state = "pruned" => queue'[i].copy = 0
                      /\ queue'[i].copy # 0 /\ ~queue'[i].raced => queue'[i].copy \in Existing'
                      /\ queue'[i].copy \in Existing' => copies'[queue'[i].copy] = queue'[i].ref
                      /\ queue'[i].copy \in Existing' \cup orphans' \cup {0}
    BY <1>2 DEF RowCopyOK
  <2>1. queue'[i].copy \in RowCopies'
    BY <1>2 DEF RowCopies
  <2>2. 0 \notin Existing
    BY ApiAssumption DEF ApiInv, ApiTypeOK
  <2> QED
    BY <1>2, <1>4, <2>1, <2>2 DEF ApiInv, CopyOK, RowCopyOK
<1>14. HandOK'
  <2>1. \A t \in Threads : req[t].op = "submit" /\ req[t].at \in {"copy", "verify", "insert"} => req[t].copy \in InHand
    BY DEF InHand
  <2>2. {queue[i].copy : i \in dropped} \subseteq RowCopies /\ gone \subseteq old
    BY <1>2, <1>4 DEF RowCopies
  <2>3. \A t \in Threads : req[t].at \in {"copy", "verify"} => req[t].op = "submit"
    BY DEF ApiInv, Places
  <2> QED
    <3>1. \A t \in Threads : req[t].op = "submit" /\ req[t].at \in {"copy", "verify", "insert"} /\ req[t].copy # 0 =>
              /\ req[t].copy \notin gone /\ req[t].copy \in Existing' \ (RowCopies' \cup orphans')
              /\ copies'[req[t].copy] = copies[req[t].copy]
      BY <1>4, <1>6, <2>1, <2>2 DEF ApiInv, CopyOK, HandOK, OldOK
    <3> HIDE DEF gone
    <3> QED
      <4>1. \A t \in Threads :
              /\ req'[t].op = req[t].op /\ req'[t].at = req[t].at /\ req'[t].copy = req[t].copy /\ req'[t].ref = req[t].ref
              /\ req[t].op # "resume" => req'[t].raced = req[t].raced
        BY <1>3
      <4> QED
        BY <2>3, <3>1, <4>1 DEF ApiInv, CopyOK, HandOK
<1>15. ResumeOK'
  <2>1. \A t \in Threads : req[t].op = "resume" /\ req[t].at = "insert" => req'[t].raced
    BY <1>3
  <2>2. Existing \cup orphans \subseteq Existing' \cup orphans' /\ \A c \in Existing' : c \in Existing /\ copies'[c] = copies[c]
    BY <1>4
  <2>3. \A t \in Threads :
          req'[t].op = req[t].op /\ req'[t].at = req[t].at /\ req'[t].copy = req[t].copy /\ req'[t].ref = req[t].ref
    BY <1>3
  <2> QED
    BY <2>1, <2>2, <2>3 DEF ApiInv, CopyOK, ResumeOK
<1> QED
  BY <1>7, <1>8, <1>9, <1>10, <1>11, <1>12, <1>13, <1>14, <1>15 DEF ApiInv, CopyOK

LEMMA CrashKeeps == ASSUME ApiInv, Crash PROVE ApiInv'
<1>1. ApiInv /\ Crash
  OBVIOUS
<1> QED
  <2>1. ApiTypeOK'
        BY <1>1, PlacesThere DEF ApiInv, ApiTypeOK, Requests, Rows, Texts, Existing, Crash, Idle, At
  <2>2. LockOK' /\ AuditOK' /\ Places'
        BY <1>1 DEF ApiInv, LockOK, ApiTypeOK, Inside, Reading, Writing, Crash, Idle, At, AuditOK, Places, Actions, JobWrites
  <2>3. ValidOK' /\ RoomOK' /\ WriteOK'
        BY <1>1 DEF ApiInv, ValidOK, StoredAsValidated, ApiTypeOK, Places, Crash, Idle, At, RoomOK, QueueBound, RoomInQueue,
        Queued, LockOK, Inside, Reading, WriteOK, Active, Writing
  <2>4. OldOK' /\ RowCopyOK' /\ OwnerOK'
        BY <1>1 DEF ApiInv, CopyOK, OldOK, ApiTypeOK, InHand, Existing, Places, JobWrites, Crash, Idle, At, RowCopyOK,
        OwnerOK, RowCopies
  <2>5. HandOK' /\ ResumeOK'
        BY <1>1 DEF ApiInv, CopyOK, HandOK, ApiTypeOK, RowCopies, Existing, Places, Actions, JobWrites, Crash, Idle, At,
        ResumeOK
  <2> QED
    BY <2>1, <2>2, <2>3, <2>4, <2>5 DEF ApiInv, CopyOK

\* The invariant holds at first, and after every step.
LEMMA ApiInvInit == ApiInit => ApiInv
<1> SUFFICES ASSUME ApiInit
             PROVE  ApiInv
  OBVIOUS
<1>1. /\ \A t \in Threads : req[t] = Idle
      /\ Queued = {} /\ DOMAIN queue = {} /\ Existing = {} /\ InHand = {}
  BY DEF ApiInit, Queued, Existing, InHand, Idle
<1>2. Idle \in Requests
  BY PlacesThere DEF Idle, Requests, Texts
<1>3. ApiTypeOK
  BY <1>1, <1>2, ApiAssumption DEF ApiInit, ApiTypeOK, Texts
<1>4. LockOK /\ AuditOK /\ Places /\ WriteOK
  BY <1>1 DEF LockOK, AuditOK, Places, WriteOK, Idle, Inside, Reading, Writing
<1>5. ValidOK
  BY <1>1 DEF ValidOK, StoredAsValidated, Idle
<1>6. RoomOK
  BY <1>1, FS_EmptySet, ApiAssumption DEF RoomOK, QueueBound, Idle
<1>7. CopyOK
  BY <1>1 DEF ApiInit, CopyOK, OldOK, RowCopyOK, OwnerOK, HandOK, ResumeOK, Idle
<1> QED
  BY <1>3, <1>4, <1>5, <1>6, <1>7 DEF ApiInv

LEMMA ApiInvStutters == ApiInv /\ UNCHANGED apiVars => ApiInv'
BY DEF ApiInv, ApiTypeOK, LockOK, AuditOK, Places, ValidOK, StoredAsValidated, RoomOK, QueueBound, RoomInQueue, Queued, WriteOK,
       Active, CopyOK, OldOK, RowCopyOK, OwnerOK, HandOK, ResumeOK, InHand, RowCopies, Existing, apiVars

LEMMA ApiInvNext == ApiInv /\ [ApiNext]_apiVars => ApiInv'
<1> SUFFICES ASSUME ApiInv, [ApiNext]_apiVars
             PROVE  ApiInv'
  OBVIOUS
<1>1. ASSUME NEW t \in Threads, RequestStep(t)
      PROVE  ApiInv'
  BY <1>1, ArriveKeeps, LockKeeps, AnswerKeeps, LeaveKeeps, ReadTextKeeps, Parse1Keeps, SnapshotConfigKeeps, Parse2Keeps,
     MakeDirectoryKeeps, CopyReferenceKeeps, VerifyCopyKeeps, InsertKeeps, FindEntryKeeps, ValidateTextKeeps, LinkNewKeeps,
     CheckActiveKeeps, CheckCurrentKeeps, BackupKeeps, WriteKeeps DEF RequestStep
<1>2. CASE EditByHand \/ Claim \/ Finish \/ AnHour \/ Prune \/ Crash
  BY <1>2, EditByHandKeeps, ClaimKeeps, FinishKeeps, AnHourKeeps, PruneKeeps, CrashKeeps
<1> QED
  BY <1>1, <1>2, ApiInvStutters DEF ApiNext

\* The invariant of the server's writes, for any threads, texts and bounds.
THEOREM ApiInvThm == ApiSpec => []ApiInv
<1> QED
  BY ApiInvInit, ApiInvNext, PTL DEF ApiSpec

\* For any threads, texts and bound of the queue, whatever is edited, pruned or crashes meanwhile: the queue within its limit,
\* its jobs as they were validated with their copies, one audit row for each answer.
THEOREM SubmissionsKeptThm == ApiSpec => []SubmissionsKept
<1>1. ApiInv => SubmissionsKept
  <2> SUFFICES ASSUME ApiInv
               PROVE  SubmissionsKept
    OBVIOUS
  <2>1. StoredAsValidated /\ QueueBound /\ EveryWriteAudited
    BY DEF ApiInv, ValidOK, RoomOK, AuditOK, EveryWriteAudited, At
  <2>2. CopiesStand
    BY DEF ApiInv, CopyOK, RowCopyOK, OwnerOK, CopiesStand, RowCopies
  <2> QED
    BY <2>1, <2>2 DEF SubmissionsKept
<1> QED
  BY <1>1, ApiInvThm, PTL

\* For any threads and texts: the API changes a job file only while no entry of it is active, and only the text its client had
\* read, which is kept first; a hand edit between the last check and the write aside.
THEOREM FileWritesSafeThm == ApiSpec => FileWritesSafe
<1> DEFINE Safe ==
      jobFile' # jobFile /\ edits' = edits =>
        /\ jobFile # 0 => Active = {}
        /\ jobFile # 0 => \E t \in Threads : At(t, "write") /\ ~At(t, "write")'
              /\ (~req[t].late => jobFile = req[t].expect /\ jobFile \in saved)
<1>1. ApiInv /\ [ApiNext]_apiVars => [Safe]_apiVars
  <2> SUFFICES ASSUME ApiInv, ApiNext, jobFile' # jobFile, edits' = edits, jobFile # 0
               PROVE  /\ Active = {}
                      /\ \E t \in Threads : At(t, "write") /\ ~At(t, "write")'
                            /\ (~req[t].late => jobFile = req[t].expect /\ jobFile \in saved)
    OBVIOUS
  <2>1. PICK t \in Threads : Write(t)
    <3>1. ~EditByHand
      BY DEF EditByHand, ApiInv, ApiTypeOK
    <3> QED
      BY <3>1 DEF ApiNext, RequestStep, Arrive, Lock, Answer, Leave, ReadText, Parse1, SnapshotConfig, Parse2, MakeDirectory,
                  CopyReference, VerifyCopy, Insert, FindEntry, ValidateText, LinkNew, CheckActive, CheckCurrent, Backup,
                  Claim, Finish, AnHour, Prune, Crash
  <2>2. req[t].at = "write" /\ Moved(t, "ok")
    BY <2>1, StepMoves, PlacesThere DEF Write, At, ApiInv, ApiTypeOK
  <2> QED
    BY <2>2 DEF ApiInv, WriteOK, At, Moved, Took
<1> QED
  BY <1>1, ApiInvThm, PTL DEF ApiSpec, FileWritesSafe

------------------------------------------------------------------------------
(* The catalog: what an entry, a read and the list know of the files on disk.   *)
(* The least file left to read and the numbers a transaction gives are taken   *)
(* from the theorems on finite sets and on the order of the naturals.          *)

CatPlaces == {"none", "list", "row", "text", "config", "keep", "assign", "follow", "show"}
Parsing == {"text", "config", "keep"}
CatRows == [good : BOOLEAN, raced : BOOLEAN]
RowMaps == UNION {[S -> CatRows] : S \in SUBSET Files}
NumberMaps == UNION {[S -> Nat] : S \in SUBSET Files}
ListRows == [good : BOOLEAN, raced : BOOLEAN, number : Nat, marked : BOOLEAN]
Lists == UNION {[S -> ListRows] : S \in SUBSET Files}
Entries == [own : Nat, dep : Nat, good : BOOLEAN, raced : BOOLEAN]
Reads ==
  [at : CatPlaces, fresh : BOOLEAN, todo : SUBSET Files, rows : RowMaps, file : Files \cup {0}, own : Nat, seen : Nat,
   good : BOOLEAN, known : NumberMaps, ids : NumberMaps, watched : BOOLEAN, depends : BOOLEAN]

CatTypeOK ==
  /\ disk \in [Files \cup {Config} -> [stamp : Nat, good : BOOLEAN]]
  /\ cache \in [Files -> Entries] /\ numbers \in [Files -> Nat] /\ counter \in Nat
  /\ reads \in Seq(Reads) /\ list \in Lists
  /\ timer \in BOOLEAN /\ pause \in BOOLEAN /\ missed \in BOOLEAN
  /\ fileEdits \in Nat

\* A stamp is never given twice, and a file that is not there is not good.
StampOK ==
  /\ \A x \in Files \cup {Config} : disk[x].stamp <= fileEdits + 1 /\ (disk[x].good => disk[x].stamp # 0)
  /\ \A f \in Files : cache[f].own <= fileEdits + 1 /\ cache[f].dep <= fileEdits + 1
  /\ \A r \in DOMAIN reads : reads[r].own <= fileEdits + 1 /\ reads[r].seen <= fileEdits + 1

\* A valid entry of the cache tells the truth of the files with its signatures.
CacheOK ==
  \A f \in Files : cache[f].good =>
    /\ cache[f].own # 0 /\ (cache[f].own = disk[f].stamp => disk[f].good)
    /\ ~cache[f].raced => cache[f].dep # 0 /\ (cache[f].dep = disk[Config].stamp => disk[Config].good)

\* And so does a read of what it has parsed.
Parsed(n) ==
  /\ n.at \in Parsing => n.file \in Files /\ n.own # 0
  /\ n.at = "config" \/ (n.at = "keep" /\ n.good) => (n.own = disk[n.file].stamp => disk[n.file].good)
  /\ n.at = "keep" /\ n.good => n.seen # 0 /\ (n.seen = disk[Config].stamp => disk[Config].good)
ParseOK == \A r \in DOMAIN reads : Parsed(reads[r])

\* An ID is given once.
Numbered(n) ==
  n.at \in {"follow", "show"} => DOMAIN n.ids = DOMAIN n.rows /\ \A f \in DOMAIN n.rows : n.ids[f] = numbers[f] /\ numbers[f] # 0
NumberOK ==
  /\ \A f \in Files : numbers[f] <= counter
  /\ \A f, g \in Files : numbers[f] = numbers[g] /\ numbers[f] # 0 => f = g
  /\ \A r \in DOMAIN reads : Numbered(reads[r])
  /\ \A f \in DOMAIN list : list[f].number = numbers[f] /\ numbers[f] # 0

\* What the newest read knows while nothing has been changed since it began.
Clean == ~pause /\ ~missed
Knows(n) ==
  /\ n.at = "list" => DOMAIN n.rows = {}
  /\ n.at # "list" => DOMAIN n.rows \cup n.todo \cup (IF n.at \in Parsing THEN {n.file} ELSE {}) = Listed
  /\ \A f \in DOMAIN n.rows : n.rows[f].good /\ ~n.rows[f].raced => JobGood(f)
  /\ n.at \in {"row", "text", "config", "keep"} => \A f \in DOMAIN n.rows : n.rows[f].good => cache[f].good
  /\ n.at \in Parsing => n.own = disk[n.file].stamp
  /\ n.at = "keep" /\ n.good => n.seen = disk[Config].stamp
  /\ n.at \in {"assign", "follow", "show"} =>
       n.todo = {} /\ ((\E f \in DOMAIN n.rows : n.rows[f].good) => n.depends)
  /\ n.at = "show" /\ n.watched => followed = Files \cup IF n.depends THEN {Config} ELSE {}
NewestOK == newest # 0 /\ Clean /\ reads[newest].at # "none" => Knows(reads[newest])

\* And what the list knows once the newest read has shown.
Shows ==
  /\ DOMAIN list = Listed
  /\ \A f \in DOMAIN list : list[f].marked \/ (list[f].good /\ (list[f].raced \/ JobGood(f)))
  /\ Files \subseteq followed /\ (Listed # {} => Config \in followed)
RestOK ==
  /\ newest = 0 => timer
  /\ newest # 0 /\ Clean /\ reads[newest].at = "none" /\ ~timer => Shows

CatInv == CatTypeOK /\ StampOK /\ CacheOK /\ ParseOK /\ NumberOK /\ NewestOK /\ RestOK

\* The functions of the job files are functions of some of them.
LEMMA MapShape ==
  /\ \A m \in RowMaps : DOMAIN m \subseteq Files /\ m \in [DOMAIN m -> CatRows]
  /\ \A m \in NumberMaps : DOMAIN m \subseteq Files /\ m \in [DOMAIN m -> Nat]
  /\ \A m \in Lists : DOMAIN m \subseteq Files /\ m \in [DOMAIN m -> ListRows]
  /\ \A S \in SUBSET Files : [S -> CatRows] \subseteq RowMaps /\ [S -> Nat] \subseteq NumberMaps /\ [S -> ListRows] \subseteq Lists
BY DEF RowMaps, NumberMaps, Lists

\* The places of a read.
LEMMA CatPlacesThere == CatPlaces = {"none", "list", "row", "text", "config", "keep", "assign", "follow", "show"}
BY DEF CatPlaces

\* One read changes.
Turns(r, v) ==
  /\ reads' \in Seq(Reads) /\ DOMAIN reads' = DOMAIN reads /\ newest' = newest
  /\ reads'[r] = v /\ \A q \in DOMAIN reads : q # r => reads'[q] = reads[q]

\* Replacing one read leaves the others.
LEMMA ReadTurns ==
  ASSUME CatTypeOK, NEW r \in DOMAIN reads, NEW v \in Reads, reads' = [reads EXCEPT ![r] = v]
  PROVE  Turns(r, v)
BY DEF CatTypeOK, Turns, newest

\* A read and the newest one are there.
LEMMA ReadThere == ASSUME CatTypeOK, NEW r \in DOMAIN reads PROVE reads[r] \in Reads
BY DEF CatTypeOK

LEMMA NewestThere == ASSUME CatTypeOK PROVE newest \in Nat /\ DOMAIN reads = 1..newest
BY DEF CatTypeOK, newest

\* The read that is over.
LEMMA NoReadShape == NoRead \in Reads /\ DOMAIN NoRead.rows = {} /\ NoRead.at = "none" /\ NoRead.own = 0 /\ NoRead.seen = 0
<1>1. [f \in {} |-> NoRow] \in RowMaps /\ [f \in {} |-> 0] \in NumberMaps
  BY DEF RowMaps, NumberMaps
<1> QED
  BY <1>1 DEF NoRead, Reads, CatPlaces

\* The types of the fields an arithmetic step needs.
LEMMA Shapes ==
  ASSUME CatTypeOK
  PROVE  /\ \A x \in Files \cup {Config} : disk[x].stamp \in Nat /\ disk[x].good \in BOOLEAN
         /\ \A f \in Files : cache[f].own \in Nat /\ cache[f].dep \in Nat /\ cache[f].good \in BOOLEAN /\ cache[f].raced \in BOOLEAN /\ numbers[f] \in Nat
         /\ \A r \in DOMAIN reads : reads[r].own \in Nat /\ reads[r].seen \in Nat /\ reads[r].good \in BOOLEAN
         /\ fileEdits \in Nat /\ counter \in Nat
<1>1. \A x \in Files \cup {Config} : disk[x].stamp \in Nat /\ disk[x].good \in BOOLEAN
  BY DEF CatTypeOK
<1>2. \A f \in Files : cache[f].own \in Nat /\ cache[f].dep \in Nat /\ cache[f].good \in BOOLEAN /\ cache[f].raced \in BOOLEAN /\ numbers[f] \in Nat
  BY DEF CatTypeOK, Entries
<1>3. \A r \in DOMAIN reads : reads[r] \in Reads
  BY DEF CatTypeOK
<1>4. \A n \in Reads : n.own \in Nat /\ n.seen \in Nat /\ n.good \in BOOLEAN
  BY DEF Reads
<1> QED
  BY <1>1, <1>2, <1>3, <1>4 DEF CatTypeOK

\* An edit: the new stamp is in no entry, and the newest read's knowledge ends with it unless it is reported.
LEMMA EditKeeps == ASSUME CatInv, NEW x \in Files \cup {Config}, Edit(x) PROVE CatInv'
<1>1. PICK there \in BOOLEAN, good \in BOOLEAN :
        /\ good => there
        /\ disk' = [disk EXCEPT ![x] = [stamp |-> IF there THEN fileEdits + 2 ELSE 0, good |-> good]]
  BY DEF Edit
<1>2. UNCHANGED <<cache, numbers, present, counter, reads, list, timer, followed, submitting, newest>>
  BY DEF Edit, newest
<1>3. /\ fileEdits' = fileEdits + 1 /\ pause' = (pause \/ x \in followed)
      /\ missed' = (missed \/ (x \notin followed /\ \E r \in DOMAIN reads : ~ReadAt(r, "none")))
  BY DEF Edit
<1>4. /\ disk' \in [Files \cup {Config} -> [stamp : Nat, good : BOOLEAN]]
      /\ disk'[x].stamp \in {0, fileEdits + 2} /\ (disk'[x].good => disk'[x].stamp = fileEdits + 2)
      /\ \A y \in Files \cup {Config} : y # x => disk'[y] = disk[y]
  BY <1>1 DEF CatInv, CatTypeOK
<1>5. CatTypeOK'
  BY <1>2, <1>3, <1>4 DEF CatInv, CatTypeOK
<1> USE DEF CatInv
<1>6a. /\ \A y \in Files \cup {Config} : (disk'[y].stamp = disk[y].stamp /\ disk'[y].good = disk[y].good) \/ disk'[y].stamp \in {0, fileEdits + 2}
       /\ \A y \in Files \cup {Config} : disk'[y].good => disk'[y].stamp # 0
  BY <1>4, Shapes DEF StampOK
<1>6b. \A n \in Nat, y \in Files \cup {Config} : n # 0 /\ n <= fileEdits + 1 /\ n = disk'[y].stamp =>
         disk'[y].stamp = disk[y].stamp /\ disk'[y].good = disk[y].good
  BY <1>6a, Shapes
<1>6. StampOK'
  <2>1. \A y \in Files \cup {Config} : disk'[y].stamp <= fileEdits' + 1
    BY <1>3, <1>6a, Shapes DEF StampOK
  <2>2. \A n \in Nat : n <= fileEdits + 1 => n <= fileEdits' + 1
    BY <1>3, Shapes
  <2> QED
    BY <1>2, <1>6a, <2>1, <2>2, Shapes DEF StampOK
<1>7. CacheOK'
  <2> SUFFICES ASSUME NEW f \in Files, cache[f].good
               PROVE  /\ cache[f].own # 0 /\ (cache[f].own = disk'[f].stamp => disk'[f].good)
                      /\ ~cache[f].raced => cache[f].dep # 0 /\ (cache[f].dep = disk'[Config].stamp => disk'[Config].good)
    BY <1>2 DEF CacheOK
  <2> QED
    BY <1>6b, Shapes DEF CacheOK, StampOK
<1>8. ParseOK'
  <2> SUFFICES ASSUME NEW r \in DOMAIN reads
               PROVE  /\ reads[r].at \in Parsing => reads[r].file \in Files /\ reads[r].own # 0
                      /\ reads[r].at = "config" \/ (reads[r].at = "keep" /\ reads[r].good) =>
                           (reads[r].own = disk'[reads[r].file].stamp => disk'[reads[r].file].good)
                      /\ reads[r].at = "keep" /\ reads[r].good =>
                           reads[r].seen # 0 /\ (reads[r].seen = disk'[Config].stamp => disk'[Config].good)
    BY <1>2 DEF ParseOK, Parsed
  <2>1. reads[r].own \in Nat /\ reads[r].seen \in Nat /\ reads[r].own <= fileEdits + 1 /\ reads[r].seen <= fileEdits + 1
    BY Shapes DEF StampOK
  <2>2. CASE reads[r].at \in Parsing
    <3>1. reads[r].file \in Files /\ reads[r].own # 0
      BY <2>2 DEF ParseOK, Parsed
    <3> QED
      BY <1>6b, <2>1, <3>1 DEF ParseOK, Parsed
  <2>3. CASE reads[r].at \notin Parsing
    BY <2>3 DEF Parsing
  <2> QED
    BY <2>2, <2>3
<1>9. NumberOK'
  BY <1>2 DEF CatInv, NumberOK, Numbered
<1>10. NewestOK'
  <2>1. newest # 0 /\ reads[newest].at # "none" => ~Clean'
    <3>1. newest # 0 => newest \in DOMAIN reads
      BY NewestThere
    <3> QED
      BY <1>3, <3>1 DEF ReadAt, Clean
  <2> QED
    BY <1>2, <2>1 DEF NewestOK
<1>11. RestOK'
  <2>1. newest = 0 => timer
    BY DEF CatInv, RestOK
  <2> SUFFICES ASSUME newest # 0, Clean', reads[newest].at = "none", ~timer
               PROVE  Shows'
    BY <1>2, <2>1 DEF RestOK
  <2>2. Shows /\ x \notin followed
    BY <1>3 DEF CatInv, RestOK, Clean
  <2>3. x = Config /\ Listed = {} /\ Listed' = {}
    BY <1>4, <2>2, CatalogAssumption DEF Shows, Listed
  <2> QED
    BY <1>2, <2>2, <2>3 DEF Shows
<1> QED
  BY <1>5, <1>6, <1>7, <1>8, <1>9, <1>10, <1>11 DEF CatInv

\* A new read knows nothing yet.
LEMMA LoadKeeps == ASSUME CatInv, Load PROVE CatInv'
<1>1. PICK fresh \in BOOLEAN : reads' = Append(reads, [NoRead EXCEPT !.at = "list", !.fresh = fresh])
  BY DEF Load
<1> DEFINE v == [NoRead EXCEPT !.at = "list", !.fresh = fresh]
<1>2. v \in Reads /\ v.at = "list" /\ v.own = 0 /\ v.seen = 0 /\ DOMAIN v.rows = {}
  BY NoReadShape, CatPlacesThere DEF Reads
<1>3. /\ reads' \in Seq(Reads) /\ newest' = newest + 1 /\ newest \in Nat /\ DOMAIN reads' = DOMAIN reads \cup {newest'}
      /\ reads'[newest'] = v /\ \A r \in DOMAIN reads : reads'[r] = reads[r]
  <2> HIDE DEF v
  <2> QED
    BY <1>1, <1>2 DEF CatInv, CatTypeOK, newest, v
<1> HIDE DEF v
<1>4. UNCHANGED <<disk, cache, numbers, counter, list, timer, followed, fileEdits>> /\ ~pause' /\ pause' \in BOOLEAN /\ ~missed' /\ missed' \in BOOLEAN
  BY DEF Load
<1>5. CatTypeOK'
  BY <1>3, <1>4 DEF CatInv, CatTypeOK
<1>6. StampOK' /\ CacheOK' /\ ParseOK'
  BY <1>2, <1>3, <1>4 DEF CatInv, CatTypeOK, StampOK, CacheOK, ParseOK, Parsed, Parsing
<1>7. NumberOK'
  BY <1>2, <1>3, <1>4 DEF CatInv, NumberOK, Numbered
<1>8. NewestOK' /\ RestOK'
  BY <1>2, <1>3 DEF NewestOK, Knows, RestOK, Parsing
<1> QED
  BY <1>5, <1>6, <1>7, <1>8 DEF CatInv

\* A step that changes one read and nothing else.
LEMMA OneReadKeeps ==
  ASSUME CatInv, NEW r \in DOMAIN reads, NEW v \in Reads, reads' = [reads EXCEPT ![r] = v],
         UNCHANGED <<disk, cache, numbers, counter, list, timer, pause, followed, fileEdits, missed>>,
         v.own <= fileEdits + 1, v.seen <= fileEdits + 1, Parsed(v), Numbered(v), reads[r].at # "none", v.at # "none",
         r = newest /\ Clean => Knows(v)
  PROVE  CatInv'
<1> USE DEF CatInv
<1>1. Turns(r, v)
  BY ReadTurns
<1>2. CatTypeOK'
  BY <1>1 DEF CatTypeOK, Turns
<1>3. StampOK' /\ CacheOK'
  BY <1>1 DEF StampOK, CacheOK, Turns
<1>4. ParseOK'
  BY <1>1 DEF ParseOK, Parsed, Turns
<1>5. NumberOK'
  BY <1>1 DEF NumberOK, Numbered, Turns
<1>6. NewestOK'
  <2> SUFFICES ASSUME newest # 0, Clean, reads'[newest].at # "none"
               PROVE  Knows(reads[newest])'
    BY <1>1 DEF NewestOK, Turns, Clean
  <2>1. Knows(reads'[newest])
    BY <1>1, NewestThere DEF NewestOK, Turns
  <2> QED
    BY <1>1, <2>1 DEF Knows, Listed, JobGood, Turns
<1>7. RestOK'
  BY <1>1, NewestThere DEF RestOK, Turns, Clean, Shows, Listed, JobGood
<1> QED
  BY <1>2, <1>3, <1>4, <1>5, <1>6, <1>7

\* The fields of a read.
LEMMA ReadShape ==
  ASSUME NEW n \in Reads
  PROVE  /\ n.todo \subseteq Files /\ n.rows \in RowMaps /\ DOMAIN n.rows \subseteq Files /\ n.rows \in [DOMAIN n.rows -> CatRows]
         /\ n.file \in Files \cup {0} /\ n.own \in Nat /\ n.seen \in Nat /\ n.good \in BOOLEAN /\ n.depends \in BOOLEAN
         /\ n.ids \in NumberMaps /\ n.known \in NumberMaps /\ n.watched \in BOOLEAN /\ n.fresh \in BOOLEAN /\ n.at \in CatPlaces
BY DEF Reads, RowMaps

\* One lemma for each step of a read.
LEMMA ListFilesKeeps == ASSUME CatInv, NEW r \in DOMAIN reads, ListFiles(r) PROVE CatInv'
<1> DEFINE o == reads[r]
           v == [o EXCEPT !.at = "row", !.todo = Listed]
<1>1. o \in Reads /\ o.at = "list"
  BY ReadThere DEF ListFiles, ReadAt, CatInv
<1>2. reads' = [reads EXCEPT ![r] = v] /\ UNCHANGED <<disk, cache, numbers, counter, list, timer, pause, followed, fileEdits, missed>>
  BY DEF ListFiles
<1>3. v \in Reads /\ v.at = "row" /\ v.todo = Listed /\ v.own = o.own /\ v.seen = o.seen /\ v.rows = o.rows
  BY <1>1, CatPlacesThere DEF Reads, Listed
<1>4. o.own <= fileEdits + 1 /\ o.seen <= fileEdits + 1
  BY DEF CatInv, StampOK
<1>5. Parsed(v) /\ Numbered(v)
  BY <1>3 DEF Parsed, Numbered, Parsing
<1>6. r = newest /\ Clean => Knows(v)
  <2> SUFFICES ASSUME r = newest, Clean PROVE Knows(v)
    OBVIOUS
  <2>1. DOMAIN o.rows = {}
    BY <1>1, NewestThere DEF CatInv, NewestOK, Knows
  <2> HIDE DEF v
  <2> QED
    BY <1>3, <2>1 DEF Knows, Parsing
<1> HIDE DEF v
<1> QED
  BY <1>1, <1>2, <1>3, <1>4, <1>5, <1>6, OneReadKeeps

\* The least of the files left to read.
LEMMA LeastFile ==
  ASSUME NEW S \in SUBSET Files, S # {}
  PROVE  Min(S) \in S
<1>1. \E n \in S : \A m \in S : n <= m
  BY LeastOfNat, CatalogAssumption
<1> QED
  BY <1>1 DEF Min

\* A row more.
LEMMA WithRowThere ==
  ASSUME NEW rows \in RowMaps, NEW f \in Files, NEW given \in CatRows
  PROVE  /\ WithRow(rows, f, given) \in RowMaps /\ DOMAIN WithRow(rows, f, given) = DOMAIN rows \cup {f}
         /\ WithRow(rows, f, given)[f] = given /\ \A g \in DOMAIN rows : g # f => WithRow(rows, f, given)[g] = rows[g]
<1>1. DOMAIN rows \cup {f} \in SUBSET Files /\ \A g \in DOMAIN rows : rows[g] \in CatRows
  BY MapShape
<1>2. WithRow(rows, f, given) \in [DOMAIN rows \cup {f} -> CatRows]
  BY <1>1 DEF WithRow
<1>3. WithRow(rows, f, given) \in RowMaps
  BY <1>1, <1>2, MapShape
<1> QED
  BY <1>2, <1>3 DEF WithRow

LEMMA JobRowKeeps == ASSUME CatInv, NEW r \in DOMAIN reads, JobRow(r) PROVE CatInv'
<1> DEFINE o == reads[r]
           f == Min(o.todo)
           rest == o.todo \ {f}
           with(given) == WithRow(o.rows, f, given)
<1>1. o \in Reads /\ o.at = "row" /\ o.todo # {}
  BY ReadThere DEF JobRow, ReadAt, CatInv
<1>2. f \in o.todo /\ f \in Files
  BY <1>1, ReadShape, LeastFile
<1>3. UNCHANGED <<disk, cache, numbers, counter, list, timer, pause, followed, fileEdits, missed>>
  BY DEF JobRow
<1>4. o.own <= fileEdits + 1 /\ o.seen <= fileEdits + 1
  BY DEF CatInv, StampOK
<1>5. r = newest /\ Clean =>
        /\ DOMAIN o.rows \cup o.todo = Listed
        /\ \A g \in DOMAIN o.rows : o.rows[g].good => cache[g].good /\ (~o.rows[g].raced => JobGood(g))
  BY <1>1, NewestThere DEF CatInv, NewestOK, Knows, Parsing
<1> HIDE DEF f
<1>6. \A given \in CatRows :
        /\ with(given) \in RowMaps /\ DOMAIN with(given) = DOMAIN o.rows \cup {f}
        /\ with(given)[f] = given /\ \A g \in DOMAIN o.rows : g # f => with(given)[g] = o.rows[g]
  <2> QED
    BY <1>1, <1>2, WithRowThere, ReadShape
<1>7. ASSUME NEW given \in CatRows, reads' = [reads EXCEPT ![r] = [o EXCEPT !.todo = rest, !.rows = with(given)]],
             given.good => cache[f].good /\ (~given.raced => JobGood(f))
      PROVE  CatInv'
  <2> DEFINE v == [o EXCEPT !.todo = rest, !.rows = with(given)]
  <2> HIDE DEF with
  <2>1. /\ v \in Reads /\ v.at = "row" /\ v.todo = rest /\ v.own = o.own /\ v.seen = o.seen /\ v.rows = with(given)
    BY <1>1, <1>6 DEF Reads
  <2>2. Parsed(v) /\ Numbered(v)
    BY <2>1 DEF Parsed, Numbered, Parsing
  <2>3. r = newest /\ Clean => Knows(v)
    <3> SUFFICES ASSUME r = newest, Clean PROVE Knows(v)
      OBVIOUS
    <3> HIDE DEF v
    <3>1. DOMAIN v.rows \cup v.todo = Listed
      BY <1>2, <1>5, <1>6, <2>1
    <3>2. \A g \in DOMAIN v.rows : v.rows[g].good => cache[g].good /\ (~v.rows[g].raced => JobGood(g))
      BY <1>5, <1>6, <1>7, <2>1
    <3> QED
      BY <2>1, <3>1, <3>2 DEF Knows, Parsing
  <2> HIDE DEF v
  <2> QED
    BY <1>1, <1>3, <1>4, <1>7, <2>1, <2>2, <2>3, OneReadKeeps DEF v
<1>8. CASE Signature(f) = 0
  <2>1. NoRow \in CatRows /\ ~NoRow.good
    BY DEF NoRow, CatRows
  <2>2. reads' = [reads EXCEPT ![r] = [o EXCEPT !.todo = rest, !.rows = with(NoRow)]]
    BY <1>8 DEF JobRow, f
  <2> QED
    BY <1>7, <2>1, <2>2
<1>9. CASE Signature(f) # 0 /\ ~o.fresh /\ Unchanged(f)
  <2> DEFINE given == [good |-> TRUE, raced |-> cache[f].raced]
  <2>1. given \in CatRows /\ cache[f].good
    BY <1>2, <1>9, Shapes DEF CatRows, CatInv, Unchanged
  <2>2. ~given.raced => JobGood(f)
    BY <1>2, <1>9 DEF CatInv, CacheOK, Unchanged, Signature, JobGood
  <2>3. reads' = [reads EXCEPT ![r] = [o EXCEPT !.todo = rest, !.rows = with(given)]]
    BY <1>9 DEF JobRow, f
  <2> HIDE DEF given
  <2> QED
    BY <1>7, <2>1, <2>2, <2>3
<1>10. CASE Signature(f) # 0 /\ ~(~o.fresh /\ Unchanged(f))
  <2> DEFINE v == [o EXCEPT !.at = "text", !.todo = rest, !.file = f, !.own = Signature(f)]
  <2>1. reads' = [reads EXCEPT ![r] = v]
    BY <1>10 DEF JobRow, f
  <2>2. Signature(f) \in Nat /\ Signature(f) <= fileEdits + 1
    BY <1>2, Shapes DEF CatInv, StampOK, Signature
  <2>3. /\ v \in Reads /\ v.at = "text" /\ v.todo = rest /\ v.own = Signature(f) /\ v.seen = o.seen /\ v.rows = o.rows /\ v.file = f
    BY <1>1, <1>2, <2>2, CatPlacesThere DEF Reads
  <2>4. Parsed(v) /\ Numbered(v)
    BY <1>2, <1>10, <2>3 DEF Parsed, Numbered, Parsing
  <2>5. r = newest /\ Clean => Knows(v)
    <3> HIDE DEF v
    <3> QED
      BY <1>2, <1>5, <2>3 DEF Knows, Parsing, Signature
  <2> HIDE DEF v
  <2> QED
    BY <1>1, <1>3, <1>4, <2>1, <2>2, <2>3, <2>4, <2>5, OneReadKeeps
<1> QED
  BY <1>8, <1>9, <1>10

LEMMA ReadJobTextKeeps == ASSUME CatInv, NEW r \in DOMAIN reads, ReadJobText(r) PROVE CatInv'
<1> DEFINE o == reads[r]
           v == [o EXCEPT !.at = IF disk[o.file].good THEN "config" ELSE "keep", !.good = FALSE, !.seen = 0]
<1>1. o \in Reads /\ o.at = "text"
  BY ReadThere DEF ReadJobText, ReadAt, CatInv
<1>2. reads' = [reads EXCEPT ![r] = v] /\ UNCHANGED <<disk, cache, numbers, counter, list, timer, pause, followed, fileEdits, missed>>
  BY DEF ReadJobText
<1>3. /\ v \in Reads /\ v.at = (IF disk[o.file].good THEN "config" ELSE "keep") /\ v.todo = o.todo /\ v.own = o.own /\ v.seen = 0
      /\ v.rows = o.rows /\ v.file = o.file /\ ~v.good
  BY <1>1, CatPlacesThere DEF Reads
<1>4. o.own <= fileEdits + 1 /\ v.seen <= fileEdits + 1
  BY <1>3, Shapes DEF CatInv, StampOK
<1> HIDE DEF v
<1>5. Parsed(v) /\ Numbered(v)
  <2>1. Parsed(o)
    BY DEF CatInv, ParseOK
  <2> QED
    BY <1>1, <1>3, <2>1 DEF Parsed, Numbered, Parsing
<1>6. r = newest /\ Clean => Knows(v)
  <2>1. r = newest /\ Clean => Knows(o)
    BY <1>1, NewestThere DEF CatInv, NewestOK
  <2> QED
    BY <1>1, <1>3, <2>1 DEF Knows, Parsing
<1>7. v.at # "none" /\ o.at # "none"
  BY <1>1, <1>3
<1> HIDE DEF o
<1> QED
  BY <1>1, <1>2, <1>3, <1>4, <1>5, <1>6, <1>7, OneReadKeeps DEF o

LEMMA ReadConfigKeeps == ASSUME CatInv, NEW r \in DOMAIN reads, ReadConfig(r) PROVE CatInv'
<1> DEFINE o == reads[r]
           v == [o EXCEPT !.at = "keep", !.good = disk[Config].good, !.seen = Signature(Config)]
<1>1. o \in Reads /\ o.at = "config"
  BY ReadThere DEF ReadConfig, ReadAt, CatInv
<1>2. reads' = [reads EXCEPT ![r] = v] /\ UNCHANGED <<disk, cache, numbers, counter, list, timer, pause, followed, fileEdits, missed>>
  BY DEF ReadConfig
<1>3. disk[Config].stamp \in Nat /\ disk[Config].good \in BOOLEAN /\ disk[Config].stamp <= fileEdits + 1 /\ (disk[Config].good => disk[Config].stamp # 0)
  BY Shapes DEF CatInv, StampOK
<1>4. /\ v \in Reads /\ v.at = "keep" /\ v.todo = o.todo /\ v.own = o.own /\ v.seen = disk[Config].stamp
      /\ v.rows = o.rows /\ v.file = o.file /\ v.good = disk[Config].good
  BY <1>1, <1>3, CatPlacesThere DEF Reads, Signature
<1>5. o.own <= fileEdits + 1
  BY DEF CatInv, StampOK
<1> HIDE DEF v
<1>6. Parsed(v) /\ Numbered(v)
  <2>1. Parsed(o)
    BY DEF CatInv, ParseOK
  <2> QED
    BY <1>1, <1>3, <1>4, <2>1 DEF Parsed, Numbered, Parsing
<1>7. r = newest /\ Clean => Knows(v)
  <2>1. r = newest /\ Clean => Knows(o)
    BY <1>1, NewestThere DEF CatInv, NewestOK
  <2> QED
    BY <1>1, <1>4, <2>1 DEF Knows, Parsing
<1>8. v.at # "none" /\ o.at # "none" /\ v.own <= fileEdits + 1 /\ v.seen <= fileEdits + 1
  BY <1>1, <1>3, <1>4, <1>5
<1> HIDE DEF o
<1> QED
  BY <1>2, <1>4, <1>6, <1>7, <1>8, OneReadKeeps DEF o

\* A read that is not the newest leaves what the newest has found in the cache, or the history tells.
LEMMA StaysCached ==
  ASSUME CatInv, NEW r \in DOMAIN reads, r # newest, missed' = (missed \/ TakesOut(r)), pause' = pause, Clean'
  PROVE  Clean /\ \A f \in Files : cache[f].good => cache'[f].good
BY DEF TakesOut, IsNewest, Clean

LEMMA KeepKeeps == ASSUME CatInv, NEW r \in DOMAIN reads, Keep(r) PROVE CatInv'
<1> DEFINE o == reads[r]
           f == o.file
           now == Signature(Config)
           raced == o.good /\ o.seen # now
           entry == [own |-> o.own, dep |-> IF o.good THEN now ELSE 0, good |-> o.good, raced |-> raced]
           found == [good |-> o.good, raced |-> raced]
           rows == WithRow(o.rows, f, found)
           v == [o EXCEPT !.at = "row", !.file = 0, !.own = 0, !.seen = 0, !.good = FALSE, !.rows = rows]
<1> USE DEF CatInv
<1>1. o \in Reads /\ o.at = "keep"
  BY ReadThere DEF Keep, ReadAt
<1>2. /\ cache' = [cache EXCEPT ![f] = entry]
      /\ reads' = [reads EXCEPT ![r] = v]
      /\ missed' = (missed \/ TakesOut(r))
      /\ UNCHANGED <<disk, numbers, counter, list, timer, pause, followed, fileEdits>>
  <2>1. cache' = [cache EXCEPT ![f] = entry]
    BY DEF Keep
  <2>2. reads' = [reads EXCEPT ![r] = v]
    BY DEF Keep
  <2>3. missed' = (missed \/ TakesOut(r)) /\ UNCHANGED <<disk, numbers, counter, list, timer, pause, followed, fileEdits>>
    BY DEF Keep
  <2> QED
    BY <2>1, <2>2, <2>3
<1>3. /\ f \in Files /\ o.own # 0 /\ (o.good => (o.own = disk[f].stamp => disk[f].good))
      /\ o.good => o.seen # 0 /\ (o.seen = disk[Config].stamp => disk[Config].good)
  BY <1>1 DEF ParseOK, Parsed, Parsing
<1>4. now \in Nat /\ now <= fileEdits + 1 /\ now = disk[Config].stamp
  BY Shapes DEF StampOK, Signature
<1>5. o.own \in Nat /\ o.own <= fileEdits + 1 /\ o.good \in BOOLEAN /\ raced \in BOOLEAN
  BY <1>1, ReadShape DEF StampOK
<1>6. rows \in RowMaps /\ DOMAIN rows = DOMAIN o.rows \cup {f} /\ rows[f] = found /\ \A g \in DOMAIN o.rows : g # f => rows[g] = o.rows[g]
  <2>1. found \in CatRows
    BY <1>5 DEF CatRows
  <2>2. o.rows \in RowMaps
    BY <1>1, ReadShape
  <2>3. f \in Files
    BY <1>3
  <2> HIDE DEF found, f
  <2> QED
    BY <2>1, <2>2, <2>3, WithRowThere
<1>7. entry \in Entries /\ entry.own <= fileEdits + 1 /\ entry.dep <= fileEdits + 1
  BY <1>4, <1>5, Shapes DEF Entries
<1>8. /\ cache' \in [Files -> Entries] /\ cache'[f] = entry
      /\ \A g \in Files : g # f => cache'[g] = cache[g]
  <2> HIDE DEF entry
  <2> QED BY <1>2, <1>3, <1>7 DEF CatTypeOK
<1> HIDE DEF rows
<1>9. /\ v \in Reads /\ v.at = "row" /\ v.own = 0 /\ v.seen = 0 /\ v.rows = rows /\ v.todo = o.todo
  BY <1>1, <1>6, CatPlacesThere DEF Reads
<1> HIDE DEF v
<1>10. Turns(r, v)
  BY <1>2, <1>9, ReadTurns
<1>11. CatTypeOK'
  BY <1>2, <1>8, <1>10 DEF CatTypeOK, Turns
<1>12. StampOK'
  <2>1. \A g \in Files : cache'[g].own <= fileEdits + 1 /\ cache'[g].dep <= fileEdits + 1
    BY <1>7, <1>8 DEF StampOK
  <2>2. v.own <= fileEdits + 1 /\ v.seen <= fileEdits + 1
    BY <1>9, Shapes
  <2> QED
    BY <1>2, <1>10, <2>1, <2>2 DEF StampOK, Turns
<1>13. CacheOK'
  <2>1. o.good => /\ entry.own # 0 /\ (entry.own = disk[f].stamp => disk[f].good)
                  /\ ~entry.raced => entry.dep # 0 /\ (entry.dep = disk[Config].stamp => disk[Config].good)
    BY <1>3, <1>4
  <2>2. entry.good = o.good
    OBVIOUS
  <2> HIDE DEF entry
  <2> QED
    BY <1>2, <1>8, <2>1, <2>2 DEF CacheOK
<1>14. ParseOK'
  <2>1. Parsed(v)
    BY <1>9 DEF Parsed, Parsing
  <2> QED
    BY <1>2, <1>10, <2>1 DEF ParseOK, Parsed, Turns
<1>15. NumberOK'
  <2>1. Numbered(v)
    BY <1>9 DEF Numbered
  <2> QED
    BY <1>2, <1>10, <2>1 DEF NumberOK, Numbered, Turns
<1>16. NewestOK'
  <2> SUFFICES ASSUME newest # 0, Clean', reads'[newest].at # "none"
               PROVE  Knows(reads[newest])'
    BY <1>10 DEF NewestOK, Turns
  <2>1. CASE r = newest
    <3>1. Clean
      BY <1>2 DEF Clean
    <3>2. Knows(o)
      BY <1>1, <2>1, <3>1 DEF NewestOK
    <3>3. DOMAIN o.rows \cup o.todo \cup {f} = Listed
      BY <1>1, <3>2 DEF Knows, Parsing
    <3>4. /\ \A g \in DOMAIN o.rows : o.rows[g].good => cache[g].good /\ (~o.rows[g].raced => JobGood(g))
          /\ o.own = disk[f].stamp /\ (o.good => o.seen = disk[Config].stamp)
      BY <1>1, <3>2 DEF Knows, Parsing
    <3>5. \A g \in DOMAIN rows : rows[g].good => cache'[g].good /\ (~rows[g].raced => JobGood(g))
      <4>1. o.good => JobGood(f)
        BY <1>3, <3>4 DEF JobGood
      <4>2. DOMAIN o.rows \subseteq Files
        BY <1>1, ReadShape
      <4>3. rows[f].good = o.good /\ cache'[f].good = o.good
        BY <1>6, <1>8
      <4> QED
        BY <1>6, <1>8, <3>4, <4>1, <4>2, <4>3
    <3>6. DOMAIN rows \cup v.todo = Listed
      BY <1>6, <1>9, <3>3
    <3>7. reads'[newest] = v /\ newest' = newest
      BY <1>10, <2>1 DEF Turns
    <3> QED
      BY <1>2, <1>9, <3>5, <3>6, <3>7 DEF Knows, Parsing, Listed, JobGood
  <2>2. CASE r # newest
    <3>1. Clean /\ \A g \in Files : cache[g].good => cache'[g].good
      BY <1>2, <2>2, StaysCached
    <3>2. reads'[newest] = reads[newest] /\ reads[newest] \in Reads
      BY <1>10, <2>2, NewestThere, ReadThere DEF Turns
    <3>3. Knows(reads[newest]) /\ DOMAIN reads[newest].rows \subseteq Files
      BY <3>1, <3>2, ReadShape DEF NewestOK
    <3> QED
      BY <1>2, <1>10, <3>1, <3>2, <3>3 DEF Knows, Listed, JobGood, Turns
  <2> QED
    BY <2>1, <2>2
<1>17. RestOK'
  <2>1. Clean' => Clean
    BY <1>2 DEF Clean
  <2>2. newest # 0 => (reads'[newest].at = "none" => reads[newest].at = "none")
    BY <1>9, <1>10, NewestThere DEF Turns
  <2> QED
    BY <1>2, <1>10, <2>1, <2>2 DEF RestOK, Shows, Listed, JobGood, Turns
<1> QED
  BY <1>11, <1>12, <1>13, <1>14, <1>15, <1>16, <1>17

\* The end of the rows: the newest read has every listed file, and whether any is valid.
LEMMA ForgetKeeps == ASSUME CatInv, NEW r \in DOMAIN reads, Forget(r) PROVE CatInv'
<1> DEFINE o == reads[r]
           listed == DOMAIN o.rows
           complete == (\A f \in listed : numbers[f] # 0) /\ present = listed
           v == [o EXCEPT !.at = IF complete THEN "follow" ELSE "assign", !.known = IF complete THEN o.known ELSE numbers,
                          !.ids = [f \in listed |-> numbers[f]], !.depends = \E f \in listed : cache[f].good]
<1> USE DEF CatInv
<1>1. o \in Reads /\ o.at = "row" /\ o.todo = {}
  BY ReadThere DEF Forget, ReadAt
<1>2. /\ cache' = [f \in Files |-> IF f \in listed THEN cache[f] ELSE NoEntry]
      /\ reads' = [reads EXCEPT ![r] = v]
      /\ missed' = (missed \/ TakesOut(r))
      /\ UNCHANGED <<disk, numbers, counter, list, timer, pause, followed, fileEdits>>
  BY DEF Forget
<1>3. NoEntry \in Entries /\ NoEntry.own = 0 /\ NoEntry.dep = 0 /\ ~NoEntry.good
  BY DEF NoEntry, Entries
<1>4. listed \subseteq Files /\ numbers \in NumberMaps /\ [f \in listed |-> numbers[f]] \in NumberMaps
  <2>1. listed \subseteq Files
    BY <1>1, ReadShape
  <2>2. numbers \in [Files -> Nat] /\ [f \in listed |-> numbers[f]] \in [listed -> Nat]
    BY <2>1 DEF CatTypeOK
  <2> QED
    BY <2>1, <2>2, MapShape
<1>5. /\ v \in Reads /\ v.at = (IF complete THEN "follow" ELSE "assign") /\ v.todo = {} /\ v.own = o.own /\ v.seen = o.seen
      /\ v.rows = o.rows /\ v.ids = [f \in listed |-> numbers[f]] /\ v.depends = (\E f \in listed : cache[f].good)
  <2> HIDE DEF complete
  <2> QED
    BY <1>1, <1>4, CatPlacesThere DEF Reads
<1>6. cache' \in [Files -> Entries] /\ \A f \in Files : cache'[f] = cache[f] \/ cache'[f] = NoEntry
  BY <1>2, <1>3 DEF CatTypeOK
<1>7. Turns(r, v)
  <2> HIDE DEF v
  <2> QED BY <1>2, <1>5, ReadTurns
<1> HIDE DEF v
<1>8. CatTypeOK'
  BY <1>2, <1>6, <1>7 DEF CatTypeOK, Turns
<1>9. StampOK'
  <2>1. \A g \in Files : cache'[g].own <= fileEdits + 1 /\ cache'[g].dep <= fileEdits + 1
    BY <1>3, <1>6, Shapes DEF StampOK
  <2> QED
    BY <1>2, <1>5, <1>7, <2>1 DEF StampOK, Turns
<1>10. CacheOK'
  BY <1>2, <1>3, <1>6 DEF CacheOK
<1>11. ParseOK'
  <2>1. Parsed(v)
    BY <1>5 DEF Parsed, Parsing
  <2> QED
    BY <1>2, <1>7, <2>1 DEF ParseOK, Parsed, Turns
<1>12. NumberOK'
  <2>1. Numbered(v)
    BY <1>5 DEF Numbered
  <2> QED
    BY <1>2, <1>7, <2>1 DEF NumberOK, Numbered, Turns
<1>13. NewestOK'
  <2> SUFFICES ASSUME newest # 0, Clean', reads'[newest].at # "none"
               PROVE  Knows(reads[newest])'
    BY <1>7 DEF NewestOK, Turns
  <2>1. CASE r = newest
    <3>1. Clean
      BY <1>2 DEF Clean
    <3>2. Knows(o)
      BY <1>1, <2>1, <3>1 DEF NewestOK
    <3>3. /\ listed = Listed
          /\ \A g \in listed : o.rows[g].good => cache[g].good /\ (~o.rows[g].raced => JobGood(g))
      BY <1>1, <3>2 DEF Knows, Parsing
    <3>4. reads'[newest] = v /\ newest' = newest
      BY <1>7, <2>1 DEF Turns
    <3>5. v.at \in {"follow", "assign"}
      BY <1>5
    <3>6. (\E f \in DOMAIN v.rows : v.rows[f].good) => v.depends
      BY <1>5, <3>3
    <3> QED
      BY <1>2, <1>5, <3>3, <3>4, <3>5, <3>6 DEF Knows, Parsing, Listed, JobGood
  <2>2. CASE r # newest
    <3>1. Clean /\ \A g \in Files : cache[g].good => cache'[g].good
      BY <1>2, <2>2, StaysCached
    <3>2. reads'[newest] = reads[newest] /\ reads[newest] \in Reads
      BY <1>7, <2>2, NewestThere, ReadThere DEF Turns
    <3>3. Knows(reads[newest]) /\ DOMAIN reads[newest].rows \subseteq Files
      BY <3>1, <3>2, ReadShape DEF NewestOK
    <3> QED
      BY <1>2, <1>7, <3>1, <3>2, <3>3 DEF Knows, Listed, JobGood, Turns
  <2> QED
    BY <2>1, <2>2
<1>14. RestOK'
  <2>1. Clean' => Clean
    BY <1>2 DEF Clean
  <2>2. newest # 0 => (reads'[newest].at = "none" => reads[newest].at = "none")
    BY <1>5, <1>7, NewestThere DEF Turns
  <2> QED
    BY <1>2, <1>7, <2>1, <2>2 DEF RestOK, Shows, Listed, JobGood, Turns
<1> QED
  BY <1>8, <1>9, <1>10, <1>11, <1>12, <1>13, <1>14

\* The numbers a transaction gives are new, and different.
LEMMA Given ==
  ASSUME NEW U \in SUBSET Files, NEW c \in Nat
  PROVE  /\ Cardinality(U) \in Nat
         /\ \A f \in U : Cardinality({g \in U : g <= f}) \in 1..Cardinality(U)
         /\ \A f, h \in U : Cardinality({g \in U : g <= f}) = Cardinality({g \in U : g <= h}) => f = h
<1> DEFINE Up(f) == {g \in U : g <= f}
<1>1. IsFiniteSet(U) /\ Cardinality(U) \in Nat /\ U \subseteq Nat
  BY CatalogAssumption, FS_Subset, FS_CardinalityType
<1>2. \A f \in U : Up(f) \subseteq U /\ f \in Up(f)
  BY <1>1
<1>3. ASSUME NEW f \in U
      PROVE  IsFiniteSet(Up(f)) /\ Cardinality(Up(f)) \in Nat /\ Cardinality(Up(f)) <= Cardinality(U) /\ Cardinality(Up(f)) # 0
  <2>1. Up(f) \subseteq U /\ Up(f) # {}
    BY <1>2
  <2> HIDE DEF Up
  <2> QED
    BY <1>1, <2>1, FS_Subset, FS_CardinalityType, FS_EmptySet
<1>4. ASSUME NEW f \in U, NEW h \in U, f < h
      PROVE  Cardinality(Up(f)) # Cardinality(Up(h))
  <2>1. Up(f) \subseteq Up(h) /\ h \notin Up(f) /\ h \in Up(h)
    <3>1. \A g \in U : g \in Nat
      BY <1>1
    <3>2. f \in Nat /\ h \in Nat /\ f < h
      BY <1>4, <3>1
    <3>3. \A g \in Nat : g <= f => g <= h
      BY <3>2
    <3>4. ~(h <= f)
      BY <3>2
    <3> QED
      BY <1>2, <3>1, <3>3, <3>4
  <2> HIDE DEF Up
  <2> QED
    BY <1>3, <2>1, FS_Subset
<1>5. \A f, h \in U : f = h \/ f < h \/ h < f
  BY <1>1
<1>6. \A f \in U : Cardinality(Up(f)) \in 1..Cardinality(U)
  <2> HIDE DEF Up
  <2> QED BY <1>1, <1>3
<1>7. \A f, h \in U : Cardinality(Up(f)) = Cardinality(Up(h)) => f = h
  <2> HIDE DEF Up
  <2> QED BY <1>4, <1>5
<1> QED
  BY <1>1, <1>6, <1>7

\* The transaction gives new numbers, and leaves those there were.
LEMMA AssignKeeps == ASSUME CatInv, NEW r \in DOMAIN reads, Assign(r) PROVE CatInv'
<1> DEFINE o == reads[r]
           listed == DOMAIN o.rows
           unknown == {f \in listed : numbers[f] = 0}
           rank(f) == Cardinality({g \in unknown : g <= f})
           given(f) == IF f \in unknown THEN counter + rank(f) ELSE numbers[f]
           v == [o EXCEPT !.at = "follow", !.known = NoRead.known, !.ids = [f \in listed |-> given(f)]]
<1> USE DEF CatInv
<1>1. o \in Reads /\ o.at = "assign"
  BY ReadThere DEF Assign, ReadAt
<1>2. /\ numbers' = [f \in Files |-> IF f \in unknown THEN given(f) ELSE numbers[f]]
      /\ counter' = counter + Cardinality(unknown)
      /\ reads' = [reads EXCEPT ![r] = v]
      /\ UNCHANGED <<disk, cache, list, timer, pause, followed, fileEdits, missed>>
  BY DEF Assign, KnownNumber
<1>3. listed \subseteq Files /\ unknown \subseteq Files /\ unknown \subseteq listed
  BY <1>1, ReadShape
<1>4. counter \in Nat /\ \A f \in Files : numbers[f] \in Nat /\ numbers[f] <= counter
  BY Shapes DEF NumberOK
<1>5. /\ Cardinality(unknown) \in Nat
      /\ \A f \in unknown : rank(f) \in 1..Cardinality(unknown)
      /\ \A f, h \in unknown : rank(f) = rank(h) => f = h
  <2> HIDE DEF unknown
  <2> QED BY <1>3, <1>4, Given
<1>6. \A f \in Files : f \in unknown <=> f \in listed /\ numbers[f] = 0
  OBVIOUS
<1> HIDE DEF unknown, rank
<1>7. \A f \in Files :
        /\ given(f) \in Nat /\ given(f) <= counter + Cardinality(unknown)
        /\ f \in unknown => given(f) > counter
        /\ f \notin unknown => given(f) = numbers[f]
  BY <1>4, <1>5
<1>8. \A f, h \in Files : given(f) = given(h) /\ given(f) # 0 => f = h
  <2> SUFFICES ASSUME NEW f \in Files, NEW h \in Files, given(f) = given(h), given(f) # 0
               PROVE  f = h
    OBVIOUS
  <2>1. CASE f \in unknown /\ h \in unknown
    <3>1. rank(f) \in Nat /\ rank(h) \in Nat /\ counter + rank(f) = counter + rank(h)
      BY <1>5, <2>1
    <3> QED
      BY <1>4, <1>5, <2>1, <3>1
  <2>2. CASE f \in unknown /\ h \notin unknown
    BY <1>4, <1>7, <2>2
  <2>3. CASE f \notin unknown /\ h \in unknown
    BY <1>4, <1>7, <2>3
  <2>4. CASE f \notin unknown /\ h \notin unknown
    BY <1>7, <2>4 DEF NumberOK
  <2> QED
    BY <2>1, <2>2, <2>3, <2>4
<1>9. \A f \in listed : given(f) # 0
  BY <1>3, <1>4, <1>6, <1>7
<1>10. [f \in listed |-> given(f)] \in NumberMaps /\ NoRead.known \in NumberMaps
  <2>1. \A f \in listed : given(f) \in Nat
    BY <1>3, <1>7
  <2> HIDE DEF given, listed
  <2>2. [f \in listed |-> given(f)] \in [listed -> Nat]
    BY <2>1
  <2>3. [f \in listed |-> given(f)] \in NumberMaps
    BY <1>3, <2>2, MapShape
  <2>4. NoRead.known \in NumberMaps
    BY NoReadShape, ReadShape
  <2> QED
    BY <2>3, <2>4
<1> HIDE DEF given
<1>11. numbers' \in [Files -> Nat] /\ counter' \in Nat /\ \A f \in Files : numbers'[f] = given(f)
  BY <1>2, <1>4, <1>5, <1>7
<1>12. /\ v \in Reads /\ v.at = "follow" /\ v.todo = o.todo /\ v.own = o.own /\ v.seen = o.seen /\ v.rows = o.rows /\ v.depends = o.depends
       /\ v.ids = [f \in listed |-> given(f)]
  BY <1>1, <1>10, CatPlacesThere DEF Reads
<1>13. Turns(r, v)
  <2> HIDE DEF v
  <2> QED BY <1>2, <1>12, ReadTurns
<1> HIDE DEF v
<1>14. CatTypeOK'
  BY <1>2, <1>11, <1>13 DEF CatTypeOK, Turns
<1>15. StampOK' /\ CacheOK'
  BY <1>2, <1>12, <1>13 DEF StampOK, CacheOK, Turns
<1>16. ParseOK'
  <2>1. Parsed(v)
    BY <1>12 DEF Parsed, Parsing
  <2> QED
    BY <1>2, <1>13, <2>1 DEF ParseOK, Parsed, Turns
<1>17. NumberOK'
  <2>1. \A f \in Files : numbers'[f] <= counter'
    BY <1>2, <1>7, <1>11
  <2>2. \A f, h \in Files : numbers'[f] = numbers'[h] /\ numbers'[f] # 0 => f = h
    BY <1>8, <1>11
  <2>3. \A f \in Files : numbers[f] # 0 => numbers'[f] = numbers[f]
    BY <1>6, <1>7, <1>11
  <2>4. ASSUME NEW q \in DOMAIN reads, q # r
        PROVE  Numbered(reads[q])'
    <3>1. reads'[q] = reads[q] /\ Numbered(reads[q])
      BY <1>13, <2>4 DEF Turns, NumberOK
    <3>2. DOMAIN reads[q].rows \subseteq Files
      BY ReadThere, ReadShape
    <3> QED
      BY <2>3, <3>1, <3>2 DEF Numbered
  <2>5. Numbered(reads[r])'
    <3>1. DOMAIN v.ids = listed /\ \A f \in listed : v.ids[f] = given(f)
      BY <1>12
    <3> QED
      BY <1>3, <1>9, <1>11, <1>12, <1>13, <3>1 DEF Turns, Numbered
  <2>6. \A f \in DOMAIN list : list[f].number = numbers'[f] /\ numbers'[f] # 0
    <3>1. DOMAIN list \subseteq Files
      BY MapShape DEF CatTypeOK
    <3> QED
      BY <2>3, <3>1 DEF NumberOK
  <2>7. \A q \in DOMAIN reads' : Numbered(reads[q])'
    BY <1>13, <2>4, <2>5 DEF Turns
  <2> QED
    BY <1>2, <2>1, <2>2, <2>6, <2>7 DEF NumberOK
<1>18. NewestOK'
  <2> SUFFICES ASSUME newest # 0, Clean, reads'[newest].at # "none"
               PROVE  Knows(reads[newest])'
    BY <1>2, <1>13 DEF NewestOK, Turns, Clean
  <2>1. CASE r = newest
    <3>1. Knows(o)
      BY <1>1, <2>1 DEF NewestOK
    <3>2. reads'[newest] = v /\ newest' = newest
      BY <1>13, <2>1 DEF Turns
    <3> QED
      BY <1>1, <1>2, <1>12, <3>1, <3>2 DEF Knows, Parsing, Listed, JobGood
  <2>2. CASE r # newest
    <3>1. reads'[newest] = reads[newest] /\ newest' = newest
      BY <1>13, <2>2, NewestThere DEF Turns
    <3> QED
      BY <1>2, <3>1 DEF NewestOK, Knows, Listed, JobGood
  <2> QED
    BY <2>1, <2>2
<1>19. RestOK'
  <2>1. newest # 0 => (reads'[newest].at = "none" => reads[newest].at = "none")
    BY <1>12, <1>13, NewestThere DEF Turns
  <2> QED
    BY <1>2, <1>13, <2>1 DEF RestOK, Shows, Listed, JobGood, Turns, Clean
<1> QED
  BY <1>14, <1>15, <1>16, <1>17, <1>18, <1>19

\* Only the newest read says what is watched.
LEMMA FollowKeeps == ASSUME CatInv, NEW r \in DOMAIN reads, Follow(r) PROVE CatInv'
<1> DEFINE o == reads[r]
<1> USE DEF CatInv
<1>1. o \in Reads /\ o.at = "follow"
  BY ReadThere DEF Follow, ReadAt
<1>2. UNCHANGED <<disk, cache, numbers, counter, list, timer, pause, fileEdits, missed>>
  BY DEF Follow
<1>3. PICK watched \in BOOLEAN :
        /\ reads' = [reads EXCEPT ![r] = [o EXCEPT !.at = "show", !.watched = watched]]
        /\ r = newest => followed' = Files \cup IF o.depends /\ watched THEN {Config} ELSE {}
        /\ r # newest => followed' = followed
  <2>1. CASE r = newest
    BY <2>1 DEF Follow, IsNewest
  <2>2. CASE r # newest
    <3>1. o.watched \in BOOLEAN
      BY <1>1, ReadShape
    <3>2. [o EXCEPT !.at = "show"] = [o EXCEPT !.at = "show", !.watched = o.watched]
      BY <1>1 DEF Reads
    <3>3. reads' = [reads EXCEPT ![r] = [o EXCEPT !.at = "show"]] /\ followed' = followed
      BY <2>2 DEF Follow, IsNewest, Goes
    <3> QED
      BY <2>2, <3>1, <3>2, <3>3
  <2> QED
    BY <2>1, <2>2
<1> DEFINE v == [o EXCEPT !.at = "show", !.watched = watched]
<1>4. /\ v \in Reads /\ v.at = "show" /\ v.todo = o.todo /\ v.own = o.own /\ v.seen = o.seen /\ v.rows = o.rows /\ v.depends = o.depends
      /\ v.ids = o.ids /\ v.watched = watched
  BY <1>1, CatPlacesThere DEF Reads
<1>5. Turns(r, v)
  <2> HIDE DEF v
  <2>1. reads' = [reads EXCEPT ![r] = v]
    BY <1>3 DEF v
  <2> QED BY <1>4, <2>1, ReadTurns
<1> HIDE DEF v
<1>6. CatTypeOK'
  BY <1>2, <1>5 DEF CatTypeOK, Turns
<1>7. StampOK' /\ CacheOK'
  BY <1>2, <1>4, <1>5 DEF StampOK, CacheOK, Turns
<1>8. ParseOK'
  <2>1. Parsed(v)
    BY <1>4 DEF Parsed, Parsing
  <2> QED
    BY <1>2, <1>5, <2>1 DEF ParseOK, Parsed, Turns
<1>9. NumberOK'
  <2>1. Numbered(v)
    BY <1>1, <1>4 DEF Numbered, NumberOK
  <2> QED
    BY <1>2, <1>5, <2>1 DEF NumberOK, Numbered, Turns
<1>10. NewestOK'
  <2> SUFFICES ASSUME newest # 0, Clean, reads'[newest].at # "none"
               PROVE  Knows(reads[newest])'
    BY <1>2, <1>5 DEF NewestOK, Turns, Clean
  <2>1. CASE r = newest
    <3>1. Knows(o)
      BY <1>1, <2>1 DEF NewestOK
    <3>2. reads'[newest] = v /\ newest' = newest
      BY <1>5, <2>1 DEF Turns
    <3>3. watched => followed' = Files \cup IF o.depends THEN {Config} ELSE {}
      BY <1>3, <2>1
    <3> QED
      BY <1>1, <1>2, <1>4, <3>1, <3>2, <3>3 DEF Knows, Parsing, Listed, JobGood
  <2>2. CASE r # newest
    <3>1. reads'[newest] = reads[newest] /\ newest' = newest /\ followed' = followed
      BY <1>3, <1>5, <2>2, NewestThere DEF Turns
    <3> QED
      BY <1>2, <3>1 DEF NewestOK, Knows, Listed, JobGood
  <2> QED
    BY <2>1, <2>2
<1>11. RestOK'
  <2>1. newest # 0 /\ reads'[newest].at = "none" => reads[newest].at = "none" /\ followed' = followed
    BY <1>3, <1>4, <1>5, NewestThere DEF Turns
  <2> QED
    BY <1>2, <1>5, <2>1 DEF RestOK, Shows, Listed, JobGood, Turns, Clean
<1> QED
  BY <1>6, <1>7, <1>8, <1>9, <1>10, <1>11

\* The newest read's rows become the list, and the timer rests on them or runs.
LEMMA ShowKeeps == ASSUME CatInv, NEW r \in DOMAIN reads, Show(r) PROVE CatInv'
<1> DEFINE o == reads[r]
           shown == [f \in DOMAIN o.rows |-> [good |-> o.rows[f].good, raced |-> o.rows[f].raced, number |-> o.ids[f], marked |-> FALSE]]
<1> USE DEF CatInv
<1>1. o \in Reads /\ o.at = "show"
  BY ReadThere DEF Show, ReadAt
<1>2. /\ reads' = [reads EXCEPT ![r] = NoRead]
      /\ IF r = newest THEN timer' = ~MayRest(r) /\ list' = shown ELSE UNCHANGED <<timer, list>>
      /\ UNCHANGED <<disk, cache, numbers, counter, pause, followed, fileEdits, missed>>
  BY DEF Show, IsNewest
<1>3. Turns(r, NoRead)
  BY <1>2, NoReadShape, ReadTurns
<1>4. /\ DOMAIN o.ids = DOMAIN o.rows /\ \A f \in DOMAIN o.rows : o.ids[f] = numbers[f] /\ numbers[f] # 0
  BY <1>1 DEF NumberOK, Numbered
<1>5. DOMAIN o.rows \subseteq Files /\ \A f \in DOMAIN o.rows : o.rows[f] \in CatRows /\ numbers[f] \in Nat
  BY <1>1, ReadShape, Shapes
<1>6. shown \in Lists
  <2>1. \A f \in DOMAIN o.rows : shown[f] \in ListRows
    BY <1>4, <1>5 DEF CatRows, ListRows
  <2> QED
    BY <1>5, <2>1, MapShape
<1>7. CatTypeOK'
  BY <1>2, <1>3, <1>6 DEF CatTypeOK, Turns, MayRest
<1>8. StampOK' /\ CacheOK'
  BY <1>2, <1>3, NoReadShape, Shapes DEF StampOK, CacheOK, Turns
<1>9. ParseOK'
  BY <1>2, <1>3, NoReadShape DEF ParseOK, Parsed, Parsing, Turns
<1>10. NumberOK'
  <2>1. \A f \in DOMAIN list' : list'[f].number = numbers[f] /\ numbers[f] # 0
    BY <1>2, <1>4 DEF NumberOK
  <2> QED
    BY <1>2, <1>3, <2>1, NoReadShape DEF NumberOK, Numbered, Turns
<1>11. NewestOK'
  <2> SUFFICES ASSUME newest # 0, Clean, reads'[newest].at # "none"
               PROVE  Knows(reads[newest])'
    BY <1>2, <1>3 DEF NewestOK, Turns, Clean
  <2>1. reads'[newest] = reads[newest] /\ newest' = newest
    BY <1>3, NewestThere, NoReadShape DEF Turns
  <2> QED
    BY <1>2, <2>1 DEF NewestOK, Knows, Listed, JobGood
<1>12. RestOK'
  <2>1. newest # 0
    BY NewestThere
  <2> SUFFICES ASSUME Clean, reads'[newest].at = "none", ~timer'
               PROVE  Shows'
    BY <1>2, <1>3, <2>1 DEF RestOK, Turns, Clean
  <2>2. CASE r = newest
    <3>1. Knows(o)
      BY <1>1, <2>1, <2>2 DEF NewestOK
    <3>2. MayRest(r) /\ list' = shown
      BY <1>2, <2>2 DEF MayRest
    <3>3. DOMAIN o.rows = Listed /\ followed = Files \cup IF o.depends THEN {Config} ELSE {}
      BY <1>1, <3>1, <3>2 DEF Knows, Parsing, MayRest
    <3>4. \A f \in DOMAIN o.rows : o.rows[f].good /\ (o.rows[f].raced \/ JobGood(f))
      BY <3>1, <3>2 DEF Knows, MayRest
    <3>5. DOMAIN o.rows # {} => o.depends
      BY <1>1, <3>1, <3>4 DEF Knows
    <3>6. DOMAIN shown = DOMAIN o.rows /\ \A f \in DOMAIN o.rows : shown[f].good = o.rows[f].good /\ shown[f].raced = o.rows[f].raced
      OBVIOUS
    <3> HIDE DEF shown
    <3> QED
      BY <1>2, <3>2, <3>3, <3>4, <3>5, <3>6 DEF Shows, Listed, JobGood
  <2>3. CASE r # newest
    <3>1. reads'[newest] = reads[newest]
      BY <1>3, <2>1, <2>3, NewestThere DEF Turns
    <3> QED
      BY <1>2, <2>1, <2>3, <3>1 DEF RestOK, Shows, Listed, JobGood
  <2> QED
    BY <2>2, <2>3
<1> QED
  BY <1>7, <1>8, <1>9, <1>10, <1>11, <1>12

\* What no action of a submission but its end touches.
Untouched == UNCHANGED <<disk, cache, numbers, counter, reads, timer, pause, followed, fileEdits, missed>>

\* A list with rows marked invalid by hand is as good.
LEMMA UntouchedKeeps ==
  ASSUME CatInv, Untouched, list' \in Lists, DOMAIN list' = DOMAIN list,
         \A f \in DOMAIN list : list'[f].number = list[f].number /\ (list'[f] = list[f] \/ list'[f].marked)
  PROVE  CatInv'
<1> USE DEF CatInv
<1>1. CatTypeOK'
  BY DEF Untouched, CatTypeOK
<1>2. StampOK' /\ CacheOK'
  BY DEF Untouched, StampOK, CacheOK
<1>3. ParseOK'
  BY DEF Untouched, ParseOK, Parsed
<1>4. NumberOK'
  BY DEF Untouched, NumberOK, Numbered
<1>5. NewestOK'
  BY DEF Untouched, NewestOK, Knows, Listed, JobGood, newest, Clean
<1>6. RestOK'
  BY DEF Untouched, RestOK, Shows, Listed, JobGood, newest, Clean
<1> QED
  BY <1>1, <1>2, <1>3, <1>4, <1>5, <1>6

\* A submission only marks its row.
LEMMA SubmissionKeeps == ASSUME CatInv, Submit \/ CheckParse \/ CheckEnds PROVE CatInv'
<1> DEFINE f == submitting.file
           marked == IF f \in DOMAIN list THEN [list EXCEPT ![f].good = FALSE, ![f].marked = TRUE] ELSE list
<1>1. Untouched
  BY DEF Untouched, Submit, CheckParse, CheckEnds
<1>2. list' = list \/ list' = marked
  BY DEF Submit, CheckParse, CheckEnds
<1>3. list \in Lists /\ DOMAIN list \subseteq Files /\ list \in [DOMAIN list -> ListRows]
  BY MapShape DEF CatInv, CatTypeOK
<1>4. /\ marked \in Lists /\ DOMAIN marked = DOMAIN list
      /\ \A g \in DOMAIN list : marked[g].number = list[g].number /\ (marked[g] = list[g] \/ marked[g].marked)
  <2>1. CASE f \in DOMAIN list
    <3>1. /\ marked \in [DOMAIN list -> ListRows] /\ marked[f].number = list[f].number /\ marked[f].marked
          /\ \A g \in DOMAIN list : g # f => marked[g] = list[g]
      BY <1>3, <2>1 DEF ListRows
    <3> HIDE DEF marked
    <3>2. marked \in Lists
      BY <1>3, <3>1, MapShape
    <3> QED
      BY <3>1, <3>2
  <2>2. CASE f \notin DOMAIN list
    BY <1>3, <2>2
  <2> QED
    BY <2>1, <2>2
<1> HIDE DEF marked
<1> QED
  BY <1>1, <1>2, <1>3, <1>4, UntouchedKeeps

\* The invariant holds at first, and after every step.
LEMMA CatInvInit == CatalogInit => CatInv
<1> SUFFICES ASSUME CatalogInit PROVE CatInv
  OBVIOUS
<1>1. newest = 0 /\ DOMAIN reads = {} /\ reads \in Seq(Reads)
  BY DEF CatalogInit, newest
<1>2. list \in Lists /\ DOMAIN list = {}
  BY DEF CatalogInit, Lists
<1>3. NoEntry \in Entries /\ NoEntry.own = 0 /\ NoEntry.dep = 0 /\ ~NoEntry.good
  BY DEF NoEntry, Entries
<1>4. /\ cache \in [Files -> Entries] /\ \A f \in Files : cache[f] = NoEntry
  BY <1>3 DEF CatalogInit
<1>5. /\ disk \in [Files \cup {Config} -> [stamp : Nat, good : BOOLEAN]]
      /\ \A x \in Files \cup {Config} : disk[x].stamp <= 1 /\ (disk[x].good => disk[x].stamp # 0)
  <2> DEFINE S == {Config, Min(Files)}
  <2>1. disk = [x \in Files \cup {Config} |-> [stamp |-> IF x \in S THEN 1 ELSE 0, good |-> x \in S]]
    BY DEF CatalogInit
  <2> HIDE DEF S
  <2>2. \A x \in Files \cup {Config} : disk[x] = [stamp |-> IF x \in S THEN 1 ELSE 0, good |-> x \in S]
    BY <2>1
  <2>3. \A x \in Files \cup {Config} : disk[x] \in [stamp : Nat, good : BOOLEAN] /\ disk[x].stamp <= 1 /\ (disk[x].good => disk[x].stamp # 0)
    <3> SUFFICES ASSUME NEW x \in Files \cup {Config}
                 PROVE  disk[x] \in [stamp : Nat, good : BOOLEAN] /\ disk[x].stamp <= 1 /\ (disk[x].good => disk[x].stamp # 0)
      OBVIOUS
    <3> DEFINE s == IF x \in S THEN 1 ELSE 0
               b == x \in S
    <3>1. s \in Nat /\ s <= 1 /\ b \in BOOLEAN /\ (b => s # 0)
      OBVIOUS
    <3>2. disk[x] = [stamp |-> s, good |-> b]
      BY <2>2
    <3> HIDE DEF s, b
    <3> QED
      BY <3>1, <3>2
  <2> QED
    BY <2>1, <2>3
<1>6. numbers \in [Files -> Nat] /\ (\A f \in Files : numbers[f] = 0) /\ counter = 0 /\ timer /\ fileEdits = 0
  BY DEF CatalogInit
<1>7. CatTypeOK
  <2>1. timer \in BOOLEAN /\ pause \in BOOLEAN /\ missed \in BOOLEAN
    BY DEF CatalogInit
  <2> QED
    BY <1>1, <1>2, <1>4, <1>5, <1>6, <2>1 DEF CatTypeOK
<1>8. StampOK
  BY <1>1, <1>3, <1>4, <1>5, <1>6 DEF StampOK
<1>9. CacheOK /\ ParseOK
  BY <1>1, <1>3, <1>4 DEF CacheOK, ParseOK
<1>10. NumberOK
  BY <1>1, <1>2, <1>6 DEF NumberOK
<1>11. NewestOK /\ RestOK
  BY <1>1, <1>6 DEF NewestOK, RestOK
<1> QED
  BY <1>7, <1>8, <1>9, <1>10, <1>11 DEF CatInv

LEMMA CatInvNext == CatInv /\ [CatalogNext]_catalogVars => CatInv'
<1> SUFFICES ASSUME CatInv, [CatalogNext]_catalogVars PROVE CatInv'
  OBVIOUS
<1>1. ASSUME NEW f \in Files \cup {Config}, Edit(f) PROVE CatInv'
  BY <1>1, EditKeeps
<1>2. CASE Load
  BY <1>2, LoadKeeps
<1>3. ASSUME NEW r \in DOMAIN reads, ReadStep(r) PROVE CatInv'
  BY <1>3, ListFilesKeeps, JobRowKeeps, ReadJobTextKeeps, ReadConfigKeeps, KeepKeeps, ForgetKeeps, AssignKeeps, FollowKeeps, ShowKeeps
     DEF ReadStep
<1>4. CASE Submit \/ CheckParse \/ CheckEnds
  BY <1>4, SubmissionKeeps
<1>5. CASE UNCHANGED catalogVars
  <2>1. Untouched /\ list' = list
    BY <1>5 DEF catalogVars, Untouched
  <2> QED
    BY <2>1, UntouchedKeeps DEF CatInv, CatTypeOK
<1> QED
  BY <1>1, <1>2, <1>3, <1>4, <1>5 DEF CatalogNext

\* The invariant of the catalog, for any files, words and number of overlapping reads.
THEOREM CatInvThm == CatalogSpec => []CatInv
BY CatInvInit, CatInvNext, PTL DEF CatalogSpec

\* For any files and any number of overlapping reads and edits: a list at rest shows every job file, each valid exactly when it
\* is, with the exceptions the property names.
THEOREM RestingListIsTrueThm == CatalogSpec => []RestingListIsTrue
<1>1. CatInv => RestingListIsTrue
  <2> SUFFICES ASSUME CatInv, AtRest, ~missed
               PROVE  /\ DOMAIN list = Listed
                      /\ \A f \in Listed : ~list[f].raced /\ ~list[f].marked => list[f].good = JobGood(f)
    BY DEF RestingListIsTrue
  <2>1. newest # 0
    BY DEF AtRest, CatInv, RestOK
  <2>2. reads[newest].at = "none"
    BY <2>1, NewestThere DEF AtRest, ReadAt, CatInv
  <2>3. Shows
    BY <2>1, <2>2 DEF CatInv, RestOK, Clean, AtRest
  <2>4. \A f \in DOMAIN list : list[f].good \in BOOLEAN /\ list[f].marked \in BOOLEAN
    BY MapShape DEF CatInv, CatTypeOK, ListRows
  <2>5. \A f \in Files : JobGood(f) \in BOOLEAN
    BY DEF JobGood
  <2> QED
    BY <2>3, <2>4, <2>5 DEF Shows
<1> QED
  BY <1>1, CatInvThm, PTL

\* For any files and words: a job ID names one file for good, whichever listings give numbers at once, and no word finds a file
\* other than the one it names.
THEOREM NamesHoldThm == CatalogSpec => []NamesHold
<1>1. CatInv => NamesHold
  <2> SUFFICES ASSUME CatInv PROVE NamesHold
    OBVIOUS
  <2>1. IdsArePermanent
    BY DEF CatInv, NumberOK, IdsArePermanent
  <2>2. DOMAIN list \subseteq Files
    BY MapShape DEF CatInv, CatTypeOK
  <2>3. ASSUME NEW w \in Words, NEW f \in Find(w, list), NEW g \in Listed,
               g \in FindFile(w) \/ (WordNumber[w] # 0 /\ numbers[g] = WordNumber[w])
        PROVE  g = f
    <3> DEFINE byFile == FindFile(w)
               byId == IF WordNumber[w] = 0 THEN {} ELSE FindId(w, list)
    <3>1. byFile \subseteq Files /\ IsFiniteSet(byFile) /\ Cardinality(byFile) \in Nat
      <4>1. byFile \subseteq Files
        BY CatalogAssumption DEF FindFile, Listed
      <4> HIDE DEF byFile
      <4> QED
        BY <4>1, CatalogAssumption, FS_Subset, FS_CardinalityType
    <3>2. byId \subseteq Files /\ \A h \in byId : WordNumber[w] # 0 /\ numbers[h] = WordNumber[w]
      BY <2>1, <2>2 DEF FindId, Listed, IdsArePermanent
    <3>3. /\ ~(Cardinality(byFile) > 1)
          /\ byFile = {} => f \in byId
          /\ byFile # {} => f \in byFile /\ (byId # {} => byId = byFile)
      BY <2>3 DEF Find
    <3>4. WordNumber[w] # 0 /\ numbers[g] = WordNumber[w] => byId # {}
      BY <2>3 DEF FindId
    <3>5. g \in Files /\ (g \in byFile \/ (WordNumber[w] # 0 /\ numbers[g] = WordNumber[w]))
      BY <2>3 DEF Listed
    <3> HIDE DEF byFile, byId
    <3>6. CASE byFile = {}
      BY <2>1, <3>2, <3>3, <3>5, <3>6 DEF IdsArePermanent
    <3>7. CASE byFile # {}
      <4>1. Cardinality(byFile) = 1
        BY <3>1, <3>3, <3>7, FS_EmptySet
      <4>2. PICK x : byFile = {x}
        BY <3>1, <4>1, FS_Singleton
      <4>3. CASE g \in byFile
        BY <3>3, <3>7, <4>2, <4>3
      <4>4. CASE WordNumber[w] # 0 /\ numbers[g] = WordNumber[w]
        BY <2>1, <3>1, <3>2, <3>3, <3>4, <3>5, <3>7, <4>2, <4>4 DEF IdsArePermanent
      <4> QED
        BY <3>5, <4>3, <4>4
    <3> QED
      BY <3>6, <3>7
  <2> QED
    BY <2>1, <2>3 DEF NamesHold, WordNamesOneFile
<1> QED
  BY <1>1, CatInvThm, PTL

\* For any job files, words, edits and overlapping reads: the Jobs list at rest shows what is there, and every ID and word means
\* one job for good.
THEOREM CatalogTrueThm == CatalogSpec => []CatalogTrue
  BY RestingListIsTrueThm, NamesHoldThm, PTL DEF CatalogTrue

------------------------------------------------------------------------------
(* The watch of one entry: what a person or an agent is told while it waits.   *)

RowStates == {"queued", "running", "gone"} \cup Final
Snapshots ==
  [state : RowStates \cup {"none"}, execution : BOOLEAN, run : Nat, park : BOOLEAN, held : BOOLEAN, cooling : BOOLEAN, forecast : Nat]
Before == {"start", "detail", "open"}
Clients ==
  [who : {"cli", "agent"}, at : Before \cup {"watching", "answer", "done", "error"}, run : Nat, parking : BOOLEAN, held : BOOLEAN,
   read : Snapshots, previous : Snapshots]

WatchType ==
  /\ row \in [state : RowStates, execution : BOOLEAN]
  /\ worker \in [current : {"this", "other", "none"}, run : Nat, done : Nat, good : BOOLEAN, stop : BOOLEAN]
  /\ parking \in BOOLEAN
  /\ gate \in [held : BOOLEAN, cooling : BOOLEAN]
  /\ forecast \in Nat
  /\ poll \in [at : {"idle", "row", "current", "progress"}, snapshot : Snapshots, current : BOOLEAN]
  /\ sent \in Snapshots
  /\ wire \in Seq(Snapshots)
  /\ stream \in {"none", "open", "ended"}
  /\ client \in Clients
  /\ said \in [succeeded : SUBSET Nat, started : SUBSET Nat, runsOn : BOOLEAN, outcome : RowStates \cup {"none"}, changed : BOOLEAN]
  /\ past \in [withdrawn : BOOLEAN, crossed : BOOLEAN, moved : BOOLEAN]
  /\ acts \in Nat

\* The run of this entry that is under way, 0 when none is.
ThisRun == IF worker.current = "this" THEN worker.run ELSE 0
EntryOver == row.state \in Final \cup {"gone"}

WatchServer ==
  /\ parking => Running
  /\ Running => worker.current = "this"
  /\ worker.current = "none" => worker.run = 0
  /\ ThisRun # 0 => Running /\ worker.good /\ ThisRun = worker.done + 1
  /\ row.state \in {"succeeded", "parked"} => worker.good

WatchStream ==
  /\ client.at \in Before => stream = "none" /\ ~said.changed
  /\ client.at = "watching" => ~said.changed
  /\ stream = "none" => sent = NoSnapshot /\ wire = <<>> /\ poll = NoPoll
  /\ poll.at # "idle" => stream = "open"
  /\ poll.at \in {"idle", "row"} => poll.snapshot.state = "none"
  /\ poll.at \in {"current", "progress"} => poll.snapshot.state # "none"
  /\ poll.snapshot.run = 0
  /\ \A i \in DOMAIN wire : wire[i].state # "none"
  /\ client.who = "cli" => client.at \notin {"detail", "open", "answer"} /\ said.outcome \in Final \cup {"none"}

\* A run that was read under way is over, or is the one under way, or failed as the last one.
Seen(r) == r <= worker.done \/ (r = worker.done + 1 /\ (ThisRun = r \/ ~worker.good))

SnapshotTrue(s) ==
  /\ Seen(s.run)
  /\ s.state \in Final => row.state \in {s.state, "gone"}
  /\ s.state \in {"succeeded", "parked"} => worker.good

\* A reservation that was read stands, was withdrawn, or ended with the entry.
ParkSeen == past.withdrawn \/ parking \/ EntryOver
Parks(s) == s.state = "running" /\ s.park
RunsOn(s) == s.state = "running" /\ ~s.park

WatchRuns ==
  ~past.crossed =>
    /\ SnapshotTrue(poll.snapshot)
    /\ \A i \in DOMAIN wire : SnapshotTrue(wire[i])
    /\ \A i, j \in DOMAIN wire : i < j /\ wire[j].run # 0 => wire[i].run <= wire[j].run
    /\ client.who = "cli" =>
         /\ Seen(client.run)
         /\ \A j \in DOMAIN wire : wire[j].run # 0 => client.run <= wire[j].run

Heard == client.parking \/ \E i \in DOMAIN wire : Parks(wire[i])

WatchParks ==
  /\ Heard => ParkSeen
  /\ poll.snapshot.park => ParkSeen
  /\ Heard /\ poll.at = "row" /\ ~poll.snapshot.park => past.withdrawn \/ EntryOver
  /\ Heard /\ RunsOn(poll.snapshot) => past.withdrawn
  /\ \A j \in DOMAIN wire : client.parking /\ RunsOn(wire[j]) => past.withdrawn
  /\ \A i, j \in DOMAIN wire : i < j /\ Parks(wire[i]) /\ RunsOn(wire[j]) => past.withdrawn

\* What an agent read, or the watch sent, is what the server has.
SameWatch(s) ==
  /\ s.state = row.state /\ s.execution = row.execution /\ s.park = parking
  /\ s.held = gate.held /\ s.cooling = gate.cooling /\ s.run = ThisRun

WatchAgent ==
  client.who = "agent" =>
    /\ client.at = "detail" => client.read.state # "none"
    /\ client.at = "detail" /\ ~past.moved => client.read.state = row.state /\ client.read.execution = row.execution
    /\ client.at \in {"open", "watching"} => client.previous.state # "none"
    /\ client.at = "open" => client.previous = client.read
    /\ client.at = "watching" =>
         /\ wire # <<>> => sent = wire[Len(wire)]
         /\ wire = <<>> /\ sent # NoSnapshot => sent = client.previous
         /\ ActedOn(client.previous) = ActedOn(client.read)
         /\ client.read.run # 0 => client.previous.run = client.read.run
    /\ client.at \in {"open", "watching"} /\ ~past.moved =>
         /\ SameWatch(client.previous)
         /\ \A i \in DOMAIN wire : SameWatch(wire[i])
         /\ poll.at \in {"row", "current", "progress"} => poll.snapshot.park = parking
         /\ poll.at \in {"current", "progress"} => poll.snapshot.state = row.state /\ poll.snapshot.execution = row.execution
         /\ poll.at = "progress" => poll.current = (worker.current = "this")

WatchSaid == PrintedTrue /\ ChangedTrue

WatchInv == WatchType /\ WatchServer /\ WatchStream /\ WatchRuns /\ WatchParks /\ WatchAgent /\ WatchSaid

------------------------------------------------------------------------------

\* What a step of the server keeps, whoever watches.
ServerKeeps ==
  /\ worker.done <= worker.done'
  /\ \A r \in Nat : Seen(r) => Seen(r)'
  /\ EntryOver => EntryOver' /\ worker'.good = worker.good
  /\ Running => Running' \/ EntryOver'
  /\ \A state \in Final : row.state \in {state, "gone"} => row'.state \in {state, "gone"}

ServerTyped ==
  /\ row \in [state : RowStates, execution : BOOLEAN]
  /\ worker \in [current : {"this", "other", "none"}, run : Nat, done : Nat, good : BOOLEAN, stop : BOOLEAN]
  /\ parking \in BOOLEAN
  /\ gate \in [held : BOOLEAN, cooling : BOOLEAN]
  /\ forecast \in Nat
  /\ acts \in Nat

LEMMA CancelKeeps ==
  ASSUME WatchType, WatchServer, CancelEntry, acts' \in Nat
  PROVE  ServerTyped' /\ WatchServer' /\ ServerKeeps /\ (parking /\ ~parking' => ~Running')
<1> USE DEF WatchType, WatchServer, CancelEntry, Running, ThisRun, RowStates, Final
<1>1. ServerTyped'
  BY DEF ServerTyped
<1>2. WatchServer'
  OBVIOUS
<1>3. ServerKeeps
  BY DEF ServerKeeps, Seen, EntryOver
<1> QED
  BY <1>1, <1>2, <1>3

ServerActions ==
  \/ ClaimEntry \/ LinkExecution \/ StartRun \/ FinishRun \/ FinishEntry \/ ReleaseEntry \/ PublishForecast
  \/ OtherEntry \/ WaitBetweenJobs \/ Park \/ Unpark \/ HoldOrRelease \/ Cancel \/ PruneEntry

LEMMA ServerActionsKeep ==
  ASSUME WatchType, WatchServer, ServerActions
  PROVE  ServerTyped' /\ WatchServer' /\ ServerKeeps
<1>0. CASE Cancel
  <2>1. CancelEntry /\ acts' \in Nat
    BY <1>0 DEF Cancel, Acts, WatchType
  <2> QED
    BY <2>1, CancelKeeps
<1> USE DEF WatchType, WatchServer, Running, ThisRun, RowStates, Final
<1>1. CASE ClaimEntry
  <2> USE <1>1 DEF ClaimEntry
  <2>1. ServerTyped'
    BY DEF ServerTyped
  <2>2. WatchServer'
    OBVIOUS
  <2>3. ServerKeeps
    BY DEF ServerKeeps, Seen, EntryOver
  <2> QED
    BY <2>1, <2>2, <2>3
<1>2. CASE LinkExecution
  <2> USE <1>2 DEF LinkExecution
  <2>1. ServerTyped'
    BY DEF ServerTyped
  <2>2. WatchServer'
    OBVIOUS
  <2>3. ServerKeeps
    BY DEF ServerKeeps, Seen, EntryOver
  <2> QED
    BY <2>1, <2>2, <2>3
<1>3. CASE StartRun
  BY <1>3, WatchConstants DEF StartRun, ServerTyped, ServerKeeps, Seen, EntryOver
<1>4. CASE FinishRun
  <2>0. PICK ok \in BOOLEAN :
          worker' = [worker EXCEPT !.run = 0, !.done = IF ok THEN @ + 1 ELSE @, !.good = ok]
    BY <1>4 DEF FinishRun
  <2> USE <1>4, <2>0 DEF FinishRun
  <2>1. ServerTyped'
    <3>1. row' \in [state : RowStates, execution : BOOLEAN]
      OBVIOUS
    <3>2. worker' \in [current : {"this", "other", "none"}, run : Nat, done : Nat, good : BOOLEAN, stop : BOOLEAN]
      OBVIOUS
    <3>3. gate' \in [held : BOOLEAN, cooling : BOOLEAN]
      OBVIOUS
    <3>4. parking' \in BOOLEAN /\ forecast' \in Nat /\ acts' \in Nat
      OBVIOUS
    <3> QED
      BY <3>1, <3>2, <3>3, <3>4 DEF ServerTyped
  <2>2. WatchServer'
    OBVIOUS
  <2>3. ServerKeeps
    BY DEF ServerKeeps, Seen, EntryOver
  <2> QED
    BY <2>1, <2>2, <2>3
<1>5. CASE FinishEntry
  <2>1. PICK state \in Outcomes, linked \in {row.execution, FALSE} : row' = [state |-> state, execution |-> linked]
    BY <1>5 DEF FinishEntry
  <2>2. state \in Final /\ (state \in {"succeeded", "parked"} => worker.good)
    BY DEF Outcomes
  <2> QED
    <3> USE <1>5, <2>1, <2>2 DEF FinishEntry
    <3>1. ServerTyped'
      BY DEF ServerTyped
    <3>2. WatchServer'
      OBVIOUS
    <3>3. ServerKeeps
      BY DEF ServerKeeps, Seen, EntryOver
    <3> QED
      BY <3>1, <3>2, <3>3
<1>6. CASE ReleaseEntry
  BY <1>6 DEF ReleaseEntry, ServerTyped, ServerKeeps, Seen, EntryOver
<1>7. CASE PublishForecast
  BY <1>7 DEF PublishForecast, Acts, ServerTyped, ServerKeeps, Seen, EntryOver
<1>8. CASE OtherEntry
  <2>1. /\ worker' \in [current : {"this", "other", "none"}, run : Nat, done : Nat, good : BOOLEAN, stop : BOOLEAN]
        /\ worker'.done = worker.done /\ worker'.good = worker.good
        /\ worker.current # "this" /\ worker'.current # "this"
        /\ worker'.current = "none" => worker'.run = 0
    <3>1. CASE worker' = [worker EXCEPT !.current = "other"] /\ worker.current = "none"
      BY <3>1
    <3>2. CASE worker' = [worker EXCEPT !.run = 1] /\ worker.current = "other"
      BY <3>2
    <3>3. CASE worker' = [worker EXCEPT !.current = "none", !.run = 0] /\ worker.current = "other"
      BY <3>3
    <3> QED
      BY <1>8, <3>1, <3>2, <3>3 DEF OtherEntry
  <2>2. /\ UNCHANGED <<row, parking, forecast>>
        /\ gate' = [gate EXCEPT !.cooling = FALSE]
        /\ acts' \in Nat
    BY <1>8 DEF OtherEntry, Acts
  <2>3. ServerTyped'
    BY <2>1, <2>2 DEF ServerTyped
  <2>4. WatchServer'
    BY <2>1, <2>2
  <2>5. ServerKeeps
    BY <2>1, <2>2 DEF ServerKeeps, Seen, EntryOver
  <2> QED
    BY <2>3, <2>4, <2>5
<1>9. CASE WaitBetweenJobs
  <2> USE <1>9 DEF WaitBetweenJobs, Acts
  <2>1. ServerTyped'
    <3>1. row' \in [state : RowStates, execution : BOOLEAN]
      OBVIOUS
    <3>2. worker' \in [current : {"this", "other", "none"}, run : Nat, done : Nat, good : BOOLEAN, stop : BOOLEAN]
      OBVIOUS
    <3>3. gate' \in [held : BOOLEAN, cooling : BOOLEAN]
      OBVIOUS
    <3>4. parking' \in BOOLEAN /\ forecast' \in Nat /\ acts' \in Nat
      OBVIOUS
    <3> QED
      BY <3>1, <3>2, <3>3, <3>4 DEF ServerTyped
  <2>2. WatchServer'
    OBVIOUS
  <2>3. ServerKeeps
    BY DEF ServerKeeps, Seen, EntryOver
  <2> QED
    BY <2>1, <2>2, <2>3
<1>10. CASE Park
  <2> USE <1>10 DEF Park, Acts
  <2>1. ServerTyped'
    <3>1. row' \in [state : RowStates, execution : BOOLEAN]
      OBVIOUS
    <3>2. worker' \in [current : {"this", "other", "none"}, run : Nat, done : Nat, good : BOOLEAN, stop : BOOLEAN]
      OBVIOUS
    <3>3. gate' \in [held : BOOLEAN, cooling : BOOLEAN]
      OBVIOUS
    <3>4. parking' \in BOOLEAN /\ forecast' \in Nat /\ acts' \in Nat
      OBVIOUS
    <3> QED
      BY <3>1, <3>2, <3>3, <3>4 DEF ServerTyped
  <2>2. WatchServer'
    OBVIOUS
  <2>3. ServerKeeps
    BY DEF ServerKeeps, Seen, EntryOver
  <2> QED
    BY <2>1, <2>2, <2>3
<1>11. CASE Unpark
  <2> USE <1>11 DEF Unpark, Acts
  <2>1. ServerTyped'
    <3>1. row' \in [state : RowStates, execution : BOOLEAN]
      OBVIOUS
    <3>2. worker' \in [current : {"this", "other", "none"}, run : Nat, done : Nat, good : BOOLEAN, stop : BOOLEAN]
      OBVIOUS
    <3>3. gate' \in [held : BOOLEAN, cooling : BOOLEAN]
      OBVIOUS
    <3>4. parking' \in BOOLEAN /\ forecast' \in Nat /\ acts' \in Nat
      <4>1. parking' \in BOOLEAN
        BY ONLY <1>11 DEF Unpark
      <4>2. forecast' \in Nat /\ acts' \in Nat
        BY <1>11 DEF Unpark, Acts
      <4> QED
        BY <4>1, <4>2
    <3> QED
      BY <3>1, <3>2, <3>3, <3>4 DEF ServerTyped
  <2>2. WatchServer'
    OBVIOUS
  <2>3. ServerKeeps
    BY DEF ServerKeeps, Seen, EntryOver
  <2> QED
    BY <2>1, <2>2, <2>3
<1>12. CASE HoldOrRelease
  BY <1>12 DEF HoldOrRelease, Acts, ServerTyped, ServerKeeps, Seen, EntryOver
<1>5a. CASE PruneEntry
  BY <1>5a DEF PruneEntry, ServerTyped, ServerKeeps, Seen, EntryOver
<1> QED
  BY <1>0, <1>1, <1>2, <1>3, <1>4, <1>5, <1>6, <1>7, <1>8, <1>9, <1>10, <1>11, <1>12, <1>5a DEF ServerActions

\* The server's steps disturb no fact about what was read.
LEMMA ServerStepKeeps ==
  ASSUME WatchInv, ServerStep
  PROVE  WatchInv'
<1> USE DEF WatchInv
<1>1. ServerTyped' /\ WatchServer' /\ ServerKeeps
  BY ServerActionsKeep DEF ServerStep, ServerActions
<1>2. UNCHANGED <<poll, sent, wire, stream, client, said>>
  BY DEF ServerStep
<1>3. /\ past' \in [withdrawn : BOOLEAN, crossed : BOOLEAN, moved : BOOLEAN]
      /\ past'.crossed = past.crossed
      /\ past.withdrawn => past'.withdrawn
      /\ parking /\ ~parking' /\ Running' => past'.withdrawn
      /\ past.moved => past'.moved
      /\ client.who = "agent" /\ ~past'.moved =>
           /\ row' = row /\ worker'.current = worker.current /\ worker'.run = worker.run
           /\ parking' = parking /\ gate' = gate
  BY DEF ServerStep, WatchType
<1>4. WatchType'
  BY <1>1, <1>2, <1>3 DEF WatchType, ServerTyped
<1>5. WatchStream'
  BY <1>2 DEF WatchStream
<1>6. \A s \in Snapshots : SnapshotTrue(s) => SnapshotTrue(s)'
  <2> TAKE s \in Snapshots
  <2>1. s.run \in Nat
    BY DEF Snapshots
  <2>2. Seen(s.run) => Seen(s.run)'
    BY <1>1, <2>1 DEF ServerKeeps
  <2>3. s.state \in Final /\ row.state \in {s.state, "gone"} => row'.state \in {s.state, "gone"}
    BY <1>1 DEF ServerKeeps
  <2>4. s.state \in {"succeeded", "parked"} /\ worker.good /\ row.state \in {s.state, "gone"} => worker'.good
    BY <1>1 DEF ServerKeeps, EntryOver, Final, WatchType
  <2> QED
    BY <2>2, <2>3, <2>4 DEF SnapshotTrue, Final
<1>7. WatchRuns'
  <2>1. poll.snapshot \in Snapshots /\ client.run \in Nat /\ \A i \in DOMAIN wire : wire[i] \in Snapshots
    BY DEF WatchType, Clients
  <2>2. Seen(client.run) => Seen(client.run)'
    BY <1>1, <1>2, <2>1 DEF ServerKeeps, Seen, ThisRun
  <2> QED
    BY <1>2, <1>3, <1>6, <2>1, <2>2 DEF WatchRuns, SnapshotTrue, Seen
<1>8. WatchParks'
  <2>1. ParkSeen => ParkSeen'
    <3>1. CASE past.withdrawn \/ EntryOver
      BY <1>1, <1>3, <3>1 DEF ParkSeen, ServerKeeps
    <3>2. CASE parking /\ ~parking'
      <4>1. Running' \/ EntryOver'
        BY <1>1, <3>2 DEF ServerKeeps, WatchServer
      <4> QED
        BY <1>3, <3>2, <4>1 DEF ParkSeen
    <3>3. CASE parking'
      BY <3>3 DEF ParkSeen
    <3> QED
      BY <3>1, <3>2, <3>3 DEF ParkSeen
  <2>2. past.withdrawn \/ EntryOver => past'.withdrawn \/ EntryOver'
    BY <1>1, <1>3 DEF ServerKeeps
  <2> QED
    BY <1>2, <1>3, <2>1, <2>2 DEF WatchParks, Heard, Parks, RunsOn
<1>9. WatchAgent'
  BY <1>2, <1>3 DEF WatchAgent, SameWatch, ThisRun, ActedOn
<1>10. WatchSaid'
  BY <1>1, <1>2, <1>3 DEF WatchSaid, PrintedTrue, ChangedTrue, ServerKeeps, WatchType, WatchStream, ServerTyped
<1> QED
  BY <1>1, <1>4, <1>5, <1>7, <1>8, <1>9, <1>10

LEMMA WireGrows ==
  ASSUME NEW S, NEW w \in Seq(S), NEW s \in S
  PROVE  /\ Append(w, s) \in Seq(S) /\ Append(w, s) # <<>>
         /\ Len(w) \in Nat /\ Len(Append(w, s)) = Len(w) + 1
         /\ DOMAIN w = 1 .. Len(w) /\ DOMAIN Append(w, s) = 1 .. Len(w) + 1
         /\ \A i \in 1 .. Len(w) : Append(w, s)[i] = w[i]
         /\ Append(w, s)[Len(w) + 1] = s
OBVIOUS

LEMMA WireShrinks ==
  ASSUME NEW S, NEW w \in Seq(S), w # <<>>
  PROVE  /\ Head(w) = w[1] /\ w[1] \in S /\ Tail(w) \in Seq(S)
         /\ Len(w) \in Nat \ {0} /\ Len(Tail(w)) = Len(w) - 1
         /\ DOMAIN w = 1 .. Len(w) /\ DOMAIN Tail(w) = 1 .. Len(w) - 1
         /\ \A i \in 1 .. Len(w) - 1 : Tail(w)[i] = w[i + 1]
         /\ Tail(w) = <<>> => Len(w) = 1
<1>1. Len(w) \in Nat \ {0} /\ DOMAIN w = 1 .. Len(w) /\ Head(w) = w[1] /\ w[1] \in S
  OBVIOUS
<1>2. Tail(w) \in Seq(S) /\ Len(Tail(w)) = Len(w) - 1
  OBVIOUS
<1>3. DOMAIN Tail(w) = 1 .. Len(w) - 1
  BY <1>2
<1>4. \A i \in 1 .. Len(w) - 1 : Tail(w)[i] = w[i + 1]
  BY <1>1, <1>2
<1>5. Tail(w) = <<>> => Len(w) = 1
  <2>1. Tail(w) = <<>> <=> Len(Tail(w)) = 0
    BY <1>2, EmptySeq
  <2> QED
    BY <1>1, <1>2, <2>1
<1> QED
  BY <1>1, <1>2, <1>3, <1>4, <1>5

LEMMA NoWire ==
  /\ NoSnapshot \in Snapshots
  /\ NoPoll \in [at : {"idle", "row", "current", "progress"}, snapshot : Snapshots, current : BOOLEAN]
  /\ NoPoll.at = "idle" /\ NoPoll.snapshot = NoSnapshot /\ NoSnapshot.state = "none" /\ NoSnapshot.run = 0 /\ ~NoSnapshot.park
  /\ <<>> \in Seq(Snapshots) /\ DOMAIN <<>> = {}
BY DEF NoSnapshot, NoPoll, Snapshots

------------------------------------------------------------------------------
(* A snapshot is read piece by piece.                                          *)

LEMMA SeenZero ==
  ASSUME WatchType
  PROVE  Seen(0) /\ SnapshotTrue(NoSnapshot)
BY NoWire DEF WatchType, Seen, SnapshotTrue, NoSnapshot, Final

LEMMA ReadReservationKeeps ==
  ASSUME WatchInv, ReadReservation
  PROVE  WatchInv'
<1> USE DEF WatchInv
<1>1. /\ UNCHANGED <<row, worker, parking, gate, forecast, client, said, acts, sent, wire, stream, past>>
      /\ stream = "open"
      /\ poll' = [at |-> "row", snapshot |-> [NoSnapshot EXCEPT !.park = parking], current |-> FALSE]
  BY DEF ReadReservation, PollUnchanged, NoPoll, ReadPart
<1>2. /\ poll'.at = "row" /\ poll'.snapshot \in Snapshots
      /\ poll'.snapshot.state = "none" /\ poll'.snapshot.run = 0 /\ poll'.snapshot.park = parking
  BY <1>1, NoWire DEF NoSnapshot, Snapshots, WatchType
<1>3. WatchType'
  BY <1>1, <1>2 DEF WatchType
<1>4. WatchServer'
  BY <1>1 DEF WatchServer, ThisRun, Running
<1>5. WatchStream'
  BY <1>1, <1>2 DEF WatchStream
<1>6. WatchRuns'
  <2>1. SnapshotTrue(poll.snapshot)'
    BY <1>1, <1>2, SeenZero DEF SnapshotTrue, Seen, ThisRun, Final
  <2> QED
    BY <1>1, <2>1 DEF WatchRuns, SnapshotTrue, Seen, ThisRun
<1>7. WatchParks'
  BY <1>1, <1>2 DEF WatchParks, Heard, Parks, RunsOn, ParkSeen, EntryOver
<1>8. WatchAgent'
  BY <1>1, <1>2 DEF WatchAgent, SameWatch, ThisRun, ActedOn
<1>9. WatchSaid'
  BY <1>1 DEF WatchSaid, PrintedTrue, ChangedTrue
<1> QED
  BY <1>3, <1>4, <1>5, <1>6, <1>7, <1>8, <1>9

LEMMA ReadRowKeeps ==
  ASSUME WatchInv, ReadRow, row.state # "gone"
  PROVE  WatchInv'
<1> USE DEF WatchInv
<1>1. /\ UNCHANGED <<row, worker, parking, gate, forecast, client, said, acts, sent, wire, stream, past>>
      /\ poll.at = "row"
      /\ poll' = [poll EXCEPT !.at = "current",
                              !.snapshot = [poll.snapshot EXCEPT !.state = row.state, !.execution = row.execution]]
  BY DEF ReadRow, PollUnchanged, ReadPart
<1>2. /\ poll'.at = "current" /\ poll'.snapshot \in Snapshots
      /\ poll'.snapshot.state = row.state /\ poll'.snapshot.execution = row.execution
      /\ poll'.snapshot.run = poll.snapshot.run /\ poll'.snapshot.park = poll.snapshot.park
  BY <1>1 DEF Snapshots, WatchType
<1>3. WatchType'
  <2>1. poll' \in [at : {"idle", "row", "current", "progress"}, snapshot : Snapshots, current : BOOLEAN]
    BY <1>1, <1>2 DEF WatchType
  <2> QED
    BY <1>1, <2>1 DEF WatchType
<1>4. WatchServer'
  BY <1>1 DEF WatchServer, ThisRun, Running
<1>5. WatchStream'
  BY <1>1, <1>2 DEF WatchStream, WatchType, RowStates, Final
<1>6. WatchRuns'
  <2>1. SnapshotTrue(poll.snapshot)'
    BY <1>1, <1>2, SeenZero DEF SnapshotTrue, Seen, ThisRun, WatchServer, WatchStream
  <2> QED
    BY <1>1, <2>1 DEF WatchRuns, SnapshotTrue, Seen, ThisRun
<1>7. WatchParks'
  BY <1>1, <1>2 DEF WatchParks, Heard, Parks, RunsOn, ParkSeen, EntryOver, Final
<1>8. WatchAgent'
  BY <1>1, <1>2 DEF WatchAgent, SameWatch, ThisRun, ActedOn
<1>9. WatchSaid'
  BY <1>1 DEF WatchSaid, PrintedTrue, ChangedTrue
<1> QED
  BY <1>3, <1>4, <1>5, <1>6, <1>7, <1>8, <1>9

LEMMA ReadCurrentKeeps ==
  ASSUME WatchInv, ReadCurrent
  PROVE  WatchInv'
<1> USE DEF WatchInv
<1>1. /\ UNCHANGED <<row, worker, parking, gate, forecast, client, said, acts, sent, wire, stream, past>>
      /\ poll.at = "current"
      /\ poll' = [poll EXCEPT !.at = "progress", !.current = worker.current = "this"]
  BY DEF ReadCurrent, PollUnchanged
<1>2. poll'.at = "progress" /\ poll'.snapshot = poll.snapshot /\ poll'.current = (worker.current = "this")
  BY <1>1 DEF WatchType
<1>3. WatchType'
  <2>1. poll' \in [at : {"idle", "row", "current", "progress"}, snapshot : Snapshots, current : BOOLEAN]
    BY <1>1, <1>2 DEF WatchType
  <2> QED
    BY <1>1, <2>1 DEF WatchType
<1>4. WatchServer'
  BY <1>1 DEF WatchServer, ThisRun, Running
<1>5. WatchStream'
  BY <1>1, <1>2 DEF WatchStream
<1>6. WatchRuns'
  BY <1>1, <1>2 DEF WatchRuns, SnapshotTrue, Seen, ThisRun
<1>7. WatchParks'
  BY <1>1, <1>2 DEF WatchParks, Heard, Parks, RunsOn, ParkSeen, EntryOver
<1>8. WatchAgent'
  BY <1>1, <1>2 DEF WatchAgent, SameWatch, ThisRun, ActedOn
<1>9. WatchSaid'
  BY <1>1 DEF WatchSaid, PrintedTrue, ChangedTrue
<1> QED
  BY <1>3, <1>4, <1>5, <1>6, <1>7, <1>8, <1>9

\* The end of a read, with the snapshot sent when it is another than the last: the facts about it join those of the wire.
LEMMA ReadProgressKeeps ==
  ASSUME WatchInv, ReadProgress
  PROVE  WatchInv'
<1> USE DEF WatchInv
<1> DEFINE s == [poll.snapshot EXCEPT !.run = IF poll.current THEN worker.run ELSE 0, !.held = gate.held,
                                      !.cooling = gate.cooling, !.forecast = forecast]
<1>1. /\ UNCHANGED <<row, worker, parking, gate, forecast, client, said, acts, stream>>
      /\ poll.at = "progress" /\ poll' = NoPoll /\ sent' = s
      /\ wire' = IF sent # s THEN Append(wire, s) ELSE wire
      /\ past' = [past EXCEPT !.crossed = @ \/ (poll.current /\ worker.current = "other")]
  BY DEF ReadProgress, PollUnchanged, snapshot_changed
<1>2. /\ s \in Snapshots
      /\ s.state = poll.snapshot.state /\ s.execution = poll.snapshot.execution /\ s.park = poll.snapshot.park
      /\ s.held = gate.held /\ s.cooling = gate.cooling
      /\ s.run = IF poll.current THEN worker.run ELSE 0
  BY DEF Snapshots, WatchType
<1>3. /\ past' \in [withdrawn : BOOLEAN, crossed : BOOLEAN, moved : BOOLEAN]
      /\ past'.withdrawn = past.withdrawn /\ past'.moved = past.moved
      /\ ~past'.crossed => ~past.crossed /\ ~(poll.current /\ worker.current = "other")
  BY <1>1 DEF WatchType
<1>4. s.state # "none" /\ stream = "open"
  BY <1>1, <1>2 DEF WatchStream
<1> HIDE DEF s
<1>5. /\ Len(wire) \in Nat /\ DOMAIN wire = 1 .. Len(wire) /\ wire' \in Seq(Snapshots)
      /\ \A i \in DOMAIN wire : wire[i] \in Snapshots
      /\ \/ /\ sent # s
            /\ wire' # <<>> /\ Len(wire') = Len(wire) + 1 /\ DOMAIN wire' = 1 .. Len(wire) + 1
            /\ \A i \in 1 .. Len(wire) : wire'[i] = wire[i]
            /\ wire'[Len(wire) + 1] = s
         \/ wire' = wire /\ sent = s
  BY <1>1, <1>2, WireGrows DEF WatchType
<1>5a. \A i \in DOMAIN wire' : wire'[i] = s \/ (i \in DOMAIN wire /\ wire'[i] = wire[i])
  BY <1>5
<1>6. WatchType'
  <2>1. sent' \in Snapshots /\ poll' \in [at : {"idle", "row", "current", "progress"}, snapshot : Snapshots, current : BOOLEAN]
    BY <1>1, <1>2, NoWire
  <2> QED
    <3>1. UNCHANGED <<row, worker, parking, gate, forecast, client, said, acts, stream>>
      BY <1>1
    <3>2. wire' \in Seq(Snapshots) /\ past' \in [withdrawn : BOOLEAN, crossed : BOOLEAN, moved : BOOLEAN]
      BY <1>3, <1>5
    <3> QED
      BY <2>1, <3>1, <3>2 DEF WatchType
<1>7. WatchServer'
  BY <1>1 DEF WatchServer, ThisRun, Running
<1>8. WatchStream'
  BY <1>1, <1>4, <1>5a, NoWire DEF WatchStream
<1>9. WatchRuns'
  <2> SUFFICES ASSUME ~past'.crossed
               PROVE  WatchRuns'
    BY DEF WatchRuns
  <2>1. s.run = 0 \/ (s.run = ThisRun /\ s.run = worker.done + 1)
    BY <1>2, <1>3 DEF WatchType, WatchServer, ThisRun
  <2>2. Seen(s.run)
    BY <2>1, SeenZero DEF Seen, WatchType
  <2>3. SnapshotTrue(s)
    BY <1>2, <1>3, <2>2 DEF WatchRuns, SnapshotTrue
  <2>4. \A r \in Nat : Seen(r) /\ s.run # 0 => r <= s.run
    BY <2>1 DEF Seen, WatchType
  <2>5. /\ \A i \in 1 .. Len(wire) : Seen(wire[i].run) /\ wire[i].run \in Nat
        /\ client.who = "cli" => Seen(client.run) /\ client.run \in Nat
    BY <1>3, <1>5 DEF WatchRuns, SnapshotTrue, Snapshots, WatchType, Clients
  <2>6. \A x : SnapshotTrue(x) => SnapshotTrue(x)'
    BY <1>1 DEF SnapshotTrue, Seen, ThisRun
  <2>7. \A x : Seen(x) => Seen(x)'
    BY <1>1 DEF Seen, ThisRun
  <2>8. SnapshotTrue(poll.snapshot)'
    BY <1>1, <2>6, SeenZero, NoWire DEF SnapshotTrue, Seen, ThisRun
  <2>9. \A i \in DOMAIN wire' : SnapshotTrue(wire[i])'
    <3>1. \A i \in DOMAIN wire' : SnapshotTrue(wire'[i])
      BY <1>3, <1>5a, <2>3 DEF WatchRuns
    <3> QED
      BY <1>1, <3>1 DEF SnapshotTrue, Seen, ThisRun
  <2>10. \A i, j \in DOMAIN wire' : i < j /\ wire'[j].run # 0 => wire'[i].run <= wire'[j].run
    BY <1>3, <1>5, <2>4, <2>5 DEF WatchRuns
  <2>11. client.who = "cli" => \A j \in DOMAIN wire' : wire'[j].run # 0 => client.run <= wire'[j].run
    BY <1>3, <1>5, <2>4, <2>5 DEF WatchRuns
  <2>12. client.who = "cli" => Seen(client.run)'
    BY <1>1, <2>5 DEF Seen, ThisRun
  <2> QED
    BY <1>1, <2>8, <2>9, <2>10, <2>11, <2>12 DEF WatchRuns
<1>10. WatchParks'
  <2>1. Heard' => Heard \/ Parks(s)
    BY <1>1, <1>5a DEF Heard, Parks
  <2>2. Heard' => ParkSeen'
    BY <1>1, <1>2, <1>3, <2>1 DEF WatchParks, Parks, ParkSeen, EntryOver
  <2>3. Heard /\ RunsOn(s) => past.withdrawn
    BY <1>2 DEF WatchParks, RunsOn
  <2>4. \A j \in DOMAIN wire' : client.parking /\ RunsOn(wire'[j]) => past.withdrawn
    BY <1>5, <2>3 DEF WatchParks, Heard
  <2>5. \A i, j \in DOMAIN wire' : i < j /\ Parks(wire'[i]) /\ RunsOn(wire'[j]) => past.withdrawn
    BY <1>5, <2>3 DEF WatchParks, Heard
  <2> QED
    BY <1>1, <1>3, <2>2, <2>4, <2>5, NoWire DEF WatchParks, RunsOn, Parks
<1>11. WatchAgent'
  <2> SUFFICES ASSUME client.who = "agent"
               PROVE  WatchAgent'
    BY <1>1 DEF WatchAgent
  <2>1. client.at = "watching" \/ client.at \notin {"detail", "open"}
    BY <1>4 DEF WatchStream, Before
  <2>2. CASE client.at = "watching"
    <3>1. wire' # <<>> => sent' = wire'[Len(wire')]
      BY <1>1, <1>5, <2>2 DEF WatchAgent
    <3>2. wire' = <<>> => sent' = client.previous
      <4> SUFFICES ASSUME wire' = <<>>
                   PROVE  sent' = client.previous
        OBVIOUS
      <4>1. wire = <<>> /\ sent = s
        BY <1>5
      <4> QED
        BY <1>1, <1>4, <2>2, <4>1, NoWire DEF WatchAgent
    <3>3. ~past.moved => SameWatch(s)
      BY <1>1, <1>2, <2>2 DEF WatchAgent, SameWatch, ThisRun, WatchServer, WatchType
    <3>4. ~past'.moved => \A i \in DOMAIN wire' : SameWatch(wire[i])'
      <4>1. ~past.moved => \A i \in DOMAIN wire' : SameWatch(wire'[i])
        BY <1>5a, <2>2, <3>3 DEF WatchAgent
      <4> QED
        BY <1>1, <1>3, <4>1 DEF SameWatch, ThisRun
    <3> QED
      BY <1>1, <1>3, <2>2, <3>1, <3>2, <3>4, NoWire DEF WatchAgent, SameWatch, ThisRun, ActedOn
  <2> QED
    BY <1>1, <2>1, <2>2 DEF WatchAgent
<1>12. WatchSaid'
  BY <1>1, <1>3 DEF WatchSaid, PrintedTrue, ChangedTrue
<1> QED
  BY <1>6, <1>7, <1>8, <1>9, <1>10, <1>11, <1>12

\* A watch that ends, at its entry's deletion or the server's stop, forgets its read.
LEMMA WatchEndsKeeps ==
  ASSUME WatchInv, StopWatches \/ (ReadRow /\ row.state = "gone")
  PROVE  WatchInv'
<1> USE DEF WatchInv
<1>1. /\ UNCHANGED <<row, worker, parking, gate, forecast, client, said, acts, sent, wire, past>>
      /\ stream = "open" /\ stream' = "ended" /\ poll' = NoPoll
  BY DEF ReadRow, StopWatches, PollUnchanged, WatchStream
<1>2. WatchType'
  BY <1>1, NoWire DEF WatchType
<1>3. WatchServer'
  BY <1>1 DEF WatchServer, ThisRun, Running
<1>4. WatchStream'
  BY <1>1, NoWire DEF WatchStream
<1>5. WatchRuns'
  <2>1. SnapshotTrue(poll.snapshot)'
    BY <1>1, SeenZero, NoWire DEF SnapshotTrue, Seen, ThisRun
  <2> QED
    BY <1>1, <2>1 DEF WatchRuns, SnapshotTrue, Seen, ThisRun
<1>6. WatchParks'
  BY <1>1, NoWire DEF WatchParks, Heard, Parks, RunsOn, ParkSeen, EntryOver
<1>7. WatchAgent'
  BY <1>1, NoWire DEF WatchAgent, SameWatch, ThisRun, ActedOn
<1>8. WatchSaid'
  BY <1>1 DEF WatchSaid, PrintedTrue, ChangedTrue
<1> QED
  BY <1>2, <1>3, <1>4, <1>5, <1>6, <1>7, <1>8

------------------------------------------------------------------------------
(* The client.                                                                 *)

\* A watch that is given up leaves nothing to hear, whatever the server does in the same step.
LEMMA GiveUpKeeps ==
  ASSUME WatchInv, NEW at \in {"done", "error", "answer"}, GiveUp(at), client.who = "cli" => at # "answer",
         client.at = "watching", ServerTyped', WatchServer', ServerKeeps, ParkSeen => ParkSeen',
         UNCHANGED <<sent, past>>,
         said' \in [succeeded : SUBSET Nat, started : SUBSET Nat, runsOn : BOOLEAN, outcome : RowStates \cup {"none"}, changed : BOOLEAN],
         client.who = "cli" => said'.outcome \in Final \cup {"none"},
         WatchSaid'
  PROVE  WatchInv'
<1> USE DEF WatchInv
<1>1. /\ client' = [client EXCEPT !.at = at] /\ stream' = "ended" /\ poll' = NoPoll /\ wire' = <<>>
  BY DEF GiveUp
<1>2. /\ client' \in Clients /\ client'.at = at /\ client'.who = client.who
      /\ client'.run = client.run /\ client.run \in Nat /\ client'.parking = client.parking
  BY <1>1 DEF WatchType, Clients
<1>3. WatchType'
  BY <1>1, <1>2, NoWire DEF WatchType, ServerTyped
<1>4. WatchStream'
  BY <1>1, <1>2, NoWire DEF WatchStream, Before
<1>5. WatchRuns'
  <2>1. WatchType' => SnapshotTrue(NoSnapshot)'
    BY SeenZero DEF SnapshotTrue, Seen, ThisRun, WatchType, NoSnapshot, Final
  <2>2. Seen(client.run) => Seen(client.run)'
    BY <1>2 DEF ServerKeeps, Seen, ThisRun
  <2> QED
    BY <1>1, <1>2, <1>3, <2>1, <2>2, NoWire DEF WatchRuns, SnapshotTrue, Seen, ThisRun
<1>6. WatchParks'
  BY <1>1, <1>2, NoWire DEF WatchParks, Heard, Parks, RunsOn
<1>7. WatchAgent'
  BY <1>2 DEF WatchAgent
<1> QED
  BY <1>3, <1>4, <1>5, <1>6, <1>7

\* A step that leaves the server alone keeps what is known of it.
LEMMA ServerAlone ==
  ASSUME WatchInv, UNCHANGED <<row, worker, parking, gate, forecast, past>>, acts' \in Nat
  PROVE  /\ ServerTyped' /\ WatchServer' /\ ServerKeeps /\ (ParkSeen => ParkSeen')
         /\ said' = said => WatchSaid' \/ client'.who # client.who
<1> USE DEF WatchInv
<1>1. ServerTyped'
  BY DEF ServerTyped, WatchType
<1>2. WatchServer'
  BY DEF WatchServer, ThisRun, Running
<1>3. ServerKeeps
  BY DEF ServerKeeps, Seen, ThisRun, EntryOver, Running, WatchType
<1>4. ParkSeen => ParkSeen'
  BY DEF ParkSeen, EntryOver
<1>5. said' = said => WatchSaid' \/ client'.who # client.who
  BY DEF WatchSaid, PrintedTrue, ChangedTrue
<1> QED
  BY <1>1, <1>2, <1>3, <1>4, <1>5

LEMMA OpenWatchKeeps ==
  ASSUME WatchInv, OpenWatch
  PROVE  WatchInv'
<1> USE DEF WatchInv
<1> DEFINE at == IF row.state = "gone" THEN "error" ELSE "watching"
<1>1. /\ UNCHANGED <<row, worker, parking, gate, forecast, sent, past, poll, wire, said, acts>>
      /\ client.at = (IF client.who = "cli" THEN "start" ELSE "open")
      /\ client' = [client EXCEPT !.at = at]
      /\ stream' = IF row.state = "gone" THEN stream ELSE "open"
  BY DEF OpenWatch, ServerUnchanged
<1>2. /\ client' \in Clients /\ client'.at = at /\ client'.who = client.who
      /\ client'.run = client.run /\ client'.parking = client.parking
      /\ client'.read = client.read /\ client'.previous = client.previous
  BY <1>1 DEF WatchType, Clients
<1>3. client.at \in Before /\ stream = "none" /\ ~said.changed /\ sent = NoSnapshot /\ wire = <<>> /\ poll = NoPoll
  BY <1>1 DEF WatchStream, WatchType, Clients, Before
<1>4. WatchType'
  BY <1>1, <1>2 DEF WatchType
<1>5. WatchServer'
  BY <1>1 DEF WatchServer, ThisRun, Running
<1>6. WatchStream'
  BY <1>1, <1>2, <1>3, NoWire DEF WatchStream, Before
<1>7. WatchRuns'
  BY <1>1, <1>2 DEF WatchRuns, SnapshotTrue, Seen, ThisRun
<1>8. WatchParks'
  BY <1>1, <1>2 DEF WatchParks, Heard, Parks, RunsOn, ParkSeen, EntryOver
<1>9. WatchAgent'
  BY <1>1, <1>2, <1>3, NoWire DEF WatchAgent, SameWatch, ThisRun, ActedOn
<1>10. WatchSaid'
  BY <1>1, <1>2 DEF WatchSaid, PrintedTrue, ChangedTrue
<1> QED
  BY <1>4, <1>5, <1>6, <1>7, <1>8, <1>9, <1>10

LEMMA WatchLostKeeps ==
  ASSUME WatchInv, WatchLost
  PROVE  WatchInv'
<1> USE DEF WatchInv
<1>1. /\ UNCHANGED <<row, worker, parking, gate, forecast, sent, past, poll, wire, stream, said, acts>>
      /\ client' = [client EXCEPT !.at = "error"] /\ client.at = "watching" /\ stream = "ended"
  BY DEF WatchLost, ServerUnchanged
<1>2. /\ client' \in Clients /\ client'.at = "error" /\ client'.who = client.who
      /\ client'.run = client.run /\ client'.parking = client.parking
  BY <1>1 DEF WatchType, Clients
<1>3. WatchType'
  BY <1>1, <1>2 DEF WatchType
<1>4. WatchServer'
  BY <1>1 DEF WatchServer, ThisRun, Running
<1>5. WatchStream'
  BY <1>1, <1>2 DEF WatchStream, Before
<1>6. WatchRuns'
  BY <1>1, <1>2 DEF WatchRuns, SnapshotTrue, Seen, ThisRun
<1>7. WatchParks'
  BY <1>1, <1>2 DEF WatchParks, Heard, Parks, RunsOn, ParkSeen, EntryOver
<1>8. WatchAgent'
  BY <1>2 DEF WatchAgent
<1>9. WatchSaid'
  BY <1>1, <1>2 DEF WatchSaid, PrintedTrue, ChangedTrue
<1> QED
  BY <1>3, <1>4, <1>5, <1>6, <1>7, <1>8, <1>9

LEMMA AgentAnswersKeeps ==
  ASSUME WatchInv, AgentAnswers
  PROVE  WatchInv'
<1> USE DEF WatchInv
<1> DEFINE at == IF row.state = "gone" THEN "error" ELSE "done"
<1>1. /\ UNCHANGED <<row, worker, parking, gate, forecast, sent, past, poll, wire, stream, acts>>
      /\ client' = [client EXCEPT !.at = at] /\ client.at = "answer"
      /\ said' = [said EXCEPT !.outcome = row.state]
  BY DEF AgentAnswers, ServerUnchanged
<1>2. /\ client' \in Clients /\ client'.at = at /\ client'.who = client.who /\ client.who = "agent"
      /\ client'.run = client.run /\ client'.parking = client.parking
  BY <1>1 DEF WatchType, Clients, WatchStream
<1>3. /\ said' \in [succeeded : SUBSET Nat, started : SUBSET Nat, runsOn : BOOLEAN, outcome : RowStates \cup {"none"}, changed : BOOLEAN]
      /\ said'.changed = said.changed
  BY <1>1 DEF WatchType
<1>4. WatchType'
  <2> HIDE DEF at
  <2>1. UNCHANGED <<row, worker, parking, gate, forecast, sent, past, poll, wire, stream, acts>>
    BY <1>1
  <2> QED
    BY <1>2, <1>3, <2>1 DEF WatchType
<1>5. WatchServer'
  BY <1>1 DEF WatchServer, ThisRun, Running
<1>6. WatchStream'
  BY <1>1, <1>2 DEF WatchStream, Before
<1>7. WatchRuns'
  BY <1>1, <1>2 DEF WatchRuns, SnapshotTrue, Seen, ThisRun
<1>8. WatchParks'
  BY <1>1, <1>2 DEF WatchParks, Heard, Parks, RunsOn, ParkSeen, EntryOver
<1>9. WatchAgent'
  BY <1>2 DEF WatchAgent
<1>10. WatchSaid'
  BY <1>1, <1>2, <1>3 DEF WatchSaid, PrintedTrue, ChangedTrue
<1> QED
  BY <1>4, <1>5, <1>6, <1>7, <1>8, <1>9, <1>10

LEMMA AgentReadsKeeps ==
  ASSUME WatchInv, AgentReads
  PROVE  WatchInv'
<1> USE DEF WatchInv
<1>1. /\ UNCHANGED <<row, worker, parking, gate, forecast, sent, poll, wire, stream, said, acts>>
      /\ client' = IF row.state = "gone" THEN [client EXCEPT !.at = "error"]
                   ELSE [client EXCEPT !.at = "detail", !.read = [client.read EXCEPT !.state = row.state, !.execution = row.execution]]
      /\ past' = [past EXCEPT !.moved = FALSE]
      /\ client.at = "start" /\ client.who = "agent"
  BY DEF AgentReads
<1>2. /\ client' \in Clients /\ client'.at = (IF row.state = "gone" THEN "error" ELSE "detail") /\ client'.who = client.who
      /\ client'.run = client.run /\ client'.parking = client.parking
      /\ row.state # "gone" => client'.read.state = row.state /\ client'.read.execution = row.execution
  <2>1. client \in Clients /\ client.read \in Snapshots /\ row.state \in RowStates /\ row.execution \in BOOLEAN
    BY DEF WatchType, Clients
  <2>2. CASE row.state = "gone"
    BY <1>1, <2>1, <2>2 DEF Clients
  <2>3. CASE row.state # "gone"
    <3> DEFINE read == [client.read EXCEPT !.state = row.state, !.execution = row.execution]
    <3>1. read \in Snapshots /\ read.state = row.state /\ read.execution = row.execution
      BY <2>1 DEF Snapshots
    <3>2. client' = [client EXCEPT !.at = "detail", !.read = read]
      BY <1>1, <2>3
    <3> HIDE DEF read
    <3>3. client' \in Clients
      BY <2>1, <3>1, <3>2 DEF Clients, Before
    <3>4. /\ client'.at = "detail" /\ client'.who = client.who /\ client'.run = client.run
          /\ client'.parking = client.parking /\ client'.read = read
      BY <2>1, <3>2 DEF Clients
    <3> QED
      BY <2>3, <3>1, <3>3, <3>4
  <2> QED
    BY <2>2, <2>3
<1>3. /\ stream = "none" /\ ~said.changed
      /\ past' \in [withdrawn : BOOLEAN, crossed : BOOLEAN, moved : BOOLEAN]
      /\ past'.withdrawn = past.withdrawn /\ past'.crossed = past.crossed
  BY <1>1 DEF WatchStream, Before, WatchType
<1>4. WatchType'
  BY <1>1, <1>2, <1>3 DEF WatchType
<1>5. WatchServer'
  BY <1>1 DEF WatchServer, ThisRun, Running
<1>6. WatchStream'
  BY <1>1, <1>2, <1>3 DEF WatchStream, Before
<1>7. WatchRuns'
  BY <1>1, <1>2, <1>3 DEF WatchRuns, SnapshotTrue, Seen, ThisRun
<1>8. WatchParks'
  BY <1>1, <1>2, <1>3 DEF WatchParks, Heard, Parks, RunsOn, ParkSeen, EntryOver
<1>9. WatchAgent'
  BY <1>1, <1>2 DEF WatchAgent, WatchType, RowStates, Final
<1>10. WatchSaid'
  BY <1>1, <1>2, <1>3 DEF WatchSaid, PrintedTrue, ChangedTrue
<1> QED
  BY <1>4, <1>5, <1>6, <1>7, <1>8, <1>9, <1>10

LEMMA AgentReadsDetailKeeps ==
  ASSUME WatchInv, AgentReadsDetail
  PROVE  WatchInv'
<1> USE DEF WatchInv
<1> DEFINE read == [client.read EXCEPT !.park = parking, !.run = IF worker.current = "this" THEN worker.run ELSE 0,
                                       !.held = gate.held, !.cooling = gate.cooling]
<1>1. /\ UNCHANGED <<row, worker, parking, gate, forecast, sent, past, poll, wire, stream, said, acts>>
      /\ client' = [client EXCEPT !.at = IF read.state \in Final THEN "done" ELSE "open", !.read = read, !.previous = read]
      /\ client.at = "detail"
  BY DEF AgentReadsDetail, ServerUnchanged
<1>2. /\ read \in Snapshots /\ read.state = client.read.state /\ read.execution = client.read.execution /\ read.park = parking
      /\ read.run = ThisRun /\ read.held = gate.held /\ read.cooling = gate.cooling
  BY DEF WatchType, Clients, Snapshots, ThisRun
<1> HIDE DEF read
<1>3. /\ client' \in Clients /\ client'.at \in {"done", "open"} /\ client'.who = client.who
      /\ client'.run = client.run /\ client'.parking = client.parking
      /\ client'.read = read /\ client'.previous = read
  <2>1. client \in Clients
    BY DEF WatchType
  <2>2. PICK at \in {"done", "open"} : client' = [client EXCEPT !.at = at, !.read = read, !.previous = read]
    BY <1>1
  <2>3. client' \in Clients
    BY <1>2, <2>1, <2>2 DEF Clients, Before
  <2>4. /\ client'.at = at /\ client'.who = client.who /\ client'.run = client.run /\ client'.parking = client.parking
        /\ client'.read = read /\ client'.previous = read
    BY <2>1, <2>2 DEF Clients
  <2> QED
    BY <2>3, <2>4
<1>4. client.who = "agent" /\ stream = "none" /\ ~said.changed /\ wire = <<>> /\ poll.at = "idle"
  BY <1>1, NoWire DEF WatchStream, Before, WatchType, Clients
<1>5. WatchType'
  BY <1>1, <1>3 DEF WatchType
<1>6. WatchServer'
  BY <1>1 DEF WatchServer, ThisRun, Running
<1>7. WatchStream'
  BY <1>1, <1>3, <1>4 DEF WatchStream, Before
<1>8. WatchRuns'
  BY <1>1, <1>3 DEF WatchRuns, SnapshotTrue, Seen, ThisRun
<1>9. WatchParks'
  BY <1>1, <1>3 DEF WatchParks, Heard, Parks, RunsOn, ParkSeen, EntryOver
<1>10. WatchAgent'
  BY <1>1, <1>2, <1>3, <1>4, NoWire DEF WatchAgent, SameWatch, ThisRun
<1>11. WatchSaid'
  BY <1>1, <1>3 DEF WatchSaid, PrintedTrue, ChangedTrue
<1> QED
  BY <1>5, <1>6, <1>7, <1>8, <1>9, <1>10, <1>11

LEMMA CliHearsKeeps ==
  ASSUME WatchInv, CliHears
  PROVE  WatchInv'
<1> USE DEF WatchInv
<1> DEFINE s == Head(wire)
           over == s.state \in Final
<1>1. /\ client.who = "cli" /\ client.at = "watching" /\ wire # <<>>
      /\ said' = [said EXCEPT !.succeeded = @ \cup ToldSucceeded(s),
                              !.started = @ \cup (IF IsNewRun(s) THEN {s.run} ELSE {}),
                              !.runsOn = @ \/ (s.state = "running" /\ client.parking /\ ~s.park),
                              !.outcome = IF over THEN s.state ELSE "none"]
      /\ UNCHANGED <<row, worker, parking, gate, forecast, sent, past, acts>>
  BY DEF CliHears, ServerUnchanged
<1>2. /\ s = wire[1] /\ s \in Snapshots /\ s.run \in Nat /\ s.state # "none"
      /\ Tail(wire) \in Seq(Snapshots) /\ 1 \in DOMAIN wire
      /\ \A i \in DOMAIN Tail(wire) : i + 1 \in DOMAIN wire /\ Tail(wire)[i] = wire[i + 1] /\ i \in Nat \ {0}
  <2>1. wire \in Seq(Snapshots)
    BY DEF WatchType
  <2>2. s \in Snapshots /\ s = wire[1] /\ Tail(wire) \in Seq(Snapshots) /\ 1 \in DOMAIN wire
        /\ \A i \in DOMAIN Tail(wire) : i + 1 \in DOMAIN wire /\ Tail(wire)[i] = wire[i + 1] /\ i \in Nat \ {0}
    BY <1>1, <2>1, WireShrinks
  <2>3. s.state # "none"
    BY <2>2 DEF WatchStream
  <2> QED
    BY <2>2, <2>3 DEF Snapshots
<1> HIDE DEF s
<1>3. LastRun(s) \in Nat /\ ToldSucceeded(s) \in SUBSET Nat
  BY <1>2 DEF LastRun, ToldSucceeded, WatchType, Clients
<1>4. /\ said' \in [succeeded : SUBSET Nat, started : SUBSET Nat, runsOn : BOOLEAN, outcome : RowStates \cup {"none"}, changed : BOOLEAN]
      /\ said'.changed = said.changed /\ said'.succeeded = said.succeeded \cup ToldSucceeded(s)
      /\ said'.started = said.started \cup (IF IsNewRun(s) THEN {s.run} ELSE {})
      /\ said'.runsOn = (said.runsOn \/ (RunsOn(s) /\ client.parking))
      /\ said'.outcome = IF over THEN s.state ELSE "none"
  <2> DEFINE new == IF IsNewRun(s) THEN {s.run} ELSE {}
             on == s.state = "running" /\ client.parking /\ ~s.park
             end == IF over THEN s.state ELSE "none"
  <2>1. /\ new \in SUBSET Nat /\ end \in RowStates \cup {"none"} /\ on \in BOOLEAN
        /\ on = (RunsOn(s) /\ client.parking)
    BY <1>2 DEF RunsOn, RowStates
  <2>2. said' = [said EXCEPT !.succeeded = @ \cup ToldSucceeded(s), !.started = @ \cup new, !.runsOn = @ \/ on, !.outcome = end]
    BY <1>1
  <2>3. said \in [succeeded : SUBSET Nat, started : SUBSET Nat, runsOn : BOOLEAN, outcome : RowStates \cup {"none"}, changed : BOOLEAN]
    BY DEF WatchType
  <2> HIDE DEF new, on, end
  <2>4. /\ said'.changed = said.changed /\ said'.succeeded = said.succeeded \cup ToldSucceeded(s)
        /\ said'.started = said.started \cup new /\ said'.runsOn = (said.runsOn \/ on) /\ said'.outcome = end
    BY <2>2, <2>3
  <2>5. (said.runsOn \/ on) \in BOOLEAN
    BY <2>1, <2>3
  <2>6. said' \in [succeeded : SUBSET Nat, started : SUBSET Nat, runsOn : BOOLEAN, outcome : RowStates \cup {"none"}, changed : BOOLEAN]
    BY <1>3, <2>1, <2>2, <2>3, <2>5
  <2> QED
    BY <2>1, <2>4, <2>6 DEF new, end
<1>5. ~past.crossed =>
        /\ SnapshotTrue(s) /\ Seen(client.run)
        /\ s.run # 0 => client.run <= s.run
  BY <1>1, <1>2 DEF WatchRuns
<1>6. ServerTyped' /\ WatchServer' /\ ServerKeeps /\ (ParkSeen => ParkSeen')
  BY <1>1, ServerAlone DEF WatchType
\* What is told of the runs: the one before a new one is over, and so is the last one of an entry that is over and well.
<1>7. ~past.crossed => ToldSucceeded(s) \subseteq 1 .. worker.done
  <2> SUFFICES ASSUME ~past.crossed, NEW r \in ToldSucceeded(s)
               PROVE  r \in 1 .. worker.done
    OBVIOUS
  <2>1. client.run \in Nat /\ worker.done \in Nat
    BY DEF WatchType, Clients
  <2>2. CASE IsNewRun(s) /\ r = client.run
    <3>1. s.run # 0 /\ s.run # r /\ r # 0
      BY <2>2 DEF IsNewRun, ToldSucceeded, LastRun
    <3>2. r <= s.run /\ s.run <= worker.done + 1
      BY <1>5, <2>1, <2>2, <3>1, <1>2 DEF SnapshotTrue, Seen
    <3> QED
      BY <1>2, <2>1, <2>2, <3>1, <3>2
  <2>3. CASE s.state \in {"succeeded", "parked"} /\ r = LastRun(s)
    <3>1. worker.good /\ ThisRun = 0
      BY <1>5, <2>3 DEF SnapshotTrue, WatchServer, Running, Final
    <3>2. r # 0 /\ Seen(r) /\ r \in Nat
      BY <1>3, <1>5, <2>3 DEF ToldSucceeded, LastRun, IsNewRun, SnapshotTrue
    <3> QED
      BY <2>1, <3>1, <3>2 DEF Seen
  <2> QED
    BY <2>2, <2>3 DEF ToldSucceeded
<1>8. ~past.crossed /\ IsNewRun(s) => s.run \in 1 .. worker.done + 1
  BY <1>2, <1>5 DEF IsNewRun, SnapshotTrue, Seen, WatchType
<1>9. RunsOn(s) /\ client.parking => past.withdrawn
  BY <1>2 DEF WatchParks
<1>10. client'.who = client.who
  BY <1>1 DEF CliHears, GiveUp, WatchType, Clients
<1>11. WatchSaid'
  <2>1. PrintedTrue'
    <3> SUFFICES ASSUME ~past.crossed
                 PROVE  /\ said'.started \subseteq 1 .. worker.done + 1 /\ said'.succeeded \subseteq 1 .. worker.done
                        /\ said'.runsOn => past.withdrawn
                        /\ said'.outcome # "none" => row.state \in {said'.outcome, "gone"}
      BY <1>1 DEF PrintedTrue
    <3>1. said.started \subseteq 1 .. worker.done + 1 /\ said.succeeded \subseteq 1 .. worker.done /\ (said.runsOn => past.withdrawn)
      BY <1>1 DEF WatchSaid, PrintedTrue
    <3>2. said'.outcome # "none" => row.state \in {said'.outcome, "gone"}
      BY <1>4, <1>5 DEF SnapshotTrue
    <3> QED
      BY <1>4, <1>7, <1>8, <1>9, <3>1, <3>2
  <2>2. ChangedTrue'
    BY <1>1, <1>4 DEF WatchSaid, ChangedTrue
  <2> QED
    BY <2>1, <2>2 DEF WatchSaid
<1>12. CASE over
  <2>1. GiveUp("done") /\ said'.outcome \in Final
    BY <1>4, <1>12 DEF CliHears, s
  <2> QED
    BY <1>1, <1>4, <1>6, <1>11, <2>1, GiveUpKeeps
<1>13. CASE ~over
  <2>1. /\ client' = [client EXCEPT !.run = LastRun(s), !.parking = IF s.state = "running" THEN s.park ELSE @,
                                    !.held = @ \/ (s.state = "queued" /\ s.held)]
        /\ wire' = Tail(wire) /\ UNCHANGED <<stream, poll>>
    BY <1>13 DEF CliHears, s
  <2>2. /\ client' \in Clients /\ client'.at = "watching" /\ client'.who = "cli" /\ client'.run = LastRun(s)
        /\ client'.parking = IF s.state = "running" THEN s.park ELSE client.parking
    <3> DEFINE reserved == IF s.state = "running" THEN s.park ELSE client.parking
               held == client.held \/ (s.state = "queued" /\ s.held)
    <3>1. reserved \in BOOLEAN /\ held \in BOOLEAN /\ client \in Clients
      BY <1>2 DEF WatchType, Clients, Snapshots
    <3>2. client' = [client EXCEPT !.run = LastRun(s), !.parking = reserved, !.held = held]
      BY <2>1
    <3> HIDE DEF reserved, held
    <3>3. client' \in Clients
      BY <1>3, <3>1, <3>2 DEF Clients
    <3>4. client'.at = "watching" /\ client'.who = "cli" /\ client'.run = LastRun(s) /\ client'.parking = reserved
      BY <1>1, <3>1, <3>2 DEF Clients
    <3> QED
      BY <3>3, <3>4 DEF reserved
  <2>3. WatchType'
    BY <1>1, <1>2, <1>4, <2>1, <2>2 DEF WatchType
  <2>4. WatchStream'
    BY <1>1, <1>2, <1>4, <1>13, <2>1, <2>2 DEF WatchStream, Before
  <2>5. WatchRuns'
    <3> SUFFICES ASSUME ~past.crossed
                 PROVE  WatchRuns'
      BY <1>1 DEF WatchRuns
    <3>1. Seen(LastRun(s)) /\ client.run <= LastRun(s) /\ (s.run # 0 => LastRun(s) = s.run)
      BY <1>2, <1>5 DEF LastRun, IsNewRun, SnapshotTrue, WatchType, Clients
    <3>2. \A j \in DOMAIN Tail(wire) : Tail(wire)[j].run # 0 => LastRun(s) <= Tail(wire)[j].run
      BY <1>1, <1>2, <3>1 DEF WatchRuns, LastRun
    <3>3. \A i, j \in DOMAIN Tail(wire) : i < j /\ Tail(wire)[j].run # 0 => Tail(wire)[i].run <= Tail(wire)[j].run
      BY <1>2 DEF WatchRuns
    <3>4. \A i \in DOMAIN Tail(wire) : SnapshotTrue(Tail(wire)[i])
      BY <1>2 DEF WatchRuns
    <3> QED
      BY <1>1, <2>1, <2>2, <3>1, <3>2, <3>3, <3>4 DEF WatchRuns, SnapshotTrue, Seen, ThisRun
  <2>6. WatchParks'
    <3>1. Heard' => Heard
      BY <1>2, <2>1, <2>2 DEF Heard, Parks
    <3>2. \A j \in DOMAIN wire' : client'.parking /\ RunsOn(wire'[j]) => past.withdrawn
      BY <1>2, <2>1, <2>2 DEF WatchParks, Parks
    <3>3. \A i, j \in DOMAIN wire' : i < j /\ Parks(wire'[i]) /\ RunsOn(wire'[j]) => past.withdrawn
      BY <1>2, <2>1 DEF WatchParks
    <3> QED
      BY <1>1, <2>1, <3>1, <3>2, <3>3 DEF WatchParks, ParkSeen, EntryOver, RunsOn, Parks
  <2>7. WatchAgent'
    BY <2>2 DEF WatchAgent
  <2> QED
    BY <1>6, <1>11, <2>3, <2>4, <2>5, <2>6, <2>7
<1> QED
  BY <1>12, <1>13

LEMMA CliInterruptedKeeps ==
  ASSUME WatchInv, CliInterrupted
  PROVE  WatchInv'
<1> USE DEF WatchInv
<1>1. client.who = "cli" /\ client.at = "watching" /\ UNCHANGED <<sent, past, said>> /\ acts' \in Nat
  BY DEF CliInterrupted, Acts, WatchType
<1>2. PICK at \in {"done", "error"} : GiveUp(at)
  BY DEF CliInterrupted
<1>3. client'.who = client.who
  BY <1>1, <1>2 DEF GiveUp, WatchType, Clients
<1>4. ServerTyped' /\ WatchServer' /\ ServerKeeps /\ (ParkSeen => ParkSeen')
  <2>1. CASE CancelEntry
    <3>1. ServerTyped' /\ WatchServer' /\ ServerKeeps /\ parking' = parking
      BY <1>1, <2>1, CancelKeeps DEF CancelEntry
    <3> QED
      BY <1>1, <3>1 DEF ParkSeen, ServerKeeps
  <2>2. CASE UNCHANGED <<row, worker, parking, gate, forecast>>
    BY <1>1, <2>2, ServerAlone
  <2> QED
    BY <2>1, <2>2 DEF CliInterrupted
<1>5. WatchSaid'
  BY <1>1, <1>3, <1>4 DEF WatchSaid, PrintedTrue, ChangedTrue, ServerKeeps, WatchType, WatchStream, ServerTyped
<1> QED
  BY <1>1, <1>2, <1>4, <1>5, GiveUpKeeps DEF WatchStream, WatchType

LEMMA AgentHearsKeeps ==
  ASSUME WatchInv, AgentHears
  PROVE  WatchInv'
<1> USE DEF WatchInv
<1> DEFINE s == Head(wire)
<1>1. /\ client.who = "agent" /\ client.at = "watching" /\ wire # <<>>
      /\ UNCHANGED <<row, worker, parking, gate, forecast, sent, past, acts>>
  BY DEF AgentHears, ServerUnchanged
<1>2. /\ s = wire[1] /\ s \in Snapshots /\ s.state # "none"
      /\ Tail(wire) \in Seq(Snapshots) /\ 1 \in DOMAIN wire
      /\ Len(wire) \in Nat \ {0} /\ Len(Tail(wire)) = Len(wire) - 1 /\ DOMAIN Tail(wire) = 1 .. Len(wire) - 1
      /\ \A i \in DOMAIN Tail(wire) : i + 1 \in DOMAIN wire /\ Tail(wire)[i] = wire[i + 1] /\ i \in Nat \ {0}
      /\ Tail(wire) = <<>> => Len(wire) = 1
  <2>1. wire \in Seq(Snapshots)
    BY DEF WatchType
  <2>2. /\ s = wire[1] /\ s \in Snapshots
        /\ Tail(wire) \in Seq(Snapshots) /\ 1 \in DOMAIN wire
        /\ Len(wire) \in Nat \ {0} /\ Len(Tail(wire)) = Len(wire) - 1 /\ DOMAIN Tail(wire) = 1 .. Len(wire) - 1
        /\ \A i \in DOMAIN Tail(wire) : i + 1 \in DOMAIN wire /\ Tail(wire)[i] = wire[i + 1] /\ i \in Nat \ {0}
        /\ Tail(wire) = <<>> => Len(wire) = 1
    BY <1>1, <2>1, WireShrinks
  <2>3. s.state # "none"
    BY <2>2 DEF WatchStream
  <2> QED
    BY <2>2, <2>3
<1> HIDE DEF s
<1>3. ServerTyped' /\ WatchServer' /\ ServerKeeps /\ (ParkSeen => ParkSeen')
  BY <1>1, ServerAlone DEF WatchType
<1>4. CASE acted_on(client.previous, s)
  <2>1. GiveUp("answer") /\ said' = [said EXCEPT !.changed = TRUE]
    BY <1>4 DEF AgentHears, s
  \* Had nothing moved, the snapshot heard would be the one before it.
  <2>2. past.moved
    <3>1. ~past.moved => SameWatch(client.previous) /\ SameWatch(s)
      BY <1>1, <1>2 DEF WatchAgent
    <3> QED
      BY <1>4, <3>1 DEF acted_on, ActedOn, SameWatch
  <2>3. client'.who = client.who
    BY <1>1, <2>1 DEF GiveUp, WatchType, Clients
  <2>4. said' \in [succeeded : SUBSET Nat, started : SUBSET Nat, runsOn : BOOLEAN, outcome : RowStates \cup {"none"}, changed : BOOLEAN]
    BY <2>1 DEF WatchType
  <2>5. WatchSaid'
    BY <1>1, <2>2, <2>3 DEF WatchSaid, PrintedTrue, ChangedTrue
  <2> QED
    BY <1>1, <1>3, <2>1, <2>4, <2>5, GiveUpKeeps
<1>5. CASE ~acted_on(client.previous, s)
  <2>1. client' = [client EXCEPT !.previous = s] /\ wire' = Tail(wire) /\ UNCHANGED <<stream, poll, said>>
    BY <1>5 DEF AgentHears, s
  <2>2. /\ client' \in Clients /\ client'.at = "watching" /\ client'.who = "agent" /\ client'.run = client.run
        /\ client'.parking = client.parking /\ client'.read = client.read /\ client'.previous = s
    BY <1>1, <1>2, <2>1 DEF WatchType, Clients
  <2>3. WatchType'
    BY <1>1, <1>2, <2>1, <2>2 DEF WatchType
  <2>4. WatchStream'
    BY <1>1, <1>2, <2>1, <2>2 DEF WatchStream, Before
  <2>5. WatchRuns'
    <3>1. ~past.crossed => \A i, j \in DOMAIN Tail(wire) : i < j /\ Tail(wire)[j].run # 0 => Tail(wire)[i].run <= Tail(wire)[j].run
      BY <1>2 DEF WatchRuns
    <3>2. ~past.crossed => \A i \in DOMAIN Tail(wire) : SnapshotTrue(Tail(wire)[i])
      BY <1>2 DEF WatchRuns
    <3> QED
      BY <1>1, <2>1, <2>2, <3>1, <3>2 DEF WatchRuns, SnapshotTrue, Seen, ThisRun
  <2>6. WatchParks'
    <3>1. Heard' => Heard
      BY <1>2, <2>1, <2>2 DEF Heard, Parks
    <3>2. \A j \in DOMAIN wire' : client'.parking /\ RunsOn(wire'[j]) => past.withdrawn
      BY <1>2, <2>1, <2>2 DEF WatchParks, Parks
    <3>3. \A i, j \in DOMAIN wire' : i < j /\ Parks(wire'[i]) /\ RunsOn(wire'[j]) => past.withdrawn
      BY <1>2, <2>1 DEF WatchParks
    <3> QED
      BY <1>1, <2>1, <3>1, <3>2, <3>3 DEF WatchParks, ParkSeen, EntryOver, RunsOn, Parks
  <2>7. WatchAgent'
    <3>1. sent = wire[Len(wire)]
      BY <1>1 DEF WatchAgent
    <3>2. wire' # <<>> => sent' = wire'[Len(wire')]
      <4> SUFFICES ASSUME Tail(wire) # <<>>
                   PROVE  sent = Tail(wire)[Len(Tail(wire))]
        BY <1>1, <2>1
      <4>1. Len(Tail(wire)) \in DOMAIN Tail(wire)
        BY <1>2, EmptySeq
      <4> QED
        BY <1>2, <3>1, <4>1
    <3>3. wire' = <<>> => sent' = client'.previous
      BY <1>1, <1>2, <2>1, <2>2, <3>1
    <3>4. ActedOn(s) = ActedOn(client.read) /\ (client.read.run # 0 => s.run = client.read.run)
      BY <1>1, <1>5 DEF WatchAgent, acted_on
    <3>5. ~past.moved => SameWatch(s) /\ \A i \in DOMAIN Tail(wire) : SameWatch(Tail(wire)[i])
      BY <1>1, <1>2 DEF WatchAgent
    <3>6. ActedOn(client'.previous) = ActedOn(client'.read)
      BY <2>2, <3>4
    <3> QED
      BY <1>1, <1>2, <2>1, <2>2, <3>2, <3>3, <3>4, <3>5, <3>6 DEF WatchAgent, SameWatch, ThisRun, ActedOn
  <2>8. WatchSaid'
    BY <1>1, <2>1, <2>2 DEF WatchSaid, PrintedTrue, ChangedTrue
  <2> QED
    BY <1>3, <2>3, <2>4, <2>5, <2>6, <2>7, <2>8
<1> QED
  BY <1>4, <1>5

LEMMA TimeUpKeeps ==
  ASSUME WatchInv, TimeUp
  PROVE  WatchInv'
<1> USE DEF WatchInv
<1>1. /\ client.who = "agent" /\ client.at = "watching" /\ GiveUp("answer")
      /\ UNCHANGED <<row, worker, parking, gate, forecast, sent, past, said, acts>>
  BY DEF TimeUp, ServerUnchanged
<1>2. client'.who = client.who
  BY <1>1 DEF GiveUp, WatchType, Clients
<1>3. ServerTyped' /\ WatchServer' /\ ServerKeeps /\ (ParkSeen => ParkSeen')
  BY <1>1, ServerAlone DEF WatchType
<1>4. WatchSaid'
  BY <1>1, <1>2 DEF WatchSaid, PrintedTrue, ChangedTrue
<1> QED
  BY <1>1, <1>3, <1>4, GiveUpKeeps DEF WatchType

------------------------------------------------------------------------------

LEMMA WatchInitInv == WatchInit => WatchInv
<1> SUFFICES ASSUME WatchInit
             PROVE  WatchInv
  OBVIOUS
<1> USE DEF WatchInit
<1>1. WatchType
  <2>1. client \in Clients
    <3>1. PICK who \in {"cli", "agent"} : client = NewClient(who)
      OBVIOUS
    <3>2. NewClient(who) \in Clients
      BY NoWire DEF NewClient, Clients, Before
    <3> QED
      BY <3>1, <3>2
  <2> QED
    BY <2>1, NoWire DEF WatchType, RowStates, NothingSaid
<1>2. client.at = "start" /\ ~client.parking /\ client.run = 0 /\ said = NothingSaid
  BY DEF NewClient
<1>3. WatchServer
  BY DEF WatchServer, ThisRun, Running
<1>4. WatchStream
  BY <1>2, NoWire DEF WatchStream, NothingSaid
<1>5. WatchRuns
  BY <1>1, <1>2, NoWire, SeenZero DEF WatchRuns
<1>6. WatchParks
  BY <1>2, NoWire DEF WatchParks, Heard, RunsOn
<1>7. WatchAgent
  BY <1>2 DEF WatchAgent
<1>8. WatchSaid
  BY DEF WatchSaid, PrintedTrue, ChangedTrue, NothingSaid
<1> QED
  BY <1>1, <1>3, <1>4, <1>5, <1>6, <1>7, <1>8 DEF WatchInv

LEMMA WatchNextInv == WatchInv /\ [WatchNext]_watchVars => WatchInv'
<1>1. WatchInv /\ WatchNext => WatchInv'
  BY ServerStepKeeps, ReadReservationKeeps, ReadRowKeeps, ReadCurrentKeeps, ReadProgressKeeps, WatchEndsKeeps, OpenWatchKeeps,
     CliHearsKeeps, CliInterruptedKeeps, WatchLostKeeps, AgentReadsKeeps, AgentReadsDetailKeeps, AgentHearsKeeps, TimeUpKeeps,
     AgentAnswersKeeps DEF WatchNext
<1>2. WatchInv /\ UNCHANGED watchVars => WatchInv'
  <2> SUFFICES ASSUME WatchInv, UNCHANGED watchVars
               PROVE  WatchInv'
    OBVIOUS
  <2> USE DEF watchVars, WatchInv
  <2>1. WatchType' /\ WatchServer' /\ WatchStream'
    BY DEF WatchType, WatchServer, WatchStream, ThisRun, Running
  <2>2. WatchRuns' /\ WatchParks'
    BY DEF WatchRuns, SnapshotTrue, Seen, ThisRun, WatchParks, Heard, Parks, RunsOn, ParkSeen, EntryOver
  <2>3. WatchAgent' /\ WatchSaid'
    BY DEF WatchAgent, SameWatch, ThisRun, ActedOn, WatchSaid, PrintedTrue, ChangedTrue
  <2> QED
    BY <2>1, <2>2, <2>3
<1> QED
  BY <1>1, <1>2

\* The invariant of the watch: the server's answers, what is on the wire and what the client holds agree.
THEOREM WatchInvThm == WatchSpec => []WatchInv
<1> QED
  BY WatchInitInv, WatchNextInv, PTL DEF WatchSpec

\* What a person or an agent that waits for an entry is told is so, and nothing it waits for is passed over.
THEOREM WatchTrueThm == WatchSpec => []WatchTrue
<1>1. WatchInv => WatchTrue
  <2> SUFFICES ASSUME WatchInv
               PROVE  NothingUnheard
    BY DEF WatchInv, WatchSaid, WatchTrue
  <2> SUFFICES ASSUME client.who = "agent", client.at = "watching", wire = <<>>, sent # NoSnapshot
               PROVE  ActedOn(sent) = ActedOn(client.read) /\ (client.read.run # 0 => sent.run = client.read.run)
    BY DEF NothingUnheard
  <2> QED
    BY DEF WatchInv, WatchAgent
<1> QED
  BY <1>1, WatchInvThm, PTL

(* ---------------------------------------------------------------------- *)
(* The screen that follows the running entry (TuiFollow): what is heard of *)
(* the stream, what a reseed reads ahead of it, and what is still to hear. *)

QueueKinds == {"running", "ended", "parked", "unparked"}
EventKinds == QueueKinds \cup {"JobStarted", "RunFinished", "JobFinished"}
Event(kind, id) == [kind |-> kind, id |-> id]
IsPark(e, id) == e = Event("parked", id) \/ e = Event("unparked", id)

ServerStates == [id : Nat, phase : {"claimed", "started", "finished", "ended"}, runs : Nat, park : BOOLEAN]
Events == [kind : EventKinds, id : Nat]
Logs == Seq(Events)
Reseeds == [at : {"none", "running", "detail", "execution"}, id : Nat, park : BOOLEAN, runs : Nat, started : BOOLEAN]
Feeds == [connected : BOOLEAN, open : BOOLEAN, place : Nat, last : Nat, lastEpoch : Nat, fresh : BOOLEAN, reset : BOOLEAN,
          reseed : Reseeds]
Pendings == [pending : Nat, park : BOOLEAN]
Lives == [id : Nat, runs : Nat, park : BOOLEAN, ended : BOOLEAN]
ParkRequests == [at : {"none", "asked", "answered"}, id : Nat, park : BOOLEAN, answer : BOOLEAN]

FollowType ==
  /\ server \in ServerStates /\ log \in Logs /\ epoch \in Nat
  /\ feed \in Feeds /\ app \in Pendings /\ live \in Lives
  /\ refresh \in {"none", "asked", "read"}
  /\ fallback \in {"none", "newest", "older"}
  /\ actual \in SUBSET {"list", "refresh", "fallback"}
  /\ request \in ParkRequests
  /\ early \in SUBSET {"unheard", "seeded"}
  /\ crossed \in BOOLEAN /\ stale \in BOOLEAN

\* Nothing is ahead of the server: no entry, no place in its stream, no start of it.
FollowBounds ==
  /\ server.runs <= MaxRuns
  /\ server.phase # "ended" => server.id # 0
  /\ live.id <= server.id /\ app.pending <= server.id /\ request.id <= server.id /\ feed.reseed.id <= server.id
  /\ feed.lastEpoch <= epoch
  /\ feed.lastEpoch = epoch => feed.last <= Len(log)
  /\ feed.open => feed.place <= Len(log) /\ (feed.lastEpoch = epoch => feed.last <= feed.place)
  /\ feed.connected => feed.open
  /\ feed.reseed.at # "none" => feed.open /\ ~feed.reset
  /\ request.at = "asked" => ~request.answer

\* What the events of the entry claimed last may be, by how far it is.
KindsOf(phase) ==
  CASE phase = "claimed" -> {"running", "parked", "unparked"}
    [] phase = "started" -> {"running", "parked", "unparked", "JobStarted", "RunFinished"}
    [] phase = "finished" -> {"running", "parked", "unparked", "JobStarted", "RunFinished", "JobFinished"}
    [] phase = "ended" -> EventKinds

\* The log with one more event.
Appended(l, e, m) == m = Append(l, e)

FinishedRuns(l, n, id) == {i \in 1 .. n : l[i] = Event("RunFinished", id)}

\* Events after a place of the stream.
Ahead(l, p, kind, id) == \E i \in p + 1 .. Len(l) : l[i] = Event(kind, id)
ParkAhead(l, p, id) == \E i \in p + 1 .. Len(l) : IsPark(l[i], id)
ChangeAhead(l, p) == \E i \in p + 1 .. Len(l) : l[i].kind \in QueueKinds

\* The log of one start of the server: entry after entry, each claimed first, and started before its runs finish.
LogOrdered(l, s) ==
  /\ \A i \in 1 .. Len(l) : l[i].id <= s.id /\ (l[i].id = s.id => l[i].kind \in KindsOf(s.phase))
  /\ \A j \in 1 .. Len(l) : \A i \in 1 .. j - 1 :
       /\ l[i].id <= l[j].id
       /\ l[i].id = l[j].id =>
            /\ l[j].kind # "running"
            /\ l[j].kind = "JobStarted" => l[i].kind \notin {"JobStarted", "RunFinished"}

\* It tells what the server is: the claim, the start, the runs and the last reservation of its entry, and each other's end.
LogTells(l, s) ==
  /\ s.phase # "ended" => Ahead(l, 0, "running", s.id)
  /\ s.phase = "started" => Ahead(l, 0, "JobStarted", s.id)
  /\ s.phase \in {"claimed", "started"} => Cardinality(FinishedRuns(l, Len(l), s.id)) = s.runs
  /\ \A i \in 1 .. Len(l) :
       l[i].kind = "ended" \/ (l[i].id = s.id /\ s.phase # "ended") \/ Ahead(l, i, "ended", l[i].id)
  /\ s.phase \in {"claimed", "started"} =>
       /\ s.park => ParkAhead(l, 0, s.id)
       /\ \A i \in 1 .. Len(l) : IsPark(l[i], s.id) /\ ~ParkAhead(l, i, s.id) => s.park = (l[i].kind = "parked")

\* What is followed runs, or its end is still to be heard.
NotOver(l, s, v, p) == ~v.ended => (v.id = s.id /\ s.phase # "ended") \/ Ahead(l, p, "ended", v.id)

\* What runs is followed with the runs heard or seeded, or its start is still to be heard.
RunningHeard(l, s, v, p) ==
  s.phase = "started" =>
    \/ Ahead(l, p, "JobStarted", s.id)
    \/ /\ v.id = s.id /\ ~v.ended
       /\ Cardinality(FinishedRuns(l, p, s.id)) <= v.runs /\ v.runs <= s.runs

\* The reservation of the entry followed is the server's, or a change of it is still to be heard.
LiveParkHeard(l, s, v, p) ==
  s.phase = "started" => Ahead(l, p, "JobStarted", s.id) \/ ParkAhead(l, p, s.id) \/ v.park = s.park

\* So is the reservation of the pending entry, kept for its start.
PendingParkHeard(l, s, v, a, p) ==
  /\ a.pending = s.id /\ ~(v.id = s.id /\ ~v.ended)
  /\ s.phase = "claimed" \/ (s.phase = "started" /\ Ahead(l, p, "JobStarted", s.id))
  => Ahead(l, p, "running", s.id) \/ ParkAhead(l, p, s.id) \/ a.park = s.park

FollowHeard(p) ==
  "unheard" \notin early =>
    /\ NotOver(log, server, live, p) /\ RunningHeard(log, server, live, p)
    /\ early = {} /\ ~crossed => LiveParkHeard(log, server, live, p) /\ PendingParkHeard(log, server, live, app, p)

\* A list, or a read about to be shown, that is not the queue as it is will be read again.
ListHeard(p) ==
  /\ ~stale /\ ("list" \notin actual \/ (fallback = "newest" /\ "fallback" \notin actual)) =>
       refresh = "asked" \/ (refresh = "read" /\ "refresh" \in actual) \/ ChangeAhead(log, p)
  /\ refresh = "read" /\ "refresh" \notin actual => ChangeAhead(log, p)

\* The stream may be continued from the last event heard.
Resumable == feed.last # 0 /\ feed.lastEpoch = epoch
OnStream == feed.open /\ ~feed.reset

AtList(p) == (Resumable /\ p = feed.last) \/ (OnStream /\ p = feed.place)
AtFollow(p) == (Resumable /\ p = feed.last) \/ (OnStream /\ p = feed.place /\ feed.reseed.at = "none")
HeardInv == \A p \in Nat : (AtList(p) => ListHeard(p)) /\ (AtFollow(p) => FollowHeard(p))

\* What a reseed has read: the entry runs or its end is still to be heard, and so is a later entry's claim.
ReseedTold(l, s, r, p) ==
  r.at \in {"detail", "execution"} =>
    /\ r.id # 0
    /\ (r.id = s.id /\ s.phase # "ended") \/ Ahead(l, p, "ended", r.id)
    /\ r.id < s.id /\ s.phase # "ended" => Ahead(l, p, "running", s.id)
    /\ r.at = "execution" /\ r.id = s.id /\ s.phase = "started" => r.started \/ Ahead(l, p, "JobStarted", r.id)
    /\ r.at = "execution" /\ r.id = s.id /\ s.phase \in {"claimed", "started"} => ParkAhead(l, p, r.id) \/ r.park = s.park
ReseedTrue == \A p \in Nat : p = feed.place => ReseedTold(log, server, feed.reseed, p)

\* A request answered well, and not crossed by another's, says what the reservation is.
AnswerTrue ==
  request.at = "answered" /\ request.answer /\ ~crossed /\ request.id = server.id /\ server.phase \in {"claimed", "started"}
    => server.park = request.park

FollowInv ==
  FollowType /\ FollowBounds /\ LogOrdered(log, server) /\ LogTells(log, server) /\ HeardInv /\ ReseedTrue /\ AnswerTrue

(* The log and its places.                                                  *)

\* An event is its kind and its entry.
LEMMA EventShape ==
  /\ \A kind, id : Event(kind, id).kind = kind /\ Event(kind, id).id = id
  /\ \A kind, id, otherKind, other : Event(kind, id) = Event(otherKind, other) <=> kind = otherKind /\ id = other
  /\ \A kind \in EventKinds, id \in Nat : Event(kind, id) \in Events
  /\ \A e \in Events : e.kind \in EventKinds /\ e.id \in Nat /\ e = Event(e.kind, e.id)
BY DEF Event, Events

LEMMA AppendedLog ==
  ASSUME NEW l \in Logs, NEW e \in Events, NEW m, Appended(l, e, m)
  PROVE  /\ m \in Logs /\ Len(l) \in Nat /\ Len(m) = Len(l) + 1 /\ m[Len(l) + 1] = e
         /\ \A i \in 1 .. Len(l) : m[i] = l[i] /\ l[i] \in Events
BY LenProperties, ElementOfSeq, AppendProperties DEF Logs, Appended

LEMMA LogEvent ==
  ASSUME NEW l \in Logs
  PROVE  Len(l) \in Nat /\ \A i \in 1 .. Len(l) : l[i] \in Events
BY LenProperties, ElementOfSeq DEF Logs

\* An event appended is ahead of every place there was.
LEMMA AheadAppend ==
  ASSUME NEW l \in Logs, NEW e \in Events, NEW p \in Nat, p <= Len(l), NEW m, Appended(l, e, m)
  PROVE  /\ \A kind, id : Ahead(m, p, kind, id) <=> Ahead(l, p, kind, id) \/ e = Event(kind, id)
         /\ \A id : ParkAhead(m, p, id) <=> ParkAhead(l, p, id) \/ IsPark(e, id)
         /\ ChangeAhead(m, p) <=> ChangeAhead(l, p) \/ e.kind \in QueueKinds
         /\ \A id : FinishedRuns(m, p, id) = FinishedRuns(l, p, id)
<1>1. /\ Len(l) \in Nat /\ Len(m) = Len(l) + 1 /\ m[Len(l) + 1] = e /\ \A i \in 1 .. Len(l) : m[i] = l[i]
  BY AppendedLog
<1>2. p + 1 .. Len(m) = (p + 1 .. Len(l)) \cup {Len(l) + 1} /\ p + 1 .. Len(l) \subseteq 1 .. Len(l)
  BY <1>1
<1>3. 1 .. p \subseteq 1 .. Len(l)
  BY <1>1
<1>4. \A kind, id : Ahead(m, p, kind, id) <=> Ahead(l, p, kind, id) \/ e = Event(kind, id)
  BY <1>1, <1>2 DEF Ahead
<1>5. \A id : ParkAhead(m, p, id) <=> ParkAhead(l, p, id) \/ IsPark(e, id)
  BY <1>1, <1>2 DEF ParkAhead
<1>6. ChangeAhead(m, p) <=> ChangeAhead(l, p) \/ e.kind \in QueueKinds
  BY <1>1, <1>2 DEF ChangeAhead
<1>7. \A id : FinishedRuns(m, p, id) = FinishedRuns(l, p, id)
  BY <1>1, <1>3 DEF FinishedRuns
<1> QED
  BY <1>4, <1>5, <1>6, <1>7

\* What is ahead of a place is the next event, or ahead of the next place.
LEMMA AheadNext ==
  ASSUME NEW l \in Logs, NEW p \in Nat, p < Len(l)
  PROVE  /\ \A kind, id : Ahead(l, p, kind, id) <=> l[p + 1] = Event(kind, id) \/ Ahead(l, p + 1, kind, id)
         /\ \A id : ParkAhead(l, p, id) <=> IsPark(l[p + 1], id) \/ ParkAhead(l, p + 1, id)
         /\ ChangeAhead(l, p) <=> l[p + 1].kind \in QueueKinds \/ ChangeAhead(l, p + 1)
<1>1. p + 1 .. Len(l) = {p + 1} \cup (p + 1 + 1 .. Len(l))
  BY LogEvent
<1> QED
  BY <1>1 DEF Ahead, ParkAhead, ChangeAhead

\* More is ahead of an earlier place.
LEMMA AheadEarlier ==
  ASSUME NEW l \in Logs, NEW p \in Nat, NEW q \in Nat, p <= q
  PROVE  /\ \A kind, id : Ahead(l, q, kind, id) => Ahead(l, p, kind, id)
         /\ \A id : ParkAhead(l, q, id) => ParkAhead(l, p, id)
         /\ ChangeAhead(l, q) => ChangeAhead(l, p)
<1>1. q + 1 .. Len(l) \subseteq p + 1 .. Len(l)
  BY LogEvent
<1> QED
  BY <1>1 DEF Ahead, ParkAhead, ChangeAhead

\* At the end of the log nothing is ahead.
LEMMA NothingAhead ==
  ASSUME NEW l \in Logs
  PROVE  /\ \A kind, id : ~Ahead(l, Len(l), kind, id)
         /\ \A id : ~ParkAhead(l, Len(l), id)
         /\ ~ChangeAhead(l, Len(l))
<1>1. Len(l) + 1 .. Len(l) = {}
  BY LogEvent
<1> QED
  BY <1>1 DEF Ahead, ParkAhead, ChangeAhead

\* The finished runs heard are counted one event at a time.
LEMMA RunsCounted ==
  ASSUME NEW l \in Logs, NEW n \in Nat, NEW id
  PROVE  /\ IsFiniteSet(FinishedRuns(l, n, id)) /\ Cardinality(FinishedRuns(l, n, id)) \in Nat
         /\ Cardinality(FinishedRuns(l, n + 1, id)) =
              IF l[n + 1] = Event("RunFinished", id) THEN Cardinality(FinishedRuns(l, n, id)) + 1
              ELSE Cardinality(FinishedRuns(l, n, id))
<1> DEFINE S == FinishedRuns(l, n, id)
<1>1. IsFiniteSet(1 .. n)
  BY FS_Interval
<1>2. S \subseteq 1 .. n
  BY DEF FinishedRuns
<1>3. IsFiniteSet(S) /\ Cardinality(S) \in Nat
  BY <1>1, <1>2, FS_Subset, FS_CardinalityType
<1>4. 1 .. n + 1 = (1 .. n) \cup {n + 1} /\ n + 1 \notin S
  BY <1>2
<1>5. FinishedRuns(l, n + 1, id) = IF l[n + 1] = Event("RunFinished", id) THEN S \cup {n + 1} ELSE S
  BY <1>4 DEF FinishedRuns
<1>6. Cardinality(S \cup {n + 1}) = Cardinality(S) + 1
  BY <1>3, <1>4, FS_AddElement
<1> QED
  BY <1>3, <1>5, <1>6

\* No fewer are heard at a later place.
LEMMA RunsGrow ==
  ASSUME NEW l \in Logs, NEW p \in Nat, NEW q \in Nat, p <= q, NEW id
  PROVE  Cardinality(FinishedRuns(l, p, id)) <= Cardinality(FinishedRuns(l, q, id))
<1>1. FinishedRuns(l, p, id) \subseteq FinishedRuns(l, q, id)
  BY DEF FinishedRuns
<1>2. IsFiniteSet(FinishedRuns(l, q, id))
  BY RunsCounted
<1> QED
  BY <1>1, <1>2, FS_Subset

(* One step of the server and its event.                                    *)

LogStep(s, t, e) ==
  /\ t \in ServerStates
  /\ \/ s.phase = "ended" /\ t.phase = "claimed" /\ t.id = s.id + 1 /\ t.runs = 0 /\ ~t.park /\ e = Event("running", t.id)
     \/ s.phase = "claimed" /\ t.phase = "started" /\ t.id = s.id /\ t.runs = s.runs /\ t.park = s.park /\ e = Event("JobStarted", t.id)
     \/ s.phase = "started" /\ t.phase = "started" /\ t.id = s.id /\ t.runs = s.runs + 1 /\ t.park = s.park /\ e = Event("RunFinished", t.id)
     \/ s.phase = "started" /\ t.phase = "finished" /\ t.id = s.id /\ e = Event("JobFinished", t.id)
     \/ s.phase \in {"claimed", "finished"} /\ t.phase = "ended" /\ t.id = s.id /\ e = Event("ended", t.id)
     \/ /\ s.phase \in {"claimed", "started"} /\ t.phase = s.phase /\ t.id = s.id /\ t.runs = s.runs /\ t.park = ~s.park
        /\ e = Event(IF s.park THEN "unparked" ELSE "parked", t.id)

\* A step of the server never goes back to an earlier entry, and its event is about the entry it is at.
LEMMA StepShape ==
  ASSUME NEW s \in ServerStates, NEW t, NEW e, LogStep(s, t, e)
  PROVE  t \in ServerStates /\ e \in Events /\ e.id = t.id /\ s.id <= t.id /\ t.id \in Nat /\ s.id \in Nat
<1>1. t \in ServerStates /\ s.id \in Nat /\ t.id \in Nat
  BY DEF LogStep, ServerStates
<1>2. \E kind \in EventKinds : e = Event(kind, t.id)
  BY EventShape DEF LogStep, EventKinds, QueueKinds
<1>3. s.id <= t.id
  BY <1>1 DEF LogStep
<1> QED
  BY <1>1, <1>2, <1>3, EventShape

\* The log stays in order.
LEMMA StepOrdered ==
  ASSUME NEW s \in ServerStates, NEW t, NEW e, NEW l \in Logs, NEW m, Appended(l, e, m), LogStep(s, t, e),
         LogOrdered(l, s)
  PROVE  LogOrdered(m, t)
<1>1. t \in ServerStates /\ e \in Events /\ e.id = t.id /\ s.id <= t.id /\ t.id \in Nat /\ s.id \in Nat
  BY StepShape
<1>2. /\ m \in Logs /\ Len(l) \in Nat /\ Len(m) = Len(l) + 1 /\ m[Len(l) + 1] = e
      /\ \A i \in 1 .. Len(l) : m[i] = l[i] /\ l[i] \in Events
  BY <1>1, AppendedLog
<1>3. \A i \in 1 .. Len(l) : l[i].id <= s.id /\ (l[i].id = s.id => l[i].kind \in KindsOf(s.phase))
  BY DEF LogOrdered
<1>4. e.kind \in KindsOf(t.phase)
  BY EventShape, EventShape DEF LogStep, KindsOf, EventKinds, QueueKinds
<1>5. t.id = s.id => KindsOf(s.phase) \subseteq KindsOf(t.phase)
  BY EventShape DEF LogStep, KindsOf, ServerStates, EventKinds, QueueKinds
<1>6. \A i \in 1 .. Len(m) : m[i].id <= t.id /\ (m[i].id = t.id => m[i].kind \in KindsOf(t.phase))
  <2> TAKE i \in 1 .. Len(m)
  <2>1. CASE i = Len(l) + 1
    BY <2>1, <1>1, <1>2, <1>4
  <2>2. CASE i \in 1 .. Len(l)
    <3>1. m[i] = l[i] /\ l[i].id \in Nat /\ l[i].id <= s.id
      BY <2>2, <1>2, <1>3, EventShape
    <3>2. l[i].id <= t.id
      BY <3>1, <1>1
    <3>3. l[i].id = t.id => t.id = s.id
      BY <3>1, <1>1
    <3> QED
      BY <2>2, <3>1, <3>2, <3>3, <1>3, <1>5
  <2> QED
    BY <2>1, <2>2, <1>2
<1>7. \A i \in 1 .. Len(l) : l[i].id = e.id => e.kind # "running" /\ (e.kind = "JobStarted" => l[i].kind \notin {"JobStarted", "RunFinished"})
  <2> TAKE i \in 1 .. Len(l)
  <2> HAVE l[i].id = e.id
  <2>1. l[i].id = s.id /\ t.id = s.id /\ l[i].kind \in KindsOf(s.phase)
    BY <1>1, <1>2, <1>3 DEF ServerStates
  <2>2. e.kind # "running"
    BY <2>1 DEF LogStep, Event, ServerStates
  <2>3. e.kind = "JobStarted" => s.phase = "claimed"
    BY EventShape DEF LogStep
  <2> QED
    BY <2>1, <2>2, <2>3 DEF KindsOf
<1>8. ASSUME NEW j \in 1 .. Len(m), NEW i \in 1 .. j - 1
      PROVE  /\ m[i].id <= m[j].id
             /\ m[i].id = m[j].id => m[j].kind # "running" /\ (m[j].kind = "JobStarted" => m[i].kind \notin {"JobStarted", "RunFinished"})
  <2>1. CASE j = Len(l) + 1
    <3>1. i \in 1 .. Len(l) /\ m[i] = l[i] /\ m[j] = e
      BY <2>1, <1>2
    <3>2. l[i].id <= e.id
      <4>1. l[i].id \in Nat /\ l[i].id <= s.id
        BY <3>1, <1>2, <1>3, EventShape
      <4> QED
        BY <4>1, <1>1
    <3> QED
      BY <3>1, <3>2, <1>7
  <2>2. CASE j \in 1 .. Len(l)
    <3>1. i \in 1 .. Len(l) /\ m[i] = l[i] /\ m[j] = l[j]
      BY <2>2, <1>2
    <3> QED
      BY <3>1, <2>2 DEF LogOrdered
  <2> QED
    BY <2>1, <2>2, <1>2
<1> QED
  BY <1>6, <1>8 DEF LogOrdered

\* It goes on telling what the server is.
LEMMA StepTells ==
  ASSUME NEW s \in ServerStates, NEW t, NEW e, NEW l \in Logs, NEW m, Appended(l, e, m), LogStep(s, t, e),
         LogOrdered(l, s), LogTells(l, s)
  PROVE  LogTells(m, t)
<1>1. t \in ServerStates /\ e \in Events /\ e.id = t.id /\ s.id <= t.id /\ t.id \in Nat /\ s.id \in Nat
  BY StepShape
<1>2. /\ m \in Logs /\ Len(l) \in Nat /\ Len(m) = Len(l) + 1 /\ m[Len(l) + 1] = e
      /\ \A i \in 1 .. Len(l) : m[i] = l[i] /\ l[i] \in Events
  BY <1>1, AppendedLog
<1>3. \A p \in Nat : p <= Len(l) =>
        /\ \A kind, id : Ahead(m, p, kind, id) <=> Ahead(l, p, kind, id) \/ e = Event(kind, id)
        /\ \A id : ParkAhead(m, p, id) <=> ParkAhead(l, p, id) \/ IsPark(e, id)
        /\ \A id : FinishedRuns(m, p, id) = FinishedRuns(l, p, id)
  BY <1>1, AheadAppend
<1>4. t.phase # "ended" => Ahead(m, 0, "running", t.id)
  BY <1>1, <1>2, <1>3 DEF LogTells, LogStep, ServerStates
<1>5. t.phase = "started" => Ahead(m, 0, "JobStarted", t.id)
  BY <1>1, <1>2, <1>3 DEF LogTells, LogStep, ServerStates
<1>6. t.phase \in {"claimed", "started"} => Cardinality(FinishedRuns(m, Len(m), t.id)) = t.runs
  <2> HAVE t.phase \in {"claimed", "started"}
  <2>1. /\ Cardinality(FinishedRuns(l, Len(l), t.id)) \in Nat
        /\ Cardinality(FinishedRuns(m, Len(m), t.id)) =
             IF e = Event("RunFinished", t.id) THEN Cardinality(FinishedRuns(l, Len(l), t.id)) + 1
             ELSE Cardinality(FinishedRuns(l, Len(l), t.id))
    <3>1. FinishedRuns(m, Len(l), t.id) = FinishedRuns(l, Len(l), t.id)
      BY <1>2, <1>3
    <3>2. /\ Cardinality(FinishedRuns(m, Len(l), t.id)) \in Nat
          /\ Cardinality(FinishedRuns(m, Len(l) + 1, t.id)) =
               IF m[Len(l) + 1] = Event("RunFinished", t.id) THEN Cardinality(FinishedRuns(m, Len(l), t.id)) + 1
               ELSE Cardinality(FinishedRuns(m, Len(l), t.id))
      BY <1>2, RunsCounted
    <3> QED
      BY <1>2, <3>1, <3>2
  <2>2. CASE s.phase # "ended"
    <3>1. t.id = s.id /\ s.phase \in {"claimed", "started"} /\ Cardinality(FinishedRuns(l, Len(l), s.id)) = s.runs
      BY <2>2 DEF LogTells, LogStep, ServerStates
    <3>2. t.runs = IF e = Event("RunFinished", t.id) THEN s.runs + 1 ELSE s.runs
      BY <2>2, EventShape DEF LogStep, ServerStates
    <3> QED
      BY <2>1, <3>1, <3>2
  <2>3. CASE s.phase = "ended"
    <3>1. t.id = s.id + 1 /\ t.runs = 0 /\ e = Event("running", s.id + 1)
      BY <2>3 DEF LogStep, ServerStates
    <3>2. FinishedRuns(l, Len(l), t.id) = {}
      BY <3>1, <1>2 DEF FinishedRuns, LogOrdered, Event, ServerStates
    <3> QED
      BY <2>1, <3>1, <3>2, FS_EmptySet DEF Event
  <2> QED
    BY <2>2, <2>3 DEF ServerStates
<1>7. ASSUME NEW i \in 1 .. Len(m)
      PROVE  m[i].kind = "ended" \/ (m[i].id = t.id /\ t.phase # "ended") \/ Ahead(m, i, "ended", m[i].id)
  <2>1. CASE i = Len(l) + 1
    BY <2>1, <1>1, <1>2, EventShape DEF LogStep, ServerStates
  <2>2. CASE i \in 1 .. Len(l)
    <3>1. m[i] = l[i] /\ (Ahead(m, i, "ended", l[i].id) <=> Ahead(l, i, "ended", l[i].id) \/ e = Event("ended", l[i].id))
      BY <2>2, <1>2, <1>3
    <3>2. l[i].kind = "ended" \/ (l[i].id = s.id /\ s.phase # "ended") \/ Ahead(l, i, "ended", l[i].id)
      BY <2>2 DEF LogTells
    <3>3. s.phase # "ended" => t.id = s.id /\ (t.phase = "ended" => e = Event("ended", s.id))
      BY DEF LogStep, ServerStates
    <3> QED
      BY <3>1, <3>2, <3>3
  <2> QED
    BY <2>1, <2>2, <1>2
<1>8. t.phase \in {"claimed", "started"} => (t.park => ParkAhead(m, 0, t.id))
  <2> HAVE t.phase \in {"claimed", "started"}
  <2>1. ParkAhead(m, 0, t.id) <=> ParkAhead(l, 0, t.id) \/ IsPark(e, t.id)
    BY <1>2, <1>3
  <2> QED
    BY <2>1 DEF LogTells, LogStep, ServerStates, IsPark
<1>9. ASSUME t.phase \in {"claimed", "started"}, NEW i \in 1 .. Len(m), IsPark(m[i], t.id), ~ParkAhead(m, i, t.id)
      PROVE  t.park = (m[i].kind = "parked")
  <2>1. CASE i = Len(l) + 1
    BY <2>1, <1>9, <1>2, EventShape DEF LogStep, ServerStates, IsPark
  <2>2. CASE i \in 1 .. Len(l)
    <3>1. m[i] = l[i] /\ ~ParkAhead(l, i, t.id) /\ ~IsPark(e, t.id)
      BY <2>2, <1>2, <1>3, <1>9
    <3>2. l[i].id = t.id /\ l[i].id <= s.id
      BY <2>2, <3>1, <1>9, EventShape DEF LogOrdered, IsPark
    <3>3. t.id = s.id /\ t.park = s.park /\ s.phase \in {"claimed", "started"}
      BY <3>1, <3>2, <1>1, <1>9 DEF LogStep, ServerStates, IsPark
    <3> QED
      BY <2>2, <3>1, <3>3, <1>9 DEF LogTells
  <2> QED
    BY <2>1, <2>2, <1>2
<1> QED
  BY <1>4, <1>5, <1>6, <1>7, <1>8, <1>9 DEF LogTells

\* What was heard at a place of the stream is still to be completed by what is ahead of it.
LEMMA StepHeard ==
  ASSUME NEW s \in ServerStates, NEW t, NEW e, NEW l \in Logs, NEW m, Appended(l, e, m), LogStep(s, t, e),
         NEW v \in Lives, NEW a \in Pendings, NEW p \in Nat, p <= Len(l)
  PROVE  /\ NotOver(l, s, v, p) => NotOver(m, t, v, p)
         /\ RunningHeard(l, s, v, p) => RunningHeard(m, t, v, p)
         /\ LiveParkHeard(l, s, v, p) => LiveParkHeard(m, t, v, p)
         /\ PendingParkHeard(l, s, v, a, p) => PendingParkHeard(m, t, v, a, p)
<1>1. t \in ServerStates /\ e \in Events /\ e.id = t.id /\ s.id <= t.id /\ t.id \in Nat /\ s.id \in Nat
  BY StepShape
<1>2. /\ \A kind, id : Ahead(m, p, kind, id) <=> Ahead(l, p, kind, id) \/ e = Event(kind, id)
      /\ \A id : ParkAhead(m, p, id) <=> ParkAhead(l, p, id) \/ IsPark(e, id)
      /\ \A id : FinishedRuns(m, p, id) = FinishedRuns(l, p, id)
  BY <1>1, AheadAppend
<1>3. NotOver(l, s, v, p) => NotOver(m, t, v, p)
  BY <1>2 DEF NotOver, LogStep, ServerStates
<1>4. RunningHeard(l, s, v, p) => RunningHeard(m, t, v, p)
  BY <1>2 DEF RunningHeard, LogStep, ServerStates, Lives
<1>5. LiveParkHeard(l, s, v, p) => LiveParkHeard(m, t, v, p)
  BY <1>2 DEF LiveParkHeard, LogStep, ServerStates, IsPark
<1>6. PendingParkHeard(l, s, v, a, p) => PendingParkHeard(m, t, v, a, p)
  BY <1>1, <1>2, EventShape DEF PendingParkHeard, LogStep, ServerStates, IsPark
<1> QED
  BY <1>3, <1>4, <1>5, <1>6

\* So does what a reseed has read.
LEMMA StepReseed ==
  ASSUME NEW s \in ServerStates, NEW t, NEW e, NEW l \in Logs, NEW m, Appended(l, e, m), LogStep(s, t, e),
         NEW r \in Reseeds, r.id <= s.id, NEW p \in Nat, p <= Len(l), ReseedTold(l, s, r, p)
  PROVE  ReseedTold(m, t, r, p)
<1>1. t \in ServerStates /\ e \in Events /\ e.id = t.id /\ s.id <= t.id /\ t.id \in Nat /\ s.id \in Nat
  BY StepShape
<1>2. /\ \A kind, id : Ahead(m, p, kind, id) <=> Ahead(l, p, kind, id) \/ e = Event(kind, id)
      /\ \A id : ParkAhead(m, p, id) <=> ParkAhead(l, p, id) \/ IsPark(e, id)
  BY <1>1, AheadAppend
<1> SUFFICES ASSUME r.at \in {"detail", "execution"} PROVE ReseedTold(m, t, r, p)
  BY DEF ReseedTold
<1>3. (r.id = t.id /\ t.phase # "ended") \/ Ahead(m, p, "ended", r.id)
  BY <1>2 DEF ReseedTold, LogStep, ServerStates
<1>4. r.id < t.id /\ t.phase # "ended" => Ahead(m, p, "running", t.id)
  BY <1>2 DEF ReseedTold, LogStep, ServerStates, Reseeds
<1>5. r.at = "execution" /\ r.id = t.id /\ t.phase = "started" => r.started \/ Ahead(m, p, "JobStarted", r.id)
  BY <1>2 DEF ReseedTold, LogStep, ServerStates, Reseeds
<1>6. r.at = "execution" /\ r.id = t.id /\ t.phase \in {"claimed", "started"} => ParkAhead(m, p, r.id) \/ r.park = t.park
  BY <1>2 DEF ReseedTold, LogStep, ServerStates, Reseeds, IsPark
<1> QED
  BY <1>3, <1>4, <1>5, <1>6 DEF ReseedTold

(* The next event heard.                                                    *)

\* What follows the start of the entry that runs is its finished runs and its reservations.
LEMMA AfterStart ==
  ASSUME NEW s \in ServerStates, NEW l \in Logs, LogOrdered(l, s), LogTells(l, s), NEW p \in Nat, p < Len(l),
         s.phase = "started", ~Ahead(l, p, "JobStarted", s.id)
  PROVE  l[p + 1].id = s.id /\ l[p + 1].kind \in {"RunFinished", "parked", "unparked"}
<1>1. Len(l) \in Nat /\ p + 1 \in 1 .. Len(l) /\ \A i \in 1 .. Len(l) : l[i] \in Events
  BY LogEvent
<1>2. PICK k \in 0 + 1 .. Len(l) : l[k] = Event("JobStarted", s.id)
  BY DEF LogTells, Ahead
<1>3. k \in 1 .. p
  BY <1>1, <1>2 DEF Ahead
<1>4. l[k].id = s.id /\ l[k].kind = "JobStarted"
  BY <1>2, EventShape
<1>5. /\ l[k].id <= l[p + 1].id
      /\ l[k].id = l[p + 1].id => l[p + 1].kind # "running" /\ l[p + 1].kind # "JobStarted"
  BY <1>1, <1>3, <1>4 DEF LogOrdered
<1>6. l[p + 1].id = s.id
  <2>1. l[p + 1].id <= s.id /\ l[p + 1].id \in Nat /\ s.id \in Nat
    BY <1>1, EventShape DEF LogOrdered, ServerStates
  <2> QED
    BY <2>1, <1>4, <1>5
<1>7. l[p + 1].kind \in KindsOf("started")
  BY <1>1, <1>6 DEF LogOrdered
<1> QED
  BY <1>4, <1>5, <1>6, <1>7 DEF KindsOf

\* What follows the claim of the entry claimed last is about it, and not its end.
LEMMA AfterClaim ==
  ASSUME NEW s \in ServerStates, NEW l \in Logs, LogOrdered(l, s), LogTells(l, s), NEW p \in Nat, p < Len(l),
         s.phase \in {"claimed", "started"}, ~Ahead(l, p, "running", s.id)
  PROVE  /\ l[p + 1].id = s.id /\ l[p + 1].kind \in {"JobStarted", "RunFinished", "parked", "unparked"}
         /\ s.phase = "claimed" => l[p + 1].kind # "JobStarted"
<1>1. Len(l) \in Nat /\ p + 1 \in 1 .. Len(l) /\ \A i \in 1 .. Len(l) : l[i] \in Events
  BY LogEvent
<1>2. PICK k \in 0 + 1 .. Len(l) : l[k] = Event("running", s.id)
  BY DEF LogTells, Ahead
<1>3. k \in 1 .. p
  BY <1>1, <1>2 DEF Ahead
<1>4. l[k].id = s.id
  BY <1>2, EventShape
<1>5. l[k].id <= l[p + 1].id /\ (l[k].id = l[p + 1].id => l[p + 1].kind # "running")
  BY <1>1, <1>3 DEF LogOrdered
<1>6. l[p + 1].id = s.id
  <2>1. l[p + 1].id <= s.id /\ l[p + 1].id \in Nat /\ s.id \in Nat
    BY <1>1, EventShape DEF LogOrdered, ServerStates
  <2> QED
    BY <2>1, <1>4, <1>5
<1>7. l[p + 1].kind \in KindsOf(s.phase)
  BY <1>1, <1>6 DEF LogOrdered
<1> QED
  BY <1>4, <1>5, <1>6, <1>7 DEF KindsOf

\* A start is heard once, after the claim and before every finished run of its entry.
LEMMA StartsOnce ==
  ASSUME NEW s \in ServerStates, NEW l \in Logs, LogOrdered(l, s), NEW p \in Nat, p < Len(l), NEW id,
         l[p + 1] = Event("JobStarted", id)
  PROVE  ~Ahead(l, p + 1, "JobStarted", id) /\ FinishedRuns(l, p + 1, id) = {} /\ ~Ahead(l, p, "running", id)
<1>1. Len(l) \in Nat /\ p + 1 \in 1 .. Len(l)
  BY LogEvent
<1>2. \A i \in p + 2 .. Len(l) : l[i].id = id => l[i].kind # "running" /\ l[i].kind # "JobStarted"
  <2> TAKE i \in p + 2 .. Len(l)
  <2>1. i \in 1 .. Len(l) /\ p + 1 \in 1 .. i - 1
    BY <1>1
  <2> QED
    BY <2>1, EventShape DEF LogOrdered
<1>3. \A i \in 1 .. p : l[i].id = id => l[i].kind # "RunFinished"
  <2> TAKE i \in 1 .. p
  <2>1. p + 1 \in 1 .. Len(l) /\ i \in 1 .. p + 1 - 1
    BY <1>1
  <2> QED
    BY <2>1, EventShape DEF LogOrdered
<1>4. ~Ahead(l, p + 1, "JobStarted", id)
  BY <1>1, <1>2, EventShape DEF Ahead
<1>5. FinishedRuns(l, p + 1, id) = {}
  BY <1>3, EventShape DEF FinishedRuns
<1>6. ~Ahead(l, p, "running", id)
  BY <1>1, <1>2, EventShape DEF Ahead
<1> QED
  BY <1>4, <1>5, <1>6

\* A claim is heard before every reservation of its entry.
LEMMA ClaimBeforeParks ==
  ASSUME NEW s \in ServerStates, NEW l \in Logs, LogOrdered(l, s), NEW p \in Nat, p < Len(l), NEW id,
         l[p + 1] = Event("running", id), ParkAhead(l, 0, id)
  PROVE  ParkAhead(l, p + 1, id)
<1>1. Len(l) \in Nat /\ p + 1 \in 1 .. Len(l)
  BY LogEvent
<1>2. PICK k \in 0 + 1 .. Len(l) : IsPark(l[k], id)
  BY DEF ParkAhead
<1>3. l[k].id = id /\ l[k].kind # "running"
  BY <1>2, EventShape DEF IsPark
<1>4. k # p + 1
  BY <1>3, EventShape
<1>5. ~(k \in 1 .. p + 1 - 1)
  BY <1>1, <1>3, EventShape DEF LogOrdered
<1>6. k \in p + 1 + 1 .. Len(l)
  BY <1>1, <1>4, <1>5
<1> QED
  BY <1>2, <1>6 DEF ParkAhead

\* How the run followed, v, and the pending entry, a, are after an event (_handle).
Follows(v, id) == v.id = id /\ ~v.ended
HeardNext(l, p, v, a, w, b) ==
  LET e == l[p + 1] IN
  \/ e.kind = "running" /\ w = v /\ b = [pending |-> e.id, park |-> FALSE]
  \/ e.kind = "ended" /\ b = a /\ w = IF Follows(v, e.id) THEN [v EXCEPT !.ended = TRUE] ELSE v
  \/ /\ e.kind \in {"parked", "unparked"}
     /\ w = IF Follows(v, e.id) THEN [v EXCEPT !.park = e.kind = "parked"] ELSE v
     /\ b = IF ~Follows(v, e.id) /\ a.pending = e.id THEN [a EXCEPT !.park = e.kind = "parked"] ELSE a
  \/ /\ e.kind = "JobStarted"
     /\ w = [id |-> a.pending, runs |-> 0, park |-> a.park, ended |-> FALSE] /\ b = [pending |-> 0, park |-> FALSE]
  \/ /\ e.kind = "RunFinished" /\ b = a
     /\ w = IF v = NoLive THEN v
            ELSE [v EXCEPT !.runs = IF @ < MaxRuns /\ @ < Cardinality(FinishedRuns(l, p + 1, e.id)) THEN @ + 1 ELSE @]
  \/ e.kind = "JobFinished" /\ b = a /\ w = [v EXCEPT !.ended = TRUE]

LEMMA HeardShape ==
  ASSUME NEW l \in Logs, NEW p \in Nat, p < Len(l), NEW v \in Lives, NEW a \in Pendings, NEW w, NEW b, HeardNext(l, p, v, a, w, b)
  PROVE  w \in Lives /\ b \in Pendings
<1>1. l[p + 1].id \in Nat
  BY LogEvent, EventShape
<1>2. /\ \A park \in BOOLEAN : [v EXCEPT !.park = park] \in Lives /\ [a EXCEPT !.park = park] \in Pendings
      /\ [v EXCEPT !.ended = TRUE] \in Lives
      /\ \A runs \in Nat : [v EXCEPT !.runs = runs] \in Lives
  BY DEF Lives, Pendings
<1>3. b \in Pendings
  <2>1. [pending |-> l[p + 1].id, park |-> FALSE] \in Pendings /\ [pending |-> 0, park |-> FALSE] \in Pendings
    BY <1>1 DEF Pendings
  <2> QED
    BY <1>2, <2>1 DEF HeardNext
<1>4. w \in Lives
  <2>1. [id |-> a.pending, runs |-> 0, park |-> a.park, ended |-> FALSE] \in Lives
    BY DEF Lives, Pendings
  <2>2. v.runs \in Nat
    BY DEF Lives
  <2>3. CASE l[p + 1].kind = "RunFinished"
    <3>1. w = v \/ w = [v EXCEPT !.runs = v.runs] \/ w = [v EXCEPT !.runs = v.runs + 1]
      BY <2>3 DEF HeardNext
    <3> QED
      BY <1>2, <2>2, <3>1
  <2>4. CASE l[p + 1].kind # "RunFinished"
    BY <1>2, <2>1, <2>4 DEF HeardNext
  <2> QED
    BY <2>3, <2>4
<1> QED
  BY <1>3, <1>4

\* What is followed is over only once its end was heard.
LEMMA HeardNotOver ==
  ASSUME NEW s \in ServerStates, NEW l \in Logs, LogOrdered(l, s), LogTells(l, s), NEW p \in Nat, p < Len(l),
         NEW v \in Lives, NEW a \in Pendings, NEW w, NEW b, HeardNext(l, p, v, a, w, b),
         l[p + 1].kind = "JobStarted" => a.pending = l[p + 1].id,
         NotOver(l, s, v, p)
  PROVE  NotOver(l, s, w, p + 1)
<1>1. Len(l) \in Nat /\ p + 1 \in 1 .. Len(l) /\ l[p + 1] \in Events
  BY LogEvent
<1>2. Ahead(l, p, "ended", v.id) => l[p + 1] = Event("ended", v.id) \/ Ahead(l, p + 1, "ended", v.id)
  BY AheadNext
<1>3. CASE l[p + 1].kind = "JobStarted"
  <2>1. w.id = l[p + 1].id
    BY <1>3 DEF HeardNext
  <2>2. (l[p + 1].id = s.id /\ s.phase # "ended") \/ Ahead(l, p + 1, "ended", l[p + 1].id)
    BY <1>1, <1>3 DEF LogTells
  <2> QED
    BY <2>1, <2>2 DEF NotOver
<1>4. CASE l[p + 1].kind = "ended"
  <2>1. w.ended \/ (w = v /\ v.id # l[p + 1].id)
    BY <1>4 DEF HeardNext, Follows, Lives
  <2> QED
    BY <2>1, <1>2, EventShape DEF NotOver
<1>5. CASE l[p + 1].kind \notin {"JobStarted", "ended"}
  <2>1. w.id = v.id /\ (w.ended \/ w.ended = v.ended)
    BY <1>5 DEF HeardNext, Lives
  <2> QED
    BY <2>1, <1>2, <1>5, EventShape DEF NotOver
<1> QED
  BY <1>3, <1>4, <1>5

\* The runs heard of the entry that runs are those of the log.
LEMMA HeardRunning ==
  ASSUME NEW s \in ServerStates, NEW l \in Logs, LogOrdered(l, s), LogTells(l, s), NEW p \in Nat, p < Len(l),
         NEW v \in Lives, NEW a \in Pendings, NEW w, NEW b, HeardNext(l, p, v, a, w, b),
         l[p + 1].kind = "JobStarted" => a.pending = l[p + 1].id,
         s.phase # "ended" => s.id # 0, s.runs <= MaxRuns,
         RunningHeard(l, s, v, p)
  PROVE  RunningHeard(l, s, w, p + 1)
<1> SUFFICES ASSUME s.phase = "started", ~Ahead(l, p + 1, "JobStarted", s.id)
             PROVE  /\ w.id = s.id /\ ~w.ended
                    /\ Cardinality(FinishedRuns(l, p + 1, s.id)) <= w.runs /\ w.runs <= s.runs
  BY DEF RunningHeard
<1> DEFINE e == l[p + 1]
           F == Cardinality(FinishedRuns(l, p, s.id))
           G == Cardinality(FinishedRuns(l, p + 1, s.id))
<1>1. Len(l) \in Nat /\ e \in Events /\ s.runs \in Nat /\ MaxRuns \in Nat /\ s.id \in Nat
  BY LogEvent, FollowAssumption DEF ServerStates
<1>2. CASE Ahead(l, p, "JobStarted", s.id)
  <2>1. e = Event("JobStarted", s.id)
    BY <1>2, AheadNext
  <2>2. w.id = s.id /\ ~w.ended /\ w.runs = 0
    BY <2>1, EventShape DEF HeardNext
  <2>3. G = 0
    BY <2>1, StartsOnce, FS_EmptySet
  <2> QED
    BY <2>2, <2>3, <1>1
<1>3. CASE ~Ahead(l, p, "JobStarted", s.id)
  <2>1. e.id = s.id /\ e.kind \in {"RunFinished", "parked", "unparked"}
    BY <1>3, AfterStart
  <2>2. v.id = s.id /\ ~v.ended /\ F <= v.runs /\ v.runs <= s.runs
    BY <1>3 DEF RunningHeard
  <2>3. F \in Nat /\ G = IF e = Event("RunFinished", s.id) THEN F + 1 ELSE F
    BY RunsCounted
  <2>4. G <= s.runs
    <3>1. Cardinality(FinishedRuns(l, Len(l), s.id)) = s.runs
      BY DEF LogTells
    <3> QED
      BY <3>1, <1>1, RunsGrow
  <2>5. CASE e.kind = "RunFinished"
    <3>1. v # NoLive
      BY <2>2 DEF NoLive
    <3>2. v.runs \in Nat
      BY DEF Lives
    <3>3. w = [v EXCEPT !.runs = IF v.runs < MaxRuns /\ v.runs < G THEN v.runs + 1 ELSE v.runs]
      BY <2>1, <2>5, <3>1 DEF HeardNext
    <3>4. w.id = v.id /\ w.ended = v.ended /\ w.runs = IF v.runs < MaxRuns /\ v.runs < G THEN v.runs + 1 ELSE v.runs
      BY <3>3 DEF Lives
    <3>5. G = F + 1
      BY <2>1, <2>3, <2>5, <1>1, EventShape
    <3> QED
      BY <1>1, <2>2, <2>3, <2>4, <3>2, <3>4, <3>5
  <2>6. CASE e.kind # "RunFinished"
    <3>1. G = F
      BY <2>3, <2>6, EventShape
    <3>2. w.id = v.id /\ w.ended = v.ended /\ w.runs = v.runs
      BY <2>1, <2>6 DEF HeardNext, Lives
    <3> QED
      BY <2>2, <3>1, <3>2
  <2> QED
    BY <2>5, <2>6
<1> QED
  BY <1>2, <1>3

\* The reservation followed is the last one heard.
LEMMA HeardLivePark ==
  ASSUME NEW s \in ServerStates, NEW l \in Logs, LogOrdered(l, s), LogTells(l, s), NEW p \in Nat, p < Len(l),
         NEW v \in Lives, NEW a \in Pendings, NEW w, NEW b, HeardNext(l, p, v, a, w, b),
         l[p + 1].kind = "JobStarted" => a.pending = l[p + 1].id /\ ~Follows(v, l[p + 1].id),
         RunningHeard(l, s, v, p), LiveParkHeard(l, s, v, p), PendingParkHeard(l, s, v, a, p)
  PROVE  LiveParkHeard(l, s, w, p + 1)
<1> SUFFICES ASSUME s.phase = "started", ~Ahead(l, p + 1, "JobStarted", s.id), ~ParkAhead(l, p + 1, s.id)
             PROVE  w.park = s.park
  BY DEF LiveParkHeard
<1> DEFINE e == l[p + 1]
<1>1. Len(l) \in Nat /\ e \in Events /\ p + 1 \in 1 .. Len(l)
  BY LogEvent
<1>2. ParkAhead(l, p, s.id) => IsPark(e, s.id)
  BY AheadNext
<1>3. CASE Ahead(l, p, "JobStarted", s.id)
  <2>1. e = Event("JobStarted", s.id)
    BY <1>3, AheadNext
  <2>2. e.kind = "JobStarted" /\ e.id = s.id
    BY <2>1, EventShape
  <2>3. ~IsPark(e, s.id) /\ ~Ahead(l, p, "running", s.id)
    BY <2>1, EventShape, StartsOnce DEF IsPark
  <2>4. a.park = s.park
    BY <1>2, <1>3, <2>2, <2>3 DEF PendingParkHeard, Follows
  <2> QED
    BY <2>2, <2>4 DEF HeardNext
<1>4. CASE ~Ahead(l, p, "JobStarted", s.id)
  <2>1. e.id = s.id /\ e.kind \in {"RunFinished", "parked", "unparked"}
    BY <1>4, AfterStart
  <2>2. v.id = s.id /\ ~v.ended
    BY <1>4 DEF RunningHeard
  <2>3. CASE e.kind = "RunFinished"
    <3>1. ~IsPark(e, s.id)
      BY <2>3, EventShape DEF IsPark
    <3>2. w.park = v.park
      BY <2>3 DEF HeardNext, Lives
    <3> QED
      BY <1>2, <1>4, <3>1, <3>2 DEF LiveParkHeard
  <2>4. CASE e.kind \in {"parked", "unparked"}
    <3>1. IsPark(e, s.id)
      BY <1>1, <2>1, <2>4, EventShape DEF IsPark
    <3>2. s.park = (e.kind = "parked")
      BY <1>1, <3>1 DEF LogTells
    <3>3. w.park = (e.kind = "parked")
      BY <2>1, <2>2, <2>4 DEF HeardNext, Follows, Lives
    <3> QED
      BY <3>2, <3>3
  <2> QED
    BY <2>1, <2>3, <2>4
<1> QED
  BY <1>3, <1>4

\* So is the one kept for an entry that is about to start.
LEMMA HeardPendingPark ==
  ASSUME NEW s \in ServerStates, NEW l \in Logs, LogOrdered(l, s), LogTells(l, s), NEW p \in Nat, p < Len(l),
         NEW v \in Lives, NEW a \in Pendings, NEW w, NEW b, HeardNext(l, p, v, a, w, b),
         s.phase # "ended" => s.id # 0,
         PendingParkHeard(l, s, v, a, p)
  PROVE  PendingParkHeard(l, s, w, b, p + 1)
<1> DEFINE e == l[p + 1]
<1> SUFFICES ASSUME b.pending = s.id, ~Follows(w, s.id),
                    s.phase = "claimed" \/ (s.phase = "started" /\ Ahead(l, p + 1, "JobStarted", s.id)),
                    ~Ahead(l, p + 1, "running", s.id), ~ParkAhead(l, p + 1, s.id)
             PROVE  b.park = s.park
  BY DEF PendingParkHeard, Follows
<1>1. Len(l) \in Nat /\ e \in Events /\ p + 1 \in 1 .. Len(l) /\ s.park \in BOOLEAN
  BY LogEvent DEF ServerStates
<1>2. /\ ParkAhead(l, p, s.id) => IsPark(e, s.id)
      /\ Ahead(l, p, "running", s.id) => e = Event("running", s.id)
      /\ s.phase = "started" => Ahead(l, p, "JobStarted", s.id)
  BY AheadNext
<1>3. CASE Ahead(l, p, "running", s.id)
  <2>1. e = Event("running", s.id)
    BY <1>2, <1>3
  <2>2. ~s.park
    BY <2>1, ClaimBeforeParks DEF LogTells
  <2>3. b.park = FALSE
    BY <2>1, EventShape DEF HeardNext
  <2> QED
    BY <1>1, <2>2, <2>3
<1>4. CASE ~Ahead(l, p, "running", s.id)
  <2>1. e.id = s.id /\ e.kind \in {"JobStarted", "RunFinished", "parked", "unparked"} /\ e.kind # "JobStarted"
    <3>1. e.id = s.id /\ e.kind \in {"JobStarted", "RunFinished", "parked", "unparked"}
      BY <1>4, AfterClaim
    <3>2. e.kind = "JobStarted" => b.pending = 0
      BY DEF HeardNext
    <3> QED
      BY <3>1, <3>2
  <2>2. CASE e.kind = "RunFinished"
    <3>1. b = a /\ w.id = v.id /\ w.ended = v.ended
      BY <2>2 DEF HeardNext, Lives
    <3>2. ~IsPark(e, s.id)
      BY <2>2, EventShape DEF IsPark
    <3> QED
      BY <1>2, <1>4, <3>1, <3>2 DEF PendingParkHeard, Follows
  <2>3. CASE e.kind \in {"parked", "unparked"}
    <3>1. IsPark(e, s.id)
      BY <1>1, <2>1, <2>3, EventShape DEF IsPark
    <3>2. s.park = (e.kind = "parked")
      BY <1>1, <3>1 DEF LogTells
    <3>3. w.id = v.id /\ w.ended = v.ended /\ b.pending = a.pending
      BY <2>3 DEF HeardNext, Lives, Pendings
    <3>4. b = [a EXCEPT !.park = e.kind = "parked"]
      BY <2>1, <2>3, <3>3 DEF HeardNext, Follows
    <3> QED
      BY <3>2, <3>4 DEF Pendings
  <2> QED
    BY <2>1, <2>2, <2>3
<1> QED
  BY <1>3, <1>4

(* The steps of the server.                                                 *)

LEMMA FollowShapes ==
  ASSUME FollowType
  PROVE  /\ server.id \in Nat /\ server.runs \in Nat /\ server.park \in BOOLEAN
         /\ server.phase \in {"claimed", "started", "finished", "ended"}
         /\ Len(log) \in Nat /\ feed.place \in Nat /\ feed.last \in Nat /\ feed.lastEpoch \in Nat /\ feed.reseed \in Reseeds
         /\ feed.connected \in BOOLEAN /\ feed.open \in BOOLEAN /\ feed.fresh \in BOOLEAN /\ feed.reset \in BOOLEAN
         /\ feed.reseed.id \in Nat /\ feed.reseed.park \in BOOLEAN /\ feed.reseed.started \in BOOLEAN
         /\ live.id \in Nat /\ live.runs \in Nat /\ live.park \in BOOLEAN /\ live.ended \in BOOLEAN
         /\ app.pending \in Nat /\ app.park \in BOOLEAN
         /\ request.id \in Nat /\ request.park \in BOOLEAN /\ request.answer \in BOOLEAN /\ epoch \in Nat
<1>1. server.id \in Nat /\ server.runs \in Nat /\ server.park \in BOOLEAN /\ server.phase \in {"claimed", "started", "finished", "ended"}
  BY DEF FollowType, ServerStates
<1>2. Len(log) \in Nat
  BY LogEvent DEF FollowType
<1>3. /\ feed.place \in Nat /\ feed.last \in Nat /\ feed.lastEpoch \in Nat /\ feed.reseed \in Reseeds
      /\ feed.connected \in BOOLEAN /\ feed.open \in BOOLEAN /\ feed.fresh \in BOOLEAN /\ feed.reset \in BOOLEAN
  BY DEF FollowType, Feeds
<1>4. feed.reseed.id \in Nat /\ feed.reseed.park \in BOOLEAN /\ feed.reseed.started \in BOOLEAN
  BY <1>3 DEF Reseeds
<1>5. live.id \in Nat /\ live.runs \in Nat /\ live.park \in BOOLEAN /\ live.ended \in BOOLEAN
  BY DEF FollowType, Lives
<1>6. app.pending \in Nat /\ app.park \in BOOLEAN
  BY DEF FollowType, Pendings
<1>7. request.id \in Nat /\ request.park \in BOOLEAN /\ request.answer \in BOOLEAN /\ epoch \in Nat
  BY DEF FollowType, ParkRequests
<1> QED
  BY <1>1, <1>2, <1>3, <1>4, <1>5, <1>6, <1>7

\* The places followed are places of the log.
LEMMA PlacesInLog ==
  ASSUME FollowType, FollowBounds, NEW p \in Nat, AtList(p) \/ AtFollow(p)
  PROVE  p <= Len(log)
BY FollowShapes DEF FollowBounds, AtList, AtFollow, Resumable, OnStream

\* A step of the server, told by its event, keeps the invariant, if it says of the request what is so.
LEMMA LogStepKeeps ==
  ASSUME FollowInv, NEW e, LogStep(server, server', e), Appended(log, e, log'), server'.runs <= MaxRuns,
         UNCHANGED <<epoch, feed, app, live, refresh, fallback, early, stale>>,
         actual' = IF e.kind \in QueueKinds THEN {} ELSE actual,
         crossed' \in BOOLEAN, crossed => crossed',
         request' \in ParkRequests, request'.id <= server'.id, request'.at = "asked" => ~request'.answer, AnswerTrue'
  PROVE  FollowInv'
<1>1. /\ server \in ServerStates /\ log \in Logs /\ live \in Lives /\ app \in Pendings /\ feed.reseed \in Reseeds
      /\ server.id \in Nat /\ Len(log) \in Nat /\ feed.place \in Nat
  BY FollowShapes DEF FollowInv, FollowType
<1>2. server' \in ServerStates /\ e \in Events /\ server.id <= server'.id /\ server'.id \in Nat
  BY <1>1, StepShape
<1>3. log' \in Logs /\ Len(log') = Len(log) + 1
  BY <1>1, <1>2, AppendedLog
<1>4. FollowType'
  BY <1>2, <1>3 DEF FollowInv, FollowType
<1>5. FollowBounds'
  <2>1. server'.phase # "ended" => server'.id # 0
    BY <1>1, <1>2 DEF LogStep, FollowInv, FollowBounds
  <2>2. live.id <= server'.id /\ app.pending <= server'.id /\ feed.reseed.id <= server'.id
    BY <1>1, <1>2, FollowShapes DEF FollowInv, FollowBounds
  <2>3. feed.lastEpoch = epoch => feed.last <= Len(log')
    BY <1>1, <1>3, FollowShapes DEF FollowInv, FollowBounds
  <2>4. feed.open => feed.place <= Len(log')
    BY <1>1, <1>3, FollowShapes DEF FollowInv, FollowBounds
  <2> QED
    BY <2>1, <2>2, <2>3, <2>4 DEF FollowInv, FollowBounds
<1>6. LogOrdered(log', server')
  BY <1>1, <1>2, StepOrdered DEF FollowInv
<1>7. LogTells(log', server')
  BY <1>1, <1>2, StepTells DEF FollowInv
<1>8. HeardInv'
  <2> SUFFICES ASSUME NEW p \in Nat PROVE (AtList(p)' => ListHeard(p)') /\ (AtFollow(p)' => FollowHeard(p)')
    BY DEF HeardInv
  <2>1. ASSUME AtList(p)' PROVE ListHeard(p)'
    <3>1. AtList(p) /\ ListHeard(p) /\ p <= Len(log)
      BY <2>1, PlacesInLog DEF AtList, Resumable, OnStream, FollowInv, HeardInv
    <3>2. ChangeAhead(log', p) <=> ChangeAhead(log, p) \/ e.kind \in QueueKinds
      BY <1>1, <1>2, <3>1, AheadAppend
    <3> QED
      BY <3>1, <3>2 DEF ListHeard
  <2>2. ASSUME AtFollow(p)' PROVE FollowHeard(p)'
    <3>1. AtFollow(p) /\ FollowHeard(p) /\ p <= Len(log)
      BY <2>2, PlacesInLog DEF AtFollow, Resumable, OnStream, FollowInv, HeardInv
    <3>2. /\ NotOver(log, server, live, p) => NotOver(log', server', live, p)
          /\ RunningHeard(log, server, live, p) => RunningHeard(log', server', live, p)
          /\ LiveParkHeard(log, server, live, p) => LiveParkHeard(log', server', live, p)
          /\ PendingParkHeard(log, server, live, app, p) => PendingParkHeard(log', server', live, app, p)
      BY <1>1, <3>1, StepHeard
    <3> QED
      BY <3>1, <3>2 DEF FollowHeard
  <2> QED
    BY <2>1, <2>2
<1>9. ReseedTrue'
  <2> SUFFICES ASSUME NEW p \in Nat, p = feed.place PROVE ReseedTold(log', server', feed.reseed, p)
    BY DEF ReseedTrue
  <2>1. CASE feed.reseed.at \in {"detail", "execution"}
    <3>1. feed.reseed.id <= server.id /\ p <= Len(log)
      BY <2>1 DEF FollowInv, FollowBounds
    <3>2. ReseedTold(log, server, feed.reseed, p)
      BY DEF FollowInv, ReseedTrue
    <3> QED
      BY <1>1, <3>1, <3>2, StepReseed
  <2>2. CASE feed.reseed.at \notin {"detail", "execution"}
    BY <2>2 DEF ReseedTold
  <2> QED
    BY <2>1, <2>2
<1> QED
  BY <1>4, <1>5, <1>6, <1>7, <1>8, <1>9 DEF FollowInv

LEMMA FollowStarts == FollowInit => FollowInv
<1> SUFFICES ASSUME FollowInit PROVE FollowInv
  OBVIOUS
<1>1. FollowType
  <2>1. log \in Logs
    BY EmptySeq DEF FollowInit, Logs
  <2>2. feed \in Feeds
    BY DEF FollowInit, Feeds, Reseeds, NoReseed
  <2>3. server \in ServerStates
    BY DEF FollowInit, ServerStates
  <2>4. app \in Pendings /\ live \in Lives /\ request \in ParkRequests
    BY DEF FollowInit, Pendings, Lives, ParkRequests, NoLive, NoRequest
  <2> QED
    BY <2>1, <2>2, <2>3, <2>4 DEF FollowInit, FollowType
<1>2. FollowBounds
  BY FollowAssumption DEF FollowInit, FollowBounds, NoLive, NoRequest, NoReseed
<1>3. 1 .. Len(log) = {}
  BY DEF FollowInit
<1>4. LogOrdered(log, server) /\ LogTells(log, server)
  BY <1>3 DEF FollowInit, LogOrdered, LogTells
<1>5. HeardInv
  BY DEF FollowInit, HeardInv, AtList, AtFollow, Resumable, OnStream
<1>6. ReseedTrue /\ AnswerTrue
  BY DEF FollowInit, ReseedTrue, ReseedTold, AnswerTrue, NoReseed, NoRequest
<1> QED
  BY <1>1, <1>2, <1>4, <1>5, <1>6 DEF FollowInv

\* Each action of the server, and what its event tells.
LEMMA SeenActionsKeep ==
  ASSUME FollowInv,
         ServerClaims \/ ServerStarts \/ ServerFinishesRun \/ ServerFinishes \/ ServerEnds
  PROVE  FollowInv'
<1>1. /\ server \in ServerStates /\ server.id \in Nat /\ server.runs \in Nat /\ server.park \in BOOLEAN
      /\ server.phase \in {"claimed", "started", "finished", "ended"} /\ MaxRuns \in Nat
      /\ live.id \in Nat /\ app.pending \in Nat /\ request.id \in Nat /\ server.runs <= MaxRuns /\ request.id <= server.id
  BY FollowShapes, FollowAssumption DEF FollowInv, FollowType, FollowBounds
<1>2. ASSUME NEW e, LogStep(server, server', e), Appended(log, e, log'), server'.runs <= MaxRuns, server.id <= server'.id,
             TuiUnchanged, actual' = IF e.kind \in QueueKinds THEN {} ELSE actual, UNCHANGED crossed, AnswerTrue'
      PROVE  FollowInv'
  <2>1. request' \in ParkRequests /\ request'.id <= server'.id /\ (request'.at = "asked" => ~request'.answer) /\ crossed' \in BOOLEAN
    <3>1. server'.id \in Nat
      BY <1>2 DEF LogStep, ServerStates
    <3>2. request' = request
      BY <1>2 DEF TuiUnchanged
    <3> QED
      BY <1>1, <1>2, <3>1, <3>2 DEF FollowInv, FollowType, FollowBounds
  <2> QED
    BY <1>2, <2>1, LogStepKeeps DEF TuiUnchanged
<1>3. CASE ServerClaims
  <2>1. LogStep(server, server', Event("running", server.id + 1))
    BY <1>1, <1>3 DEF ServerClaims, LogStep, ServerStates
  <2>2. Appended(log, Event("running", server.id + 1), log') /\ TuiUnchanged /\ UNCHANGED crossed /\ actual' = {}
    BY <1>3 DEF ServerClaims, Publish, Appended, Event
  <2>3. server'.runs <= MaxRuns /\ server'.id = server.id + 1
    BY <1>1, <1>3 DEF ServerClaims
  <2>4. AnswerTrue'
    BY <1>1, <2>2, <2>3 DEF AnswerTrue, TuiUnchanged
  <2> QED
    BY <1>1, <1>2, <2>1, <2>2, <2>3, <2>4, EventShape DEF QueueKinds
<1>4. CASE ServerStarts
  <2>1. server' = [server EXCEPT !.phase = "started"] /\ server.phase = "claimed" /\ Appended(log, Event("JobStarted", server.id), log')
    BY <1>4 DEF ServerStarts, Publish, Appended, Event
  <2>2. TuiUnchanged /\ UNCHANGED <<actual, crossed>>
    BY <1>4 DEF ServerStarts
  <2>3. server' \in ServerStates /\ server'.phase = "started" /\ server'.id = server.id /\ server'.runs = server.runs /\ server'.park = server.park
    BY <1>1, <2>1 DEF ServerStates
  <2>4. LogStep(server, server', Event("JobStarted", server.id))
    BY <2>1, <2>3 DEF LogStep
  <2>5. AnswerTrue'
    BY <2>1, <2>2, <2>3 DEF AnswerTrue, TuiUnchanged, FollowInv
  <2> QED
    BY <1>1, <1>2, <2>1, <2>2, <2>3, <2>4, <2>5, EventShape DEF QueueKinds
<1>5. CASE ServerFinishesRun
  <2>1. /\ server' = [server EXCEPT !.runs = server.runs + 1] /\ server.phase = "started" /\ server.runs < MaxRuns
        /\ Appended(log, Event("RunFinished", server.id), log')
    BY <1>5 DEF ServerFinishesRun, Publish, Appended, Event
  <2>2. TuiUnchanged /\ UNCHANGED <<actual, crossed>>
    BY <1>5 DEF ServerFinishesRun
  <2>3. /\ server' \in ServerStates /\ server'.phase = "started" /\ server'.id = server.id /\ server'.runs = server.runs + 1
        /\ server'.park = server.park
    BY <1>1, <2>1 DEF ServerStates
  <2>4. LogStep(server, server', Event("RunFinished", server.id))
    BY <2>1, <2>3 DEF LogStep
  <2>5. AnswerTrue'
    BY <2>1, <2>2, <2>3 DEF AnswerTrue, TuiUnchanged, FollowInv
  <2>6. server'.runs <= MaxRuns
    BY <1>1, <2>1, <2>3
  <2> QED
    BY <1>1, <1>2, <2>1, <2>2, <2>3, <2>4, <2>5, <2>6, EventShape DEF QueueKinds
<1>6. CASE ServerFinishes
  <2>1. server' = [server EXCEPT !.phase = "finished"] /\ server.phase = "started" /\ Appended(log, Event("JobFinished", server.id), log')
    BY <1>6 DEF ServerFinishes, Publish, Appended, Event
  <2>2. TuiUnchanged /\ UNCHANGED <<actual, crossed>>
    BY <1>6 DEF ServerFinishes
  <2>3. server' \in ServerStates /\ server'.phase = "finished" /\ server'.id = server.id /\ server'.runs = server.runs
    BY <1>1, <2>1 DEF ServerStates
  <2>4. LogStep(server, server', Event("JobFinished", server.id))
    BY <2>1, <2>3 DEF LogStep
  <2>5. AnswerTrue'
    BY <2>3 DEF AnswerTrue
  <2> QED
    BY <1>1, <1>2, <2>1, <2>2, <2>3, <2>4, <2>5, EventShape DEF QueueKinds
<1>7. CASE ServerEnds
  <2>1. /\ server' = [server EXCEPT !.phase = "ended", !.park = FALSE] /\ server.phase \in {"claimed", "finished"}
        /\ Appended(log, Event("ended", server.id), log')
    BY <1>7 DEF ServerEnds, Publish, Appended, Event
  <2>2. TuiUnchanged /\ UNCHANGED crossed /\ actual' = {}
    BY <1>7 DEF ServerEnds
  <2>3. server' \in ServerStates /\ server'.phase = "ended" /\ server'.id = server.id /\ server'.runs = server.runs
    BY <1>1, <2>1 DEF ServerStates
  <2>4. LogStep(server, server', Event("ended", server.id))
    BY <2>1, <2>3 DEF LogStep
  <2>5. AnswerTrue'
    BY <2>3 DEF AnswerTrue
  <2> QED
    BY <1>1, <1>2, <2>1, <2>2, <2>3, <2>4, <2>5, EventShape DEF QueueKinds
<1> QED
  BY <1>3, <1>4, <1>5, <1>6, <1>7

\* A reservation changed and told.
LEMMA ParkStep ==
  ASSUME FollowInv, NEW park \in BOOLEAN, server.park # park, server.phase \in {"claimed", "started"},
         server' = [server EXCEPT !.park = park], Publish(IF park THEN "parked" ELSE "unparked", server.id)
  PROVE  LET e == Event(IF server.park THEN "unparked" ELSE "parked", server.id)
         IN  /\ LogStep(server, server', e) /\ Appended(log, e, log') /\ e.kind \in QueueKinds
             /\ server'.runs = server.runs /\ server'.id = server.id /\ server'.park = park /\ server'.phase = server.phase
<1>1. server \in ServerStates /\ server.park \in BOOLEAN
  BY FollowShapes DEF FollowInv, FollowType
<1>2. /\ server' \in ServerStates /\ server'.runs = server.runs /\ server'.id = server.id /\ server'.park = park
      /\ server'.phase = server.phase
  BY <1>1 DEF ServerStates
<1>3. park = ~server.park
  BY <1>1
<1>4. Appended(log, Event(IF server.park THEN "unparked" ELSE "parked", server.id), log')
  BY <1>3 DEF Publish, Appended, Event
<1>5. Event(IF server.park THEN "unparked" ELSE "parked", server.id).kind \in QueueKinds
  BY EventShape DEF QueueKinds
<1> QED
  BY <1>2, <1>3, <1>4, <1>5 DEF LogStep

LEMMA OtherParksKeeps ==
  ASSUME FollowInv, OtherParks
  PROVE  FollowInv'
<1> DEFINE e == Event(IF server.park THEN "unparked" ELSE "parked", server.id)
<1>1. /\ server.park \in BOOLEAN /\ server.phase \in {"claimed", "started"} /\ server.runs <= MaxRuns
      /\ request \in ParkRequests /\ request.id <= server.id /\ crossed \in BOOLEAN
      /\ request.at = "asked" => ~request.answer
  BY FollowShapes DEF FollowInv, FollowType, FollowBounds, OtherParks, Ongoing
<1>2. /\ server' = [server EXCEPT !.park = ~server.park] /\ TuiUnchanged /\ actual' = {}
      /\ crossed' = (crossed \/ request.at # "none")
      /\ Publish(IF server.park THEN "unparked" ELSE "parked", server.id)
  BY DEF OtherParks
<1>3. Publish(IF ~server.park THEN "parked" ELSE "unparked", server.id)
  BY <1>1, <1>2 DEF Publish
<1>4. /\ LogStep(server, server', e) /\ Appended(log, e, log') /\ e.kind \in QueueKinds
      /\ server'.runs = server.runs /\ server'.id = server.id
  BY <1>1, <1>2, <1>3, ParkStep
<1>5. AnswerTrue'
  BY <1>2 DEF AnswerTrue, TuiUnchanged
<1> HIDE DEF e
<1> QED
  BY <1>1, <1>2, <1>4, <1>5, LogStepKeeps DEF TuiUnchanged

LEMMA ServerParksKeeps ==
  ASSUME FollowInv, ServerParks
  PROVE  FollowInv'
<1>1. /\ server.park \in BOOLEAN /\ server.runs <= MaxRuns /\ server.id \in Nat
      /\ request \in ParkRequests /\ request.id <= server.id /\ crossed \in BOOLEAN /\ request.park \in BOOLEAN
      /\ request.at = "asked" /\ ~request.answer
  BY FollowShapes DEF FollowInv, FollowType, FollowBounds, ServerParks
<1>2. UNCHANGED <<epoch, feed, app, live, refresh, fallback, early, stale, crossed>>
  BY DEF ServerParks
<1>3. /\ request' \in ParkRequests /\ request'.id = request.id /\ request'.park = request.park /\ request'.at = "answered"
      /\ request'.answer => server.phase \in {"claimed", "started"}
  <2>1. request' = [request EXCEPT !.at = "answered", !.answer = TRUE] \/ request' = [request EXCEPT !.at = "answered"]
    BY DEF ServerParks
  <2>2. request' \in ParkRequests /\ request'.id = request.id /\ request'.park = request.park /\ request'.at = "answered"
    BY <1>1, <2>1 DEF ParkRequests
  <2>3. CASE Ongoing /\ server.id = request.id /\ server.phase # "finished"
    BY <2>2, <2>3 DEF Ongoing
  <2>4. CASE ~(Ongoing /\ server.id = request.id /\ server.phase # "finished")
    <3>1. request' = [request EXCEPT !.at = "answered"]
      BY <2>4 DEF ServerParks
    <3> QED
      BY <1>1, <2>2, <3>1 DEF ParkRequests
  <2> QED
    BY <2>2, <2>3, <2>4
<1>4. CASE Ongoing /\ server.id = request.id /\ server.phase # "finished" /\ server.park # request.park
  <2> DEFINE e == Event(IF server.park THEN "unparked" ELSE "parked", server.id)
  <2>1. /\ server' = [server EXCEPT !.park = request.park] /\ actual' = {}
        /\ Publish(IF request.park THEN "parked" ELSE "unparked", server.id) /\ server.phase \in {"claimed", "started"}
    BY <1>4 DEF ServerParks, Ongoing
  <2>2. /\ LogStep(server, server', e) /\ Appended(log, e, log') /\ e.kind \in QueueKinds
        /\ server'.runs = server.runs /\ server'.id = server.id /\ server'.park = request.park
    BY <1>1, <1>4, <2>1, ParkStep
  <2>3. AnswerTrue'
    BY <1>3, <2>2 DEF AnswerTrue
  <2> HIDE DEF e
  <2> QED
    BY <1>1, <1>2, <1>3, <2>1, <2>2, <2>3, LogStepKeeps
<1>5. CASE ~(Ongoing /\ server.id = request.id /\ server.phase # "finished" /\ server.park # request.park)
  <2>1. UNCHANGED <<log, actual, server>>
    <3>1. CASE Ongoing /\ server.id = request.id /\ server.phase # "finished"
      <4>1. server.park = request.park /\ server' = [server EXCEPT !.park = request.park] /\ UNCHANGED <<log, actual>>
        BY <1>5, <3>1 DEF ServerParks
      <4> QED
        BY <4>1 DEF FollowInv, FollowType, ServerStates
    <3>2. CASE ~(Ongoing /\ server.id = request.id /\ server.phase # "finished")
      BY <3>2 DEF ServerParks
    <3> QED
      BY <3>1, <3>2
  <2>2. AnswerTrue'
    <3>1. CASE server.id = request.id /\ server.phase \in {"claimed", "started"}
      <4>1. server.park = request.park
        BY <1>5, <3>1 DEF Ongoing
      <4> QED
        BY <1>3, <2>1, <4>1 DEF AnswerTrue
    <3>2. CASE ~(server.id = request.id /\ server.phase \in {"claimed", "started"})
      BY <1>3, <2>1, <3>2 DEF AnswerTrue
    <3> QED
      BY <3>1, <3>2
  <2>3. FollowType' /\ FollowBounds'
    BY <1>1, <1>2, <1>3, <2>1 DEF FollowInv, FollowType, FollowBounds
  <2>4. HeardInv'
    BY <1>2, <2>1 DEF FollowInv, HeardInv, AtList, AtFollow, OnStream, Resumable, ListHeard, FollowHeard
  <2>5. LogOrdered(log', server') /\ LogTells(log', server') /\ ReseedTrue'
    BY <1>2, <2>1 DEF FollowInv, ReseedTrue
  <2> QED
    BY <2>2, <2>3, <2>4, <2>5 DEF FollowInv
<1> QED
  BY <1>4, <1>5

\* A new start of the server: nothing of the log is left, and the stream begins with a Reset.
LEMMA RestartKeeps ==
  ASSUME FollowInv, ServerRestarts
  PROVE  FollowInv'
<1>1. /\ server.id \in Nat /\ server.runs \in Nat /\ epoch \in Nat /\ feed.lastEpoch \in Nat /\ feed.lastEpoch <= epoch
      /\ server.runs <= MaxRuns
  BY FollowShapes DEF FollowInv, FollowBounds
<1>2. /\ epoch' = epoch + 1 /\ log' = <<>> /\ actual' = {} /\ refresh' = "none" /\ request' = NoRequest
      /\ UNCHANGED <<app, live, fallback, early, crossed>> /\ stale' = (stale \/ refresh # "none")
      /\ server' = [server EXCEPT !.phase = "ended", !.park = FALSE]
      /\ feed' = [feed EXCEPT !.open = FALSE, !.connected = FALSE, !.fresh = TRUE, !.reset = FALSE, !.reseed = NoReseed]
  BY DEF ServerRestarts
<1>3. server' \in ServerStates /\ server'.phase = "ended" /\ server'.id = server.id /\ server'.runs = server.runs
  BY <1>2 DEF FollowInv, FollowType, ServerStates
<1>4. /\ feed' \in Feeds /\ ~feed'.open /\ ~feed'.connected /\ feed'.reseed = NoReseed /\ feed'.lastEpoch = feed.lastEpoch
  <2>1. NoReseed \in Reseeds
    BY DEF NoReseed, Reseeds
  <2> QED
    BY <1>2, <2>1 DEF FollowInv, FollowType, Feeds
<1>5. FollowType'
  <2>1. log' \in Logs /\ request' \in ParkRequests
    BY <1>2, EmptySeq DEF Logs, NoRequest, ParkRequests
  <2> QED
    BY <1>1, <1>2, <1>3, <1>4, <2>1 DEF FollowInv, FollowType
<1>6. FollowBounds'
  BY <1>1, <1>2, <1>3, <1>4 DEF FollowInv, FollowBounds, NoRequest, NoReseed
<1>7. 1 .. Len(log') = {}
  BY <1>2
<1>8. LogOrdered(log', server') /\ LogTells(log', server')
  BY <1>3, <1>7 DEF LogOrdered, LogTells
<1>9. HeardInv' /\ ReseedTrue' /\ AnswerTrue'
  BY <1>1, <1>2, <1>3, <1>4 DEF HeardInv, AtList, AtFollow, Resumable, OnStream, ReseedTrue, ReseedTold, NoReseed, AnswerTrue
<1> QED
  BY <1>5, <1>6, <1>8, <1>9 DEF FollowInv

(* The steps of the feed.                                                   *)

\* What a reseed is while it asks for the running entry, and then for its detail.
LEMMA ReseedShape ==
  /\ LET q == [NoReseed EXCEPT !.at = "running"]
     IN  q \in Reseeds /\ q.at = "running" /\ q.id = 0
  /\ \A id \in Nat : LET q == [NoReseed EXCEPT !.at = "detail", !.id = id]
                     IN  q \in Reseeds /\ q.at = "detail" /\ q.id = id
<1>1. NoReseed \in Reseeds /\ NoReseed.id = 0
  BY DEF NoReseed, Reseeds
<1>2. LET q == [NoReseed EXCEPT !.at = "running"]
      IN  q \in Reseeds /\ q.at = "running" /\ q.id = 0
  BY <1>1 DEF Reseeds
<1>3. ASSUME NEW id \in Nat
      PROVE  LET q == [NoReseed EXCEPT !.at = "detail", !.id = id]
             IN  q \in Reseeds /\ q.at = "detail" /\ q.id = id
  BY <1>1 DEF Reseeds
<1> QED
  BY <1>2, <1>3

LEMMA ConnectKeeps ==
  ASSUME FollowInv, Connect
  PROVE  FollowInv'
<1>1. PICK explained \in BOOLEAN :
        LET resumes == explained /\ ~feed.fresh /\ feed.last # 0 /\ feed.lastEpoch = epoch
        IN  feed' = [feed EXCEPT !.open = TRUE, !.reset = ~resumes, !.place = IF resumes THEN feed.last ELSE Len(log)]
  BY DEF Connect
<1>2. PICK resumes \in BOOLEAN :
        /\ resumes => Resumable
        /\ feed' = [feed EXCEPT !.open = TRUE, !.reset = ~resumes, !.place = IF resumes THEN feed.last ELSE Len(log)]
  BY <1>1 DEF Resumable
<1>3. UNCHANGED <<server, log, epoch, app, live, refresh, fallback, actual, request, early, crossed, stale>> /\ ~feed.open
  BY DEF Connect
<1>4. /\ feed \in Feeds /\ feed.last \in Nat /\ Len(log) \in Nat /\ feed.reseed.at = "none" /\ ~feed.connected
      /\ Resumable => feed.last <= Len(log)
  BY <1>3, FollowShapes DEF FollowInv, FollowType, FollowBounds, Resumable
<1>5. feed' \in Feeds
  BY <1>2, <1>4 DEF Feeds
<1>6. /\ feed'.open /\ feed'.reset = ~resumes /\ feed'.place = (IF resumes THEN feed.last ELSE Len(log))
      /\ feed'.last = feed.last /\ feed'.lastEpoch = feed.lastEpoch /\ feed'.reseed = feed.reseed /\ feed'.connected = feed.connected
  BY <1>2, <1>4 DEF Feeds
<1>7. FollowType'
  BY <1>3, <1>5 DEF FollowInv, FollowType
<1>8. FollowBounds'
  <2>1. feed.lastEpoch = epoch => feed.last <= feed'.place
    BY <1>4, <1>6 DEF FollowInv, FollowBounds
  <2>2. feed'.place <= Len(log)
    BY <1>2, <1>4, <1>6
  <2> QED
    BY <1>3, <1>4, <1>6, <2>1, <2>2 DEF FollowInv, FollowBounds
<1>9. HeardInv'
  <2>1. \A p \in Nat : (AtList(p)' => AtList(p)) /\ (AtFollow(p)' => AtFollow(p))
    BY <1>2, <1>3, <1>4, <1>6 DEF AtList, AtFollow, Resumable, OnStream
  <2> QED
    BY <1>3, <2>1 DEF FollowInv, HeardInv, ListHeard, FollowHeard
<1>10. ReseedTrue' /\ AnswerTrue'
  BY <1>3, <1>4, <1>6 DEF FollowInv, ReseedTrue, ReseedTold, AnswerTrue
<1> QED
  BY <1>3, <1>7, <1>8, <1>9, <1>10 DEF FollowInv

LEMMA FeedDropKeeps ==
  ASSUME FollowInv, Drop
  PROVE  FollowInv'
<1>1. PICK health \in BOOLEAN :
        feed' = [feed EXCEPT !.open = FALSE, !.connected = FALSE, !.reset = FALSE, !.reseed = NoReseed, !.fresh = feed.fresh \/ ~health]
  BY DEF Drop
<1>2. UNCHANGED <<server, log, epoch, app, live, refresh, fallback, actual, request, early, crossed, stale>>
  BY DEF Drop
<1>3. feed \in Feeds /\ feed.fresh \in BOOLEAN /\ NoReseed \in Reseeds /\ server.id \in Nat
  BY FollowShapes DEF FollowInv, FollowType, NoReseed, Reseeds
<1>4. feed' \in Feeds
  BY <1>1, <1>3 DEF Feeds
<1>5. ~feed'.open /\ ~feed'.connected /\ feed'.reseed = NoReseed /\ feed'.last = feed.last /\ feed'.lastEpoch = feed.lastEpoch
  BY <1>1, <1>3 DEF Feeds
<1>6. FollowType'
  BY <1>2, <1>4 DEF FollowInv, FollowType
<1>7. FollowBounds'
  BY <1>2, <1>3, <1>5 DEF FollowInv, FollowBounds, NoReseed
<1>8. HeardInv'
  <2>1. \A p \in Nat : (AtList(p)' => AtList(p)) /\ (AtFollow(p)' => AtFollow(p))
    BY <1>2, <1>5 DEF AtList, AtFollow, Resumable, OnStream
  <2> QED
    BY <1>2, <2>1 DEF FollowInv, HeardInv, ListHeard, FollowHeard
<1>9. ReseedTrue' /\ AnswerTrue'
  BY <1>2, <1>5 DEF FollowInv, ReseedTrue, ReseedTold, AnswerTrue, NoReseed
<1> QED
  BY <1>2, <1>6, <1>7, <1>8, <1>9 DEF FollowInv

LEMMA ResetKeeps ==
  ASSUME FollowInv, HandleReset
  PROVE  FollowInv'
<1>1. /\ feed' = [feed EXCEPT !.fresh = FALSE, !.connected = TRUE, !.reset = FALSE, !.reseed = [NoReseed EXCEPT !.at = "running"]]
      /\ feed.open /\ refresh' = "asked" /\ actual' = actual \ {"refresh"}
      /\ UNCHANGED <<server, log, epoch, app, live, fallback, request, early, crossed, stale>>
  BY DEF HandleReset, RefreshAgain
<1>2. feed \in Feeds /\ server.id \in Nat
  BY FollowShapes DEF FollowInv, FollowType
<1>3. LET q == [NoReseed EXCEPT !.at = "running"]
      IN  q \in Reseeds /\ q.at = "running" /\ q.id = 0
  BY ReseedShape
<1>4. feed' \in Feeds
  BY <1>1, <1>2, <1>3 DEF Feeds
<1>5. /\ feed'.open /\ ~feed'.reset /\ feed'.reseed.at = "running" /\ feed'.reseed.id = 0 /\ feed'.place = feed.place
      /\ feed'.last = feed.last /\ feed'.lastEpoch = feed.lastEpoch
  BY <1>1, <1>2, <1>3 DEF Feeds
<1>6. FollowType'
  BY <1>1, <1>4 DEF FollowInv, FollowType
<1>7. FollowBounds'
  BY <1>1, <1>2, <1>5 DEF FollowInv, FollowBounds
<1>8. HeardInv'
  <2>1. \A p \in Nat : AtFollow(p)' => AtFollow(p)
    BY <1>1, <1>5 DEF AtFollow, Resumable, OnStream
  <2>2. \A p \in Nat : ListHeard(p)'
    BY <1>1 DEF ListHeard
  <2> QED
    BY <1>1, <2>1, <2>2 DEF FollowInv, HeardInv, FollowHeard
<1>9. ReseedTrue' /\ AnswerTrue'
  BY <1>1, <1>5 DEF FollowInv, ReseedTrue, ReseedTold, AnswerTrue
<1> QED
  BY <1>1, <1>6, <1>7, <1>8, <1>9 DEF FollowInv

\* A reseed that finds an entry running asks about it; one that finds none ends what was followed.
LEMMA ReseedRunningKeeps ==
  ASSUME FollowInv, ReseedRunning
  PROVE  FollowInv'
<1>1. /\ UNCHANGED <<server, log, epoch, app, fallback, request, early, crossed, stale>>
      /\ feed.reseed.at = "running" /\ feed.open /\ ~feed.reset
  BY DEF ReseedRunning, FollowInv, FollowBounds
<1>2. /\ feed \in Feeds /\ live \in Lives /\ server.id \in Nat /\ live.id \in Nat
      /\ server.phase \in {"claimed", "started", "finished", "ended"}
  BY FollowShapes DEF FollowInv, FollowType
<1>3. CASE Ongoing
  <2>1. feed' = [feed EXCEPT !.reseed = [NoReseed EXCEPT !.at = "detail", !.id = server.id]] /\ UNCHANGED <<live, refresh, actual>>
    BY <1>3 DEF ReseedRunning
  <2>2. LET q == [NoReseed EXCEPT !.at = "detail", !.id = server.id]
        IN  q \in Reseeds /\ q.at = "detail" /\ q.id = server.id
    BY <1>2, ReseedShape
  <2>3. feed' \in Feeds
    BY <1>2, <2>1, <2>2 DEF Feeds
  <2>4. /\ feed'.reseed.at = "detail" /\ feed'.reseed.id = server.id /\ feed'.open = feed.open /\ feed'.reset = feed.reset
        /\ feed'.place = feed.place /\ feed'.last = feed.last /\ feed'.lastEpoch = feed.lastEpoch /\ feed'.connected = feed.connected
    BY <1>2, <2>1, <2>2 DEF Feeds
  <2>5. FollowType'
    BY <1>1, <2>1, <2>3 DEF FollowInv, FollowType
  <2>6. FollowBounds'
    BY <1>1, <1>2, <2>1, <2>4 DEF FollowInv, FollowBounds
  <2>7. HeardInv'
    <3>1. \A p \in Nat : (AtList(p)' => AtList(p)) /\ (AtFollow(p)' => AtFollow(p))
      BY <1>1, <2>4 DEF AtList, AtFollow, Resumable, OnStream
    <3> QED
      BY <1>1, <2>1, <3>1 DEF FollowInv, HeardInv, ListHeard, FollowHeard
  <2>8. ReseedTrue'
    <3>1. server.phase # "ended" /\ server.id # 0
      BY <1>3 DEF Ongoing, FollowInv, FollowBounds
    <3> QED
      BY <1>1, <1>2, <2>4, <3>1 DEF ReseedTrue, ReseedTold
  <2>9. AnswerTrue'
    BY <1>1 DEF FollowInv, AnswerTrue
  <2> QED
    BY <1>1, <2>5, <2>6, <2>7, <2>8, <2>9 DEF FollowInv
<1>4. CASE ~Ongoing
  <2>1. /\ feed' = [feed EXCEPT !.reseed = NoReseed] /\ live' = [live EXCEPT !.ended = TRUE]
        /\ (refresh' = "asked" /\ actual' = actual \ {"refresh"}) \/ UNCHANGED <<refresh, actual>>
    BY <1>4 DEF ReseedRunning, OverWhenIdle, Ended, RefreshAgain
  <2>2. feed' \in Feeds /\ live' \in Lives
    BY <1>2, <2>1 DEF Feeds, Reseeds, NoReseed, Lives
  <2>3. /\ feed'.reseed = NoReseed /\ feed'.open = feed.open /\ feed'.reset = feed.reset
        /\ feed'.place = feed.place /\ feed'.last = feed.last /\ feed'.lastEpoch = feed.lastEpoch /\ feed'.connected = feed.connected
        /\ live'.id = live.id /\ live'.ended
    BY <1>2, <2>1 DEF Feeds, Lives
  <2>4. server.phase = "ended"
    BY <1>2, <1>4 DEF Ongoing
  <2>5. FollowType'
    BY <1>1, <2>1, <2>2 DEF FollowInv, FollowType
  <2>6. FollowBounds'
    BY <1>1, <1>2, <2>1, <2>3 DEF FollowInv, FollowBounds, NoReseed
  <2>7. HeardInv'
    <3>1. \A p \in Nat : FollowHeard(p)'
      BY <1>1, <2>3, <2>4 DEF FollowHeard, NotOver, RunningHeard, LiveParkHeard, PendingParkHeard
    <3>2. \A p \in Nat : (AtList(p)' => AtList(p)) /\ (ListHeard(p) => ListHeard(p)')
      BY <1>1, <2>1, <2>3 DEF AtList, Resumable, OnStream, ListHeard
    <3> QED
      BY <3>1, <3>2 DEF FollowInv, HeardInv
  <2>8. ReseedTrue' /\ AnswerTrue'
    BY <1>1, <2>3 DEF FollowInv, ReseedTrue, ReseedTold, AnswerTrue, NoReseed
  <2> QED
    BY <1>1, <2>5, <2>6, <2>7, <2>8 DEF FollowInv
<1> QED
  BY <1>3, <1>4

LEMMA ReseedDetailKeeps ==
  ASSUME FollowInv, ReseedDetail
  PROVE  FollowInv'
<1> DEFINE r == feed.reseed
           park == server.id = r.id /\ server.park
           started == server.id # r.id \/ server.phase # "claimed"
<1>1. /\ UNCHANGED <<server, log, epoch, app, live, refresh, fallback, actual, request, early, crossed, stale>>
      /\ r.at = "detail" /\ feed.open /\ ~feed.reset
  BY DEF ReseedDetail, FollowInv, FollowBounds
<1>2. feed \in Feeds /\ r \in Reseeds /\ server.id \in Nat /\ server.park \in BOOLEAN /\ park \in BOOLEAN /\ started \in BOOLEAN
  BY FollowShapes DEF FollowInv, FollowType
<1>3. feed' = [feed EXCEPT !.reseed = [r EXCEPT !.at = "execution", !.park = park, !.started = started]]
  BY <1>2 DEF ReseedDetail, Feeds
<1>4. PICK q \in Reseeds : q = [r EXCEPT !.at = "execution", !.park = park, !.started = started]
  BY <1>2 DEF Reseeds
<1>5. q.at = "execution" /\ q.id = r.id /\ q.park = park /\ q.started = started
  BY <1>2, <1>4 DEF Reseeds
<1>6. feed' = [feed EXCEPT !.reseed = q]
  BY <1>3, <1>4
<1>7. /\ feed' \in Feeds /\ feed'.reseed = q /\ feed'.open = feed.open /\ feed'.reset = feed.reset /\ feed'.connected = feed.connected
      /\ feed'.place = feed.place /\ feed'.last = feed.last /\ feed'.lastEpoch = feed.lastEpoch
  BY <1>2, <1>6 DEF Feeds
<1>8. FollowType' /\ FollowBounds'
  BY <1>1, <1>5, <1>7 DEF FollowInv, FollowType, FollowBounds
<1>9. HeardInv'
  <2>1. \A p \in Nat : (AtList(p)' => AtList(p)) /\ (AtFollow(p)' => AtFollow(p))
    BY <1>1, <1>5, <1>7 DEF AtList, AtFollow, Resumable, OnStream
  <2> QED
    BY <1>1, <2>1 DEF FollowInv, HeardInv, ListHeard, FollowHeard
<1>10. ReseedTrue'
  <2> SUFFICES ASSUME NEW p \in Nat, p = feed.place PROVE ReseedTold(log, server, q, p)
    BY <1>1, <1>7 DEF ReseedTrue
  <2>1. ReseedTold(log, server, r, p)
    BY DEF FollowInv, ReseedTrue
  <2> QED
    BY <1>1, <1>2, <1>5, <2>1 DEF ReseedTold
<1>11. AnswerTrue'
  BY <1>1 DEF FollowInv, AnswerTrue
<1> QED
  BY <1>1, <1>8, <1>9, <1>10, <1>11 DEF FollowInv

\* The start of an entry is ahead of a place its claim is ahead of.
LEMMA StartAfterClaim ==
  ASSUME NEW s \in ServerStates, NEW l \in Logs, LogOrdered(l, s), LogTells(l, s), NEW p \in Nat,
         s.phase = "started", Ahead(l, p, "running", s.id)
  PROVE  Ahead(l, p, "JobStarted", s.id)
<1>1. Len(l) \in Nat
  BY LogEvent
<1>2. PICK i \in p + 1 .. Len(l) : l[i] = Event("running", s.id)
  BY DEF Ahead
<1>3. PICK k \in 0 + 1 .. Len(l) : l[k] = Event("JobStarted", s.id)
  BY DEF LogTells, Ahead
<1>4. l[i].id = s.id /\ l[i].kind = "running" /\ l[k].id = s.id /\ l[k].kind = "JobStarted"
  BY <1>2, <1>3, EventShape
<1>5. ~(k \in 1 .. i - 1)
  BY <1>1, <1>4 DEF LogOrdered
<1>6. k # i
  BY <1>4
<1>7. k \in p + 1 .. Len(l)
  BY <1>1, <1>5, <1>6
<1> QED
  BY <1>3, <1>7 DEF Ahead

\* The run a reseed read is followed from there, as at every place before.
LEMMA SeededHeard ==
  ASSUME NEW s \in ServerStates, NEW l \in Logs, LogOrdered(l, s), LogTells(l, s), NEW r \in Reseeds, NEW q \in Nat,
         ReseedTold(l, s, r, q), r.at = "execution", r.id <= s.id, NEW p \in Nat, p <= q, q <= Len(l),
         NEW v \in Lives, NEW a \in Pendings, v.id = r.id, v.park = r.park, ~v.ended,
         v.runs = IF r.started /\ s.id = r.id THEN s.runs ELSE IF r.started THEN MaxRuns ELSE 0
  PROVE  NotOver(l, s, v, p) /\ RunningHeard(l, s, v, p) /\ LiveParkHeard(l, s, v, p) /\ PendingParkHeard(l, s, v, a, p)
<1>1. /\ \A kind, id : Ahead(l, q, kind, id) => Ahead(l, p, kind, id)
      /\ \A id : ParkAhead(l, q, id) => ParkAhead(l, p, id)
  BY AheadEarlier
<1>2. NotOver(l, s, v, p)
  BY <1>1 DEF ReseedTold, NotOver
<1>3. r.id # s.id => r.id < s.id
  BY DEF Reseeds, ServerStates
<1>4. r.id # s.id /\ s.phase # "ended" => Ahead(l, p, "running", s.id)
  BY <1>1, <1>3 DEF ReseedTold
<1>5. r.id # s.id /\ s.phase = "started" => Ahead(l, p, "JobStarted", s.id)
  BY <1>4, StartAfterClaim
<1>6. RunningHeard(l, s, v, p)
  <2> SUFFICES ASSUME s.phase = "started", ~Ahead(l, p, "JobStarted", s.id)
               PROVE  /\ v.id = s.id /\ ~v.ended
                      /\ Cardinality(FinishedRuns(l, p, s.id)) <= v.runs /\ v.runs <= s.runs
    BY DEF RunningHeard
  <2>1. r.id = s.id
    BY <1>5
  <2>2. r.started
    BY <1>1, <2>1 DEF ReseedTold
  <2>3. v.runs = s.runs
    BY <2>1, <2>2
  <2>4. Cardinality(FinishedRuns(l, p, s.id)) <= Cardinality(FinishedRuns(l, Len(l), s.id))
    <3>1. Len(l) \in Nat /\ p <= Len(l)
      BY LogEvent
    <3> QED
      BY <3>1, RunsGrow
  <2>5. Cardinality(FinishedRuns(l, Len(l), s.id)) = s.runs /\ s.runs \in Nat
    BY DEF LogTells, ServerStates
  <2> QED
    BY <2>1, <2>3, <2>4, <2>5
<1>7. LiveParkHeard(l, s, v, p)
  BY <1>1, <1>5 DEF LiveParkHeard, ReseedTold
<1>8. PendingParkHeard(l, s, v, a, p)
  BY <1>4 DEF PendingParkHeard
<1> QED
  BY <1>2, <1>6, <1>7, <1>8

LEMMA ReseedExecutionKeeps ==
  ASSUME FollowInv, ReseedExecution
  PROVE  FollowInv'
<1> DEFINE r == feed.reseed
<1>1. /\ UNCHANGED <<server, log, epoch, app, refresh, fallback, actual, request, early, crossed, stale>>
      /\ r.at = "execution" /\ feed.open /\ ~feed.reset /\ feed' = [feed EXCEPT !.reseed = NoReseed]
      /\ live' = [id |-> r.id, park |-> r.park, ended |-> FALSE,
                  runs |-> IF r.started /\ server.id = r.id THEN server.runs ELSE IF r.started THEN MaxRuns ELSE 0]
  BY DEF ReseedExecution, FollowInv, FollowBounds
<1>2. /\ feed \in Feeds /\ r \in Reseeds /\ server \in ServerStates /\ log \in Logs /\ app \in Pendings
      /\ server.id \in Nat /\ server.runs \in Nat /\ MaxRuns \in Nat /\ r.id \in Nat /\ r.park \in BOOLEAN
      /\ feed.place \in Nat /\ feed.last \in Nat /\ r.id <= server.id /\ feed.place <= Len(log)
      /\ feed.lastEpoch = epoch => feed.last <= feed.place
  BY <1>1, FollowShapes, FollowAssumption DEF FollowInv, FollowType, FollowBounds
<1>3. feed' \in Feeds /\ live' \in Lives
  BY <1>1, <1>2 DEF Feeds, Reseeds, NoReseed, Lives
<1>4. /\ feed'.reseed = NoReseed /\ feed'.open = feed.open /\ feed'.reset = feed.reset /\ feed'.connected = feed.connected
      /\ feed'.place = feed.place /\ feed'.last = feed.last /\ feed'.lastEpoch = feed.lastEpoch
  BY <1>1, <1>2 DEF Feeds
<1>5. FollowType'
  BY <1>1, <1>3 DEF FollowInv, FollowType
<1>6. FollowBounds'
  BY <1>1, <1>2, <1>4 DEF FollowInv, FollowBounds, NoReseed
<1>7. HeardInv'
  <2> SUFFICES ASSUME NEW p \in Nat PROVE (AtList(p)' => ListHeard(p)') /\ (AtFollow(p)' => FollowHeard(p)')
    BY DEF HeardInv
  <2>1. AtList(p)' => ListHeard(p)'
    BY <1>1, <1>4 DEF FollowInv, HeardInv, AtList, Resumable, OnStream, ListHeard
  <2>2. ASSUME AtFollow(p)' PROVE FollowHeard(p)'
    <3>1. p <= feed.place
      BY <1>1, <1>2, <1>4, <2>2 DEF AtFollow, Resumable, OnStream
    <3>2. PICK q \in Nat : q = feed.place
      BY <1>2
    <3>3. ReseedTold(log, server, r, q)
      BY <3>2 DEF FollowInv, ReseedTrue
    <3>4. /\ live'.id = r.id /\ live'.park = r.park /\ ~live'.ended
          /\ live'.runs = IF r.started /\ server.id = r.id THEN server.runs ELSE IF r.started THEN MaxRuns ELSE 0
      BY <1>1
    <3>5. LogOrdered(log, server) /\ LogTells(log, server) /\ r.at = "execution"
      BY <1>1 DEF FollowInv
    <3> HIDE DEF r
    <3>6. NotOver(log, server, live', p) /\ RunningHeard(log, server, live', p) /\ LiveParkHeard(log, server, live', p)
          /\ PendingParkHeard(log, server, live', app, p)
      BY <1>2, <1>3, <3>1, <3>2, <3>3, <3>4, <3>5, SeededHeard
    <3> QED
      BY <1>1, <3>6 DEF FollowHeard
  <2> QED
    BY <2>1, <2>2
<1>8. ReseedTrue' /\ AnswerTrue'
  BY <1>1, <1>4 DEF FollowInv, ReseedTrue, ReseedTold, AnswerTrue, NoReseed
<1> QED
  BY <1>1, <1>5, <1>6, <1>7, <1>8 DEF FollowInv

\* Mutually exclusive kinds of the event handled: what is followed and what is pending after it.
LEMMA HandleIsHeard ==
  ASSUME FollowInv, Handle
  PROVE  /\ HeardNext(log, feed.place, live, app, live', app') /\ feed.place < Len(log)
         /\ "unheard" \notin early' => "unheard" \notin early
              /\ (log[feed.place + 1].kind = "JobStarted" => app.pending = log[feed.place + 1].id)
         /\ early' = {} => early = {} /\ (log[feed.place + 1].kind = "JobStarted" => ~Follows(live, log[feed.place + 1].id))
         /\ (refresh' = "asked" /\ actual' = actual \ {"refresh"})
              \/ (UNCHANGED <<refresh, actual>> /\ log[feed.place + 1].kind \notin QueueKinds)
         /\ early' \in SUBSET {"unheard", "seeded"}
<1> DEFINE e == log[feed.place + 1]
<1>1. /\ feed.place < Len(log) /\ feed.place \in Nat /\ Len(log) \in Nat /\ log \in Logs /\ live \in Lives /\ app \in Pendings
      /\ early \in SUBSET {"unheard", "seeded"}
  BY FollowShapes DEF FollowInv, FollowType, Handle
<1>2. e \in Events
  BY <1>1, LogEvent
<1>3. /\ early' = early \cup (IF e.kind = "JobStarted" /\ app.pending # e.id THEN {"unheard"} ELSE {})
                        \cup (IF e.kind = "JobStarted" /\ IsFollowed(e.id) THEN {"seeded"} ELSE {})
      /\ IF e.kind \in {"running", "ended", "parked", "unparked"} THEN RefreshAgain ELSE UNCHANGED <<refresh, actual>>
  BY DEF Handle
<1>4. /\ "unheard" \notin early' => "unheard" \notin early /\ (e.kind = "JobStarted" => app.pending = e.id)
      /\ early' = {} => early = {} /\ (e.kind = "JobStarted" => ~Follows(live, e.id))
      /\ early' \in SUBSET {"unheard", "seeded"}
  BY <1>1, <1>3 DEF IsFollowed, Follows
<1>5. \/ refresh' = "asked" /\ actual' = actual \ {"refresh"}
      \/ UNCHANGED <<refresh, actual>> /\ e.kind \notin QueueKinds
  BY <1>3 DEF RefreshAgain, QueueKinds
<1>6. e.kind \in {"running", "ended", "parked", "unparked", "JobStarted", "RunFinished", "JobFinished"}
  BY <1>2, EventShape DEF EventKinds, QueueKinds
<1>7. HeardNext(log, feed.place, live, app, live', app')
  <2>1. CASE e.kind = "running"
    <3>1. app' = [pending |-> e.id, park |-> FALSE] /\ UNCHANGED live
      BY <2>1 DEF Handle
    <3> QED
      BY <2>1, <3>1 DEF HeardNext
  <2>2. CASE e.kind = "ended"
    <3>1. live' = (IF IsFollowed(e.id) THEN Ended(live) ELSE live) /\ UNCHANGED app
      BY <2>2 DEF Handle
    <3> QED
      BY <2>2, <3>1 DEF HeardNext, IsFollowed, Follows, Ended
  <2>3. CASE e.kind \in {"parked", "unparked"}
    <3>1. SetParking(e.id, e.kind = "parked")
      BY <2>3 DEF Handle
    <3> QED
      BY <2>3, <3>1 DEF HeardNext, SetParking, IsFollowed, Follows
  <2>4. CASE e.kind = "JobStarted"
    <3>1. /\ live' = [id |-> app.pending, runs |-> 0, park |-> app.park, ended |-> FALSE]
          /\ app' = [pending |-> 0, park |-> FALSE]
      BY <2>4 DEF Handle
    <3> QED
      BY <2>4, <3>1 DEF HeardNext
  <2>5. CASE e.kind = "RunFinished"
    <3>1. /\ live' = IF live = NoLive THEN live
                     ELSE [live EXCEPT !.runs = IF @ < MaxRuns /\ @ < Cardinality({i \in 1 .. feed.place + 1 : log[i] = e}) THEN @ + 1 ELSE @]
          /\ UNCHANGED app
      BY <2>5 DEF Handle
    <3>2. e = Event("RunFinished", e.id)
      BY <1>2, <2>5, EventShape
    <3>3. {i \in 1 .. feed.place + 1 : log[i] = e} = FinishedRuns(log, feed.place + 1, e.id)
      BY <3>2 DEF FinishedRuns
    <3> QED
      BY <2>5, <3>1, <3>3 DEF HeardNext
  <2>6. CASE e.kind = "JobFinished"
    <3>1. live' = Ended(live) /\ UNCHANGED app
      BY <2>6 DEF Handle
    <3> QED
      BY <2>6, <3>1 DEF HeardNext, Ended
  <2> QED
    BY <1>6, <2>1, <2>2, <2>3, <2>4, <2>5, <2>6
<1> QED
  BY <1>1, <1>4, <1>5, <1>7

LEMMA HandleKeeps ==
  ASSUME FollowInv, Handle
  PROVE  FollowInv'
<1> DEFINE e == log[feed.place + 1]
<1>1. /\ UNCHANGED <<server, log, epoch, fallback, request, crossed, stale>>
      /\ feed' = [feed EXCEPT !.connected = TRUE, !.fresh = FALSE, !.place = @ + 1, !.last = feed.place + 1, !.lastEpoch = epoch]
      /\ feed.open /\ ~feed.reset /\ feed.reseed.at = "none"
  BY DEF Handle
<1>2. /\ feed \in Feeds /\ server \in ServerStates /\ log \in Logs /\ live \in Lives /\ app \in Pendings /\ epoch \in Nat
      /\ feed.place \in Nat /\ Len(log) \in Nat /\ server.id \in Nat /\ live.id \in Nat /\ app.pending \in Nat
      /\ LogOrdered(log, server) /\ LogTells(log, server) /\ live.id <= server.id /\ app.pending <= server.id
      /\ server.runs <= MaxRuns /\ (server.phase # "ended" => server.id # 0)
      /\ actual \in SUBSET {"list", "refresh", "fallback"}
  BY FollowShapes DEF FollowInv, FollowType, FollowBounds
<1>3. /\ HeardNext(log, feed.place, live, app, live', app') /\ feed.place < Len(log)
      /\ "unheard" \notin early' => "unheard" \notin early /\ (e.kind = "JobStarted" => app.pending = e.id)
      /\ early' = {} => early = {} /\ (e.kind = "JobStarted" => ~Follows(live, e.id))
      /\ (refresh' = "asked" /\ actual' = actual \ {"refresh"}) \/ (UNCHANGED <<refresh, actual>> /\ e.kind \notin QueueKinds)
      /\ early' \in SUBSET {"unheard", "seeded"}
  BY HandleIsHeard
<1>4. live' \in Lives /\ app' \in Pendings
  BY <1>2, <1>3, HeardShape
<1>5. feed' \in Feeds
  <2>1. PICK n \in Nat : n = feed.place + 1
    BY <1>2
  <2>2. feed' = [feed EXCEPT !.connected = TRUE, !.fresh = FALSE, !.place = n, !.last = n, !.lastEpoch = epoch]
    BY <1>1, <2>1
  <2> QED
    BY <1>2, <2>2 DEF Feeds
<1>6. /\ feed'.open /\ ~feed'.reset /\ feed'.reseed = feed.reseed /\ feed'.connected
      /\ feed'.place = feed.place + 1 /\ feed'.last = feed.place + 1 /\ feed'.lastEpoch = epoch
  BY <1>1, <1>2 DEF Feeds
<1>7. e \in Events /\ e.id \in Nat /\ e.id <= server.id
  BY <1>2, <1>3, LogEvent, EventShape DEF LogOrdered
<1>8. live'.id <= server.id /\ app'.pending <= server.id
  <2>1. live'.id \in {live.id, app.pending} /\ app'.pending \in {app.pending, e.id, 0}
    <3>1. live'.id \in {live.id, app.pending}
      BY <1>2, <1>3 DEF HeardNext, Lives
    <3>2. app'.pending \in {app.pending, e.id, 0}
      BY <1>2, <1>3 DEF HeardNext, Pendings
    <3> QED
      BY <3>1, <3>2
  <2> QED
    BY <1>2, <1>7, <2>1
<1>9. FollowType'
  BY <1>1, <1>3, <1>4, <1>5 DEF FollowInv, FollowType
<1>10. FollowBounds'
  BY <1>1, <1>2, <1>3, <1>6, <1>8 DEF FollowInv, FollowBounds
<1>11. PICK p \in Nat : p = feed.place
  BY <1>2
<1>12. ListHeard(p + 1)'
  <2>1. ListHeard(p) /\ (ChangeAhead(log, p) <=> log[p + 1].kind \in QueueKinds \/ ChangeAhead(log, p + 1))
    BY <1>1, <1>2, <1>3, <1>11, AheadNext DEF FollowInv, HeardInv, AtList, OnStream
  <2> QED
    BY <1>1, <1>3, <1>11, <2>1 DEF ListHeard
<1>13. FollowHeard(p + 1)'
  <2> SUFFICES ASSUME "unheard" \notin early'
               PROVE  /\ NotOver(log, server, live', p + 1) /\ RunningHeard(log, server, live', p + 1)
                      /\ early' = {} /\ ~crossed =>
                           LiveParkHeard(log, server, live', p + 1) /\ PendingParkHeard(log, server, live', app', p + 1)
    BY <1>1 DEF FollowHeard
  <2>1. FollowHeard(p) /\ "unheard" \notin early
    BY <1>1, <1>3, <1>11 DEF FollowInv, HeardInv, AtFollow, OnStream
  <2>2. /\ HeardNext(log, p, live, app, live', app') /\ p < Len(log)
        /\ log[p + 1].kind = "JobStarted" => app.pending = log[p + 1].id
        /\ early' = {} => early = {} /\ (log[p + 1].kind = "JobStarted" => ~Follows(live, log[p + 1].id))
    BY <1>3, <1>11
  <2>3. NotOver(log, server, live', p + 1)
    BY <1>2, <2>1, <2>2, HeardNotOver DEF FollowHeard
  <2>4. RunningHeard(log, server, live, p) /\ RunningHeard(log, server, live', p + 1)
    BY <1>2, <2>1, <2>2, HeardRunning DEF FollowHeard
  <2>5. ASSUME early' = {}, ~crossed
        PROVE  LiveParkHeard(log, server, live', p + 1) /\ PendingParkHeard(log, server, live', app', p + 1)
    <3>1. LiveParkHeard(log, server, live, p) /\ PendingParkHeard(log, server, live, app, p)
      BY <2>1, <2>2, <2>5 DEF FollowHeard
    <3>2. log[p + 1].kind = "JobStarted" => app.pending = log[p + 1].id /\ ~Follows(live, log[p + 1].id)
      BY <2>2, <2>5
    <3>3. LiveParkHeard(log, server, live', p + 1)
      BY <1>2, <2>2, <2>4, <3>1, <3>2, HeardLivePark
    <3>4. PendingParkHeard(log, server, live', app', p + 1)
      BY <1>2, <2>2, <3>1, HeardPendingPark
    <3> QED
      BY <3>3, <3>4
  <2> QED
    BY <2>3, <2>4, <2>5
<1>14. HeardInv'
  <2> SUFFICES ASSUME NEW o \in Nat PROVE (AtList(o)' => ListHeard(o)') /\ (AtFollow(o)' => FollowHeard(o)')
    BY DEF HeardInv
  <2>1. AtList(o)' \/ AtFollow(o)' => o = p + 1
    BY <1>1, <1>6, <1>11 DEF AtList, AtFollow, Resumable, OnStream
  <2> QED
    BY <1>12, <1>13, <2>1
<1>15. ReseedTrue' /\ AnswerTrue'
  BY <1>1, <1>6 DEF FollowInv, ReseedTrue, ReseedTold, AnswerTrue
<1> QED
  BY <1>1, <1>9, <1>10, <1>14, <1>15 DEF FollowInv

(* The list and the requests.                                               *)

LEMMA ListKeeps ==
  ASSUME FollowInv, RefreshRead \/ RefreshShown \/ RefreshFails \/ Poll \/ FallbackShown
  PROVE  FollowInv'
<1>1. UNCHANGED <<server, log, epoch, feed, app, live, request, early, crossed>>
  BY DEF RefreshRead, RefreshShown, RefreshFails, Poll, FallbackShown
<1>2. /\ actual \in SUBSET {"list", "refresh", "fallback"} /\ fallback \in {"none", "newest", "older"}
      /\ refresh \in {"none", "asked", "read"} /\ stale \in BOOLEAN
  BY DEF FollowInv, FollowType
<1>3. /\ actual' \in SUBSET {"list", "refresh", "fallback"} /\ fallback' \in {"none", "newest", "older"}
      /\ refresh' \in {"none", "asked", "read"} /\ stale' \in BOOLEAN
  BY <1>2 DEF RefreshRead, RefreshShown, RefreshFails, Poll, FallbackShown, Shown
<1>4. FollowType' /\ FollowBounds'
  BY <1>1, <1>3 DEF FollowInv, FollowType, FollowBounds
<1>5. ASSUME NEW p \in Nat, ListHeard(p) PROVE ListHeard(p)'
  <2>1. CASE RefreshRead
    BY <1>1, <1>5, <2>1 DEF RefreshRead, ListHeard
  <2>2. CASE RefreshShown
    BY <1>1, <1>2, <1>5, <2>2 DEF RefreshShown, ListHeard, Shown
  <2>3. CASE RefreshFails
    BY <1>1, <1>5, <2>3 DEF RefreshFails, ListHeard
  <2>4. CASE Poll
    BY <1>1, <1>5, <2>4 DEF Poll, ListHeard
  <2>5. CASE FallbackShown
    BY <1>1, <1>2, <1>5, <2>5 DEF FallbackShown, ListHeard, Shown, IsCurrent
  <2> QED
    BY <2>1, <2>2, <2>3, <2>4, <2>5
<1>6. HeardInv'
  <2>1. \A p \in Nat : (AtList(p)' <=> AtList(p)) /\ (AtFollow(p)' <=> AtFollow(p)) /\ (FollowHeard(p)' <=> FollowHeard(p))
    BY <1>1 DEF AtList, AtFollow, Resumable, OnStream, FollowHeard
  <2> QED
    BY <1>5, <2>1 DEF FollowInv, HeardInv
<1>7. ReseedTrue' /\ AnswerTrue'
  BY <1>1 DEF FollowInv, ReseedTrue, AnswerTrue
<1> QED
  BY <1>1, <1>4, <1>6, <1>7 DEF FollowInv

LEMMA AskParkKeeps ==
  ASSUME FollowInv, AskPark
  PROVE  FollowInv'
<1>1. PICK id \in {live.id, server.id} \ {0}, park \in BOOLEAN :
        request' = [at |-> "asked", id |-> id, park |-> park, answer |-> FALSE]
  BY DEF AskPark
<1>2. UNCHANGED <<server, log, epoch, feed, app, live, refresh, fallback, actual, early, crossed, stale>>
  BY DEF AskPark
<1>3. id \in Nat /\ id <= server.id
  BY FollowShapes DEF FollowInv, FollowBounds
<1>4. request' \in ParkRequests
  BY <1>1, <1>3 DEF ParkRequests
<1>5. FollowType' /\ FollowBounds'
  BY <1>1, <1>2, <1>3, <1>4 DEF FollowInv, FollowType, FollowBounds
<1>6. HeardInv'
  BY <1>2 DEF FollowInv, HeardInv, AtList, AtFollow, OnStream, Resumable, ListHeard, FollowHeard
<1>7. ReseedTrue' /\ AnswerTrue'
  BY <1>1, <1>2 DEF FollowInv, ReseedTrue, AnswerTrue
<1> QED
  BY <1>2, <1>5, <1>6, <1>7 DEF FollowInv

\* The answer sets the reservation of the entry followed, or of the pending one, to what the server took.
LEMMA ParkAnsweredKeeps ==
  ASSUME FollowInv, ParkAnswered
  PROVE  FollowInv'
<1>1. /\ UNCHANGED <<server, log, epoch, feed, fallback, early, crossed, stale>>
      /\ request' = NoRequest /\ request.at = "answered"
  BY DEF ParkAnswered
<1>2. /\ live \in Lives /\ app \in Pendings /\ request.park \in BOOLEAN /\ server.id \in Nat
      /\ live.id \in Nat /\ app.pending \in Nat /\ actual \in SUBSET {"list", "refresh", "fallback"}
  BY FollowShapes DEF FollowInv, FollowType
<1>3. /\ live' = live \/ (request.answer /\ Follows(live, request.id) /\ live' = [live EXCEPT !.park = request.park])
      /\ app' = app \/ (request.answer /\ app.pending = request.id /\ app' = [app EXCEPT !.park = request.park])
      /\ request.answer /\ Follows(live, request.id) => live' = [live EXCEPT !.park = request.park]
      /\ request.answer /\ ~Follows(live, request.id) /\ app.pending = request.id => app' = [app EXCEPT !.park = request.park]
      /\ (refresh' = "asked" /\ actual' = actual \ {"refresh"}) \/ UNCHANGED <<refresh, actual>>
  BY DEF ParkAnswered, SetParking, IsFollowed, Follows, RefreshAgain
<1>4. /\ live' \in Lives /\ live'.id = live.id /\ live'.ended = live.ended /\ live'.runs = live.runs
      /\ live'.park = live.park \/ (request.answer /\ Follows(live, request.id) /\ live'.park = request.park)
  BY <1>2, <1>3 DEF Lives
<1>5. /\ app' \in Pendings /\ app'.pending = app.pending
      /\ app'.park = app.park \/ (request.answer /\ app.pending = request.id /\ app'.park = request.park)
  BY <1>2, <1>3 DEF Pendings
<1>6. FollowType'
  <2>1. request' \in ParkRequests
    BY <1>1 DEF NoRequest, ParkRequests
  <2> QED
    BY <1>1, <1>2, <1>3, <1>4, <1>5, <2>1 DEF FollowInv, FollowType
<1>7. FollowBounds'
  BY <1>1, <1>2, <1>4, <1>5 DEF FollowInv, FollowBounds, NoRequest
<1>8. ASSUME NEW p \in Nat, FollowHeard(p) PROVE FollowHeard(p)'
  <2>1. /\ NotOver(log, server, live, p) => NotOver(log, server, live', p)
        /\ RunningHeard(log, server, live, p) => RunningHeard(log, server, live', p)
    BY <1>4 DEF NotOver, RunningHeard
  <2>2. ASSUME ~crossed, RunningHeard(log, server, live, p), LiveParkHeard(log, server, live, p)
        PROVE  LiveParkHeard(log, server, live', p)
    <3> SUFFICES ASSUME server.phase = "started", ~Ahead(log, p, "JobStarted", server.id), ~ParkAhead(log, p, server.id)
                 PROVE  live'.park = server.park
      BY DEF LiveParkHeard
    <3>1. live.id = server.id /\ live.park = server.park
      BY <2>2 DEF RunningHeard, LiveParkHeard
    <3> QED
      BY <1>1, <1>4, <2>2, <3>1 DEF FollowInv, AnswerTrue, Follows
  <2>3. ASSUME ~crossed, PendingParkHeard(log, server, live, app, p)
        PROVE  PendingParkHeard(log, server, live', app', p)
    <3> SUFFICES ASSUME app'.pending = server.id, ~Follows(live', server.id),
                        server.phase = "claimed" \/ (server.phase = "started" /\ Ahead(log, p, "JobStarted", server.id)),
                        ~Ahead(log, p, "running", server.id), ~ParkAhead(log, p, server.id)
                 PROVE  app'.park = server.park
      BY DEF PendingParkHeard, Follows
    <3>1. app.pending = server.id /\ app.park = server.park
      BY <1>4, <1>5, <2>3 DEF PendingParkHeard, Follows
    <3> QED
      BY <1>1, <1>5, <2>3, <3>1 DEF FollowInv, AnswerTrue
  <2> QED
    BY <1>1, <1>8, <2>1, <2>2, <2>3 DEF FollowHeard
<1>9. HeardInv'
  <2>1. \A p \in Nat : (AtList(p)' <=> AtList(p)) /\ (AtFollow(p)' <=> AtFollow(p))
    BY <1>1 DEF AtList, AtFollow, Resumable, OnStream
  <2>2. \A p \in Nat : ListHeard(p) => ListHeard(p)'
    BY <1>1, <1>3 DEF ListHeard
  <2> QED
    BY <1>8, <2>1, <2>2 DEF FollowInv, HeardInv
<1>10. ReseedTrue' /\ AnswerTrue'
  BY <1>1 DEF FollowInv, ReseedTrue, AnswerTrue, NoRequest
<1> QED
  BY <1>1, <1>6, <1>7, <1>9, <1>10 DEF FollowInv

LEMMA FollowSteps ==
  ASSUME FollowInv, [FollowNext]_followVars
  PROVE  FollowInv'
<1>1. CASE FollowNext
  <2>1. CASE ServerClaims \/ ServerStarts \/ ServerFinishesRun \/ ServerFinishes \/ ServerEnds
    BY <2>1, SeenActionsKeep
  <2>2. CASE RefreshRead \/ RefreshShown \/ RefreshFails \/ Poll \/ FallbackShown
    BY <2>2, ListKeeps
  <2> QED
    BY <1>1, <2>1, <2>2, OtherParksKeeps, ServerParksKeeps, RestartKeeps, ConnectKeeps, FeedDropKeeps, ResetKeeps,
       ReseedRunningKeeps, ReseedDetailKeeps, ReseedExecutionKeeps, HandleKeeps, AskParkKeeps, ParkAnsweredKeeps DEF FollowNext
<1>2. CASE UNCHANGED followVars
  <2>1. UNCHANGED <<server, log, epoch, feed, app, live, refresh, fallback, actual, request, early, crossed, stale>>
    BY <1>2 DEF followVars
  <2>2. FollowType' /\ FollowBounds'
    BY <2>1 DEF FollowInv, FollowType, FollowBounds
  <2>3. HeardInv'
    BY <2>1 DEF FollowInv, HeardInv, AtList, AtFollow, OnStream, Resumable, ListHeard, FollowHeard
  <2>4. ReseedTrue' /\ AnswerTrue'
    BY <2>1 DEF FollowInv, ReseedTrue, AnswerTrue
  <2> QED
    BY <2>1, <2>2, <2>3, <2>4 DEF FollowInv
<1> QED
  BY <1>1, <1>2

\* In every state what was heard, seeded and read is the server's state, or what is still ahead in the stream corrects it.
THEOREM FollowInvThm == FollowSpec => []FollowInv
<1>1. FollowInit => FollowInv
  BY FollowStarts
<1>2. FollowInv /\ [FollowNext]_followVars => FollowInv'
  BY FollowSteps
<1> QED
  BY <1>1, <1>2, PTL DEF FollowSpec

LEMMA FollowInvTrue == FollowInv => FollowTrue
<1> SUFFICES ASSUME FollowInv PROVE FollowTrue
  OBVIOUS
<1>1. PICK p \in Nat : p = feed.place
  BY FollowShapes DEF FollowInv
<1>2. log \in Logs /\ server \in ServerStates /\ server.phase \in {"claimed", "started", "finished", "ended"} /\ server.runs \in Nat /\ live.runs \in Nat
  BY FollowShapes DEF FollowInv, FollowType
<1>3. /\ \A kind, id : ~Ahead(log, Len(log), kind, id)
      /\ \A id : ~ParkAhead(log, Len(log), id)
      /\ ~ChangeAhead(log, Len(log))
  BY <1>2, NothingAhead
<1>4. Settled => p = Len(log) /\ FollowHeard(p) /\ ListHeard(p)
  BY <1>1 DEF Settled, FollowInv, HeardInv, AtFollow, AtList, OnStream
<1>5. FollowedIsRunning
  <2> SUFFICES ASSUME Settled, "unheard" \notin early PROVE FollowsTheRunning
    BY DEF FollowedIsRunning
  <2>1. NotOver(log, server, live, p) /\ RunningHeard(log, server, live, p)
    BY <1>4 DEF FollowHeard
  <2>2. ~live.ended => live.id = server.id /\ server.phase # "ended"
    BY <1>3, <1>4, <2>1 DEF NotOver
  <2>3. server.phase = "started" => live.id = server.id /\ ~live.ended /\ live.runs = server.runs
    <3> HAVE server.phase = "started"
    <3>1. Cardinality(FinishedRuns(log, Len(log), server.id)) = server.runs
      BY DEF FollowInv, LogTells
    <3>2. /\ live.id = server.id /\ ~live.ended
          /\ Cardinality(FinishedRuns(log, p, server.id)) <= live.runs /\ live.runs <= server.runs
      BY <1>3, <1>4, <2>1 DEF RunningHeard
    <3> QED
      BY <1>2, <1>4, <3>1, <3>2
  <2> QED
    BY <2>2, <2>3 DEF FollowsTheRunning
<1>6. ParkShown
  <2> SUFFICES ASSUME Settled, early = {}, ~crossed, server.phase = "started" PROVE live.park = server.park
    BY DEF ParkShown
  <2>1. LiveParkHeard(log, server, live, p)
    BY <1>4 DEF FollowHeard
  <2> QED
    BY <1>3, <1>4, <2>1 DEF LiveParkHeard
<1>7. QueueListSettles
  BY <1>3, <1>4 DEF QueueListSettles, ListHeard
<1> QED
  BY <1>5, <1>6, <1>7 DEF FollowTrue

\* Once everything told has been heard and read, the TUI shows the entry that runs with its finished runs and its
\* reservation, and the queue: for any number of entries, runs, parks, lost connections and restarts (tui/feed.py).
THEOREM FollowTrueThm == FollowSpec => []FollowTrue
  BY FollowInvThm, FollowInvTrue, PTL
==============================================================================
