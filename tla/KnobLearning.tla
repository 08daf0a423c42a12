---------------------------- MODULE KnobLearning ----------------------------
(* Learning from completed runs (KnobUpdateEngine, services/knob_updater.py): *)
(* the ring of runs and how each is counted once, the fits at the             *)
(* checkpoints, the held-out gate (jobs/timing/gate.py) and the search that   *)
(* may replace what was approved, and a reset.                                *)
(*                                                                            *)
(* One group (a backend and a pipeline).  A run is <<execution, run>>.  A     *)
(* calibration is the set of executions it was fitted on: the factory's is    *)
(* {}.  What a fit or a replay finds is a choice.  An update is one step: it  *)
(* holds the lock, and KnobFiles shows its commit whole or not at all; but    *)
(* the history it is given was read before (KnobUpdater).                     *)
EXTENDS Naturals, Sequences, FiniteSets, FiniteSetsExt, SequencesExt

CONSTANTS
  MaxComplete,            \* bound: completed runs
  MaxResets,          \* bound: resets
  MaxLag,             \* bound: runs and executions by which a history read before is behind
  Checkpoints,        \* CHECKPOINTS (1, 2, 4, 8, 16, 32)
  RingSize,           \* ring_size
  MinHold, MaxHold, HoldPart,  \* the held out: a HoldPart-th, 3 to 8 (a fifth)
  TrainMin,           \* executions a training set needs (3)
  FreshMin,           \* new executions a gate needs (3)
  DecideMin,          \* held-out executions a verdict needs (5)
  SearchEvery, SearchRuns, SearchExecs  \* cadence and evidence of a search (20, 40, 6)

ASSUME LearningAssumption ==
  /\ Checkpoints \subseteq Nat \ {0} /\ Checkpoints # {} /\ IsFiniteSet(Checkpoints)
  /\ RingSize \in Nat \ {0} /\ HoldPart \in Nat \ {0}
  /\ MinHold \in Nat \ {0} /\ MaxHold \in Nat /\ MinHold <= MaxHold

VARIABLES
  complete,      \* the complete runs, in order
  pruned,    \* the executions up to this one are gone from the store
  ring,      \* ring.jsonl: runs added, the newest run seen, the entries
  rec,       \* written.json's record of the group
  cal,       \* the live calibration, the approved one, the count at the last search
  resets,
  recounted, \* history: runs counted twice
  peeked     \* history: executions held out of a verdict that a compared calibration was fitted on

learnVars == <<complete, pruned, ring, rec, cal, resets, recounted, peeked>>

Frozen == Max(Checkpoints)
NoRec == [count |-> 0, checkpoint |-> 0, ckExec |-> 0, lastGate |-> 0]
NoCal == [live |-> {}, base |-> {}, searched |-> 0]

Later(a, b) == a[1] > b[1] \/ (a[1] = b[1] /\ a[2] > b[2])
Execs(runs) == {r[1] : r \in runs}

------------------------------------------------------------------------------
(* The ring.                                                                  *)

\* Mutant: no mark, so a run trimmed from the ring is new again.
Fresh_NoMark(runs) == runs \ ToSet(ring.entries)

\* The runs of a snapshot not counted yet: newer than the newest seen.
Fresh(runs) == {r \in runs \ ToSet(ring.entries) : Later(r, ring.high)}

\* The runs of a set from the first to the last (sorted by execution and run).
InOrder(runs) ==
  CHOOSE s \in [1 .. Cardinality(runs) -> runs] :
    \A i, j \in 1 .. Cardinality(runs) : i < j => Later(s[j], s[i])

\* The ring with them, oldest first, trimmed to its size.
Ringed(runs) ==
  LET new == InOrder(Fresh(runs))
      all == ring.entries \o new
  IN  [added |-> ring.added + Len(new),
       high |-> IF new = <<>> THEN ring.high ELSE Last(new),
       entries |-> IF Len(all) <= RingSize THEN all ELSE SubSeq(all, Len(all) - RingSize + 1, Len(all))]

------------------------------------------------------------------------------
(* The checkpoints.                                                           *)

\* The runs a fit at a checkpoint uses: the first, less those trimmed.
Used(rg, point) ==
  LET left == point + Len(rg.entries)
      n == IF left > rg.added THEN left - rg.added ELSE 1
  IN  SubSeq(rg.entries, 1, IF n > Len(rg.entries) THEN Len(rg.entries) ELSE n)

\* Mutant: the mark is the oldest execution the fit used.
CheckpointExec_First(rg) == Head(rg.entries)[1]

\* The execution the last checkpoint ends with; with runs trimmed, the newest known.
CheckpointExec(rg) ==
  IF rg.added = Len(rg.entries) /\ Len(rg.entries) >= Frozen
  THEN rg.entries[Frozen][1] ELSE Max(Execs(ToSet(rg.entries)))

------------------------------------------------------------------------------
(* The gate.                                                                  *)

HoldCount(execs) ==
  Min({MaxHold, Max({MinHold, (Cardinality(execs) + HoldPart - 1) \div HoldPart})})

\* The n largest of a set of numbers.
Newest(n, nums) == {x \in nums : Cardinality({y \in nums : y > x}) < n}

\* partition: the newest executions after the checkpoint are held out.
Partition(entries, ckExec) ==
  LET execs == Execs(entries)
      eligible == {x \in execs : x > ckExec}
      hold == Newest(HoldCount(execs), eligible)
      train == execs \ hold
  IN  [hold |-> hold, train |-> train,
       ok |-> ckExec # 0 /\ Cardinality(eligible) >= HoldCount(execs) /\ Cardinality(train) >= TrainMin]

\* Mutant: only the ring's part of the training leaves the held out aside.
Training_AllRetained(split, runs) == split.train \cup Execs(runs)

\* The ring's training runs and the retained history, without the held out.
Training(split, runs) == split.train \cup (Execs(runs) \ split.hold)

\* decide: fewer held-out executions are inconclusive.
Decidable(hold) == Cardinality(hold) >= DecideMin

\* _validated_fit: due when the split holds and enough of the held out are new.
GateDue(split, r) ==
  /\ split.ok
  /\ r.lastGate = 0 \/ Cardinality({x \in split.hold : x > r.lastGate}) >= FreshMin

\* The candidate approved, or what is live put back to what was approved.
Gated(split, runs, c, found) ==
  CASE found = "good" -> [c EXCEPT !.live = Training(split, runs), !.base = Training(split, runs)]
    [] found = "bad" -> [c EXCEPT !.live = c.base]
    [] OTHER -> c

------------------------------------------------------------------------------
(* The search.                                                                *)

SearchSplit(entries) ==
  LET execs == Execs(entries)
      hold == Newest(HoldCount(execs), execs)
  IN  [hold |-> hold, train |-> execs \ hold]

\* _search: due by cadence or asked for, with runs, executions and training enough.
SearchDue(rg, r, c, force) ==
  LET entries == ToSet(rg.entries)
      split == SearchSplit(entries)
  IN
  /\ force \/ r.count >= c.searched + SearchEvery
  /\ Cardinality(entries) >= SearchRuns /\ Cardinality(Execs(entries)) >= SearchExecs
  /\ Cardinality(split.train) >= TrainMin /\ Cardinality(split.hold) >= MinHold

------------------------------------------------------------------------------
(* One update.                                                                *)

\* The group's file usable or suspended, or the approvals not to be trusted.
FileStates == {"usable", "suspended", "problem"}

\* What calibrate and the replays of the held out find: a calibration to write,
\* a live one worse than the approved, or neither.
Findings(runs) ==
  IF Fresh(runs) = {} /\ ring.added <= rec.count THEN {"neither"} ELSE {"good", "bad", "neither"}

\* _update: with the group's file usable or suspended, or the approvals damaged;
\* the fit or the candidate good, what is live bad, or neither; and a search that
\* finds better tunables or not.
Updated(runs, force, files, found, better) ==
  LET rg == Ringed(runs)
      entries == ToSet(rg.entries)
      due == rg.added > rec.count /\ files # "suspended"
      crossed == {p \in Checkpoints : rec.count < p /\ p <= rg.added}
      point == Max(crossed)
      r1 == IF due THEN [rec EXCEPT !.count = rg.added] ELSE rec
      fitted == due /\ crossed # {} /\ found = "good"
      r2 == IF fitted
            THEN [r1 EXCEPT !.checkpoint = point, !.ckExec = IF point = Frozen THEN CheckpointExec(rg) ELSE @]
            ELSE r1
      c2 == IF fitted THEN [cal EXCEPT !.live = Execs(ToSet(Used(rg, point)))] ELSE cal
      split == Partition(entries, rec.ckExec)
      gated == due /\ crossed = {} /\ rg.added > Frozen /\ files = "usable" /\ GateDue(split, r2)
      c3 == IF gated THEN Gated(split, runs, c2, found) ELSE c2
      r3 == IF gated THEN [r2 EXCEPT !.lastGate = Max(split.hold)] ELSE r2
      searched == files = "usable" /\ ~(gated /\ found \in {"good", "bad"}) /\ SearchDue(rg, r3, c3, force)
      sp == SearchSplit(entries)
      won == searched /\ better /\ Decidable(sp.hold)
      c4 == IF ~searched THEN c3
            ELSE IF won THEN [live |-> sp.train, base |-> sp.train, searched |-> r3.count]
            ELSE [c3 EXCEPT !.searched = r3.count]
  IN
  /\ gated /\ found = "good" => Decidable(split.hold)
  /\ ring' = rg /\ rec' = r3 /\ cal' = c4
  /\ recounted' = recounted \cup {r \in Fresh(runs) : ~Later(r, ring.high)}
  /\ peeked' = peeked \cup (IF gated THEN split.hold \cap (Training(split, runs) \cup cal.base \cup cal.live) ELSE {})
                     \cup (IF won THEN sp.hold \cap (sp.train \cup cal.base) ELSE {})

\* What an update was given: the store as it is, or as it was when it was read.
Histories ==
  {{r \in ToSet(SubSeq(complete, 1, n)) : r[1] > gone} :
     n \in {k \in 0 .. Len(complete) : k + MaxLag >= Len(complete)}, gone \in {k \in 0 .. pruned : k + MaxLag >= pruned}}

Update(runs, force) ==
  /\ \E files \in FileStates, found \in Findings(runs), better \in BOOLEAN :
       Updated(runs, force, files, found, better)
  /\ UNCHANGED <<complete, pruned, resets>>

\* A run completes: the next of the newest execution, or the first of another.
Complete(another) ==
  /\ Len(complete) < MaxComplete /\ (complete = <<>> => another)
  /\ complete' = Append(complete, IF another THEN <<IF complete = <<>> THEN 1 ELSE Last(complete)[1] + 1, 1>>
                          ELSE <<Last(complete)[1], Last(complete)[2] + 1>>)
  /\ UNCHANGED <<pruned, ring, rec, cal, resets, recounted, peeked>>

\* Retention, or a deletion, removes the oldest execution.
Prune ==
  /\ complete # <<>> /\ pruned < Last(complete)[1] - 1 /\ pruned' = pruned + 1
  /\ UNCHANGED <<complete, ring, rec, cal, resets, recounted, peeked>>

\* reset: learning starts over from the ring.
Reset ==
  /\ resets < MaxResets /\ resets' = resets + 1
  /\ rec' = NoRec /\ cal' = NoCal
  /\ UNCHANGED <<complete, pruned, ring, recounted, peeked>>

------------------------------------------------------------------------------

LearnInit ==
  /\ complete = <<>> /\ pruned = 0
  /\ ring = [added |-> 0, high |-> <<0, 0>>, entries |-> <<>>]
  /\ rec = NoRec /\ cal = NoCal /\ resets = 0
  /\ recounted = {} /\ peeked = {}

LearnNext ==
  \/ \E runs \in Histories, force \in BOOLEAN : Update(runs, force)
  \/ \E another \in BOOLEAN : Complete(another)
  \/ Prune \/ Reset

LearnSpec == LearnInit /\ [][LearnNext]_learnVars

------------------------------------------------------------------------------
(* Properties.                                                                *)

\* Every completed run is counted once, whatever is trimmed from the ring and
\* however old the history an update was given.
CountedOnce ==
  /\ recounted = {}
  /\ ring.added <= Cardinality({i \in 1 .. Len(complete) : ~Later(complete[i], ring.high)})

\* A verdict never rests on a run the compared calibrations were fitted on: the
\* held-out executions are in the training set neither of the candidate nor of
\* the approved and the live calibration it is measured against.
HoldoutUnseen == peeked = {}

\* Every run is counted once, and none is judged on what was fitted to it.
LearnedFairly == CountedOnce /\ HoldoutUnseen
=============================================================================
