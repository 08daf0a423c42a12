---------------------------- MODULE MCQueueWorker ----------------------------
(* Small instances of QueueWorker for TLC.                                    *)
EXTENDS QueueWorker

\* Two jobs of two runs, the first a person's, the second an agent's.
TwoJobs == [e \in Entries |-> "job"]
\* A job, then a one-off generation.
JobThenGeneration == [e \in Entries |-> IF e = 1 THEN "job" ELSE "generate"]
PersonThenAgent == [e \in Entries |-> IF e = 1 THEN "tui" ELSE "mcp"]
AllByPerson == [e \in Entries |-> "tui"]
FromStart == [e \in Entries |-> 1]
\* The second entry resumes at its chain's second run.
SecondResumes == [e \in Entries |-> IF e = 2 THEN 2 ELSE 1]
==============================================================================
