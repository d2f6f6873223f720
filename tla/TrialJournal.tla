---------------------------- MODULE TrialJournal ----------------------------
(***************************************************************************)
(* The records TrialJournal keeps, one file per trial.  _write replaces    *)
(* the file in one step (temporary file and os.replace), so a crash leaves *)
(* the old record or the new one.  record_version, the timestamps and the  *)
(* history of earlier records are not read by anybody and left out.        *)
(***************************************************************************)
EXTENDS Naturals

Terminal == {"pass", "metric_fail", "infra_failed", "blocked"}
Resumable == {"running", "infra_failed"}

\* No file: read returns None.
NoRecord == [status |-> "absent", key |-> <<>>, attempt |-> 0, marks |-> {}, artifact |-> 0]

\* Mutant: checkpoints of an earlier execution are kept whatever it ran on.
BeginKeepingMarks(r, key) ==
    [status |-> "running", key |-> key, attempt |-> r.attempt + 1,
     marks |-> r.marks, artifact |-> 0]

\* begin: a new execution; the runtime checkpoints survive unless the key changed.
Begin(r, key) ==
    [status |-> "running", key |-> key, attempt |-> r.attempt + 1,
     marks |-> IF r.key = key THEN r.marks ELSE {}, artifact |-> 0]

\* checkpoint and finish raise unless the trial is running.
MayWrite(r) == r.status = "running"

Checkpoint(r, mark) == [r EXCEPT !.marks = @ \cup {mark}]

Finish(r, status, artifact) == [r EXCEPT !.status = status, !.artifact = artifact]

=============================================================================
