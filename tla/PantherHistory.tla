--------------------------- MODULE PantherHistory ---------------------------
(***************************************************************************)
(* The run manager with variables that no step of the program depends on:   *)
(* three that record what happened, and the failed run storage file (.rnf), *)
(* which the program only writes.                                           *)
(***************************************************************************)
EXTENDS Panther

VARIABLES started,   \* for each run of the group, how often it was sent to an agent
          computed,  \* pairs <<group, run>> that some agent's model has finished or the
                     \* program has supplied
          kept,      \* how many records of each run of the group failed_file_stor has
          cut        \* runs of the group that pest.stp cut off on an agent

histVars == <<vars, started, computed, kept, cut>>

HistInit ==
  /\ Init
  /\ started = [r \in Runs |-> 0] /\ computed = {} /\ kept = [r \in Runs |-> 0]
  /\ cut = {}

Begun(r) == Cardinality({a \in Agents : <<r, a>> \in active' \ active})

FinishedNow ==
  {<<proc[a].grp, proc[a].run>> : a \in {b \in Agents :
      /\ proc[b].st = "running" /\ proc'[b].st = "sent"
      /\ Last(toMaster'[b]).type = "RUN_FINISHED"}}

SuppliedNow == {<<group, r>> : r \in {q \in Runs : UpdateRun(q)}}

(* A mutant: n_run_failures_exceeded that is off by one. *)
KeptLate(r) == Cardinality({s \in status'[r] .. (status[r] - 1) : s < -MaxRunFail /\ s > -100})

(* update_run_failed lowers the status and, when n_run_failures_exceeded, adds *)
(* a record: once for every value that the status takes on its way down.        *)
KeptNow(r) == Cardinality({s \in status'[r] .. (status[r] - 1) : s <= -MaxRunFail /\ s > -100})

(* kill_all_active_runs, with pest.stp there, takes these runs off the map.     *)
CutNow == {p[1] : p \in {q \in active \ active' : pc = "killall" /\ stop}}

HistNext ==
  /\ Next
  /\ started' = IF group' # group THEN [r \in Runs |-> 0]
                ELSE [r \in Runs |-> started[r] + Begun(r)]
  /\ computed' = computed \cup FinishedNow \cup SuppliedNow
  /\ kept' = IF group' # group THEN [r \in Runs |-> 0]
             ELSE [r \in Runs |-> kept[r] + KeptNow(r)]
  /\ cut' = IF group' # group THEN {} ELSE cut \cup CutNow

HistSpec == HistInit /\ [][HistNext]_histVars

(* ResultsAreOfThisGroup: a run counts as finished only if an agent has run    *)
(* the model with the parameters of this group, or the program has supplied    *)
(* its result.  Run ids are the same in every group, agents may still be busy  *)
(* with the last group when the next one is queued, and the master recognises  *)
(* their answers by the group id alone.                                        *)
ResultsAreOfThisGroup ==
  \A r \in Runs : Finished(r) => <<group, r>> \in computed

(* AttemptsBoundFailures: one attempt counts as at most two failures.  It does *)
(* count as two when the master kills it as overdue and the agent, whose model *)
(* failed at that moment, reports the failure.                                 *)
AttemptsBoundFailures ==
  \A r \in Runs : failure_map[r].n <= 2 * started[r]

(* FailedRunsAreKept: get_failed_run_ids and the failed run storage file tell   *)
(* the same story: a run the program sees as failed has a record in the file.   *)
FailedRunsAreKept == \A r \in Runs : FailuresExceeded(r) => kept[r] > 0

(* StopLeavesOnlyCutRuns: all_runs_complete says that with pest.stp "all        *)
(* remaining runs [are] marked as fails", but it marks those of the queue.  A    *)
(* run that was on an agent then stays as it was unless the agent answers in     *)
(* time; no other run comes out of run_until neither finished, nor given up, nor  *)
(* marked, whatever moved between queue and agents while pest.stp was found.     *)
Marked(r) == status[r] < -failure_map[r].n
StopLeavesOnlyCutRuns ==
  pc = "client" /\ group > 0 => \A r \in Runs : NotNeeded(r) \/ Marked(r) \/ r \in cut
=============================================================================
