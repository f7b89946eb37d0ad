------------------------------ MODULE RunFiles ------------------------------
(***************************************************************************)
(* The three files in which a run manager keeps its runs: the storage of    *)
(* the group, the runs that were given up, and every run that was settled   *)
(* (SAVE_ALL_RUNS).  Each is a RunStorage; RunManagerAbstract writes them   *)
(* one after the other when a run is settled, and the program may die       *)
(* between any two writes and be restarted on the files.                    *)
(*                                                                         *)
(* The group has been queued: the storage holds run r with parameters       *)
(* ParOf[r], no two alike, so that a record of the other files tells whose  *)
(* it is.                                                                   *)
(***************************************************************************)
EXTENDS Integers, FiniteSets

CONSTANTS Values, Blank, Zero,
          NRuns,          \* the runs of the group
          ParOf,          \* their parameters
          MaxRunFail,     \* max_run_failures
          SaveAllRuns,    \* save_all_runs
          Managers,       \* whose initialize_restart: "abstract", "panther"
          MaxCrashes      \* bound: crashes

Runs == 0 .. NRuns - 1
ASSUME ParAssumption ==
  /\ NRuns \in Nat /\ ParOf \in [Runs -> Values]
  /\ \A r, s \in Runs : ParOf[r] = ParOf[s] => r = s
ASSUME BytesAssumption == Blank \notin Values /\ Zero \notin Values
ASSUME FailAssumption == MaxRunFail \in Nat \ {0}
ASSUME SaveAssumption == SaveAllRuns \in BOOLEAN /\ MaxCrashes \in Nat

VARIABLES main_n, main_rec, main_flag, main_buf, main_pc, main_call,
          failed_n, failed_rec, failed_flag, failed_buf, failed_pc, failed_call,
          all_n, all_rec, all_flag, all_buf, all_pc, all_call,
          step,       \* what update_run, update_run_failed or a restart does next
          run,        \* the run it is about
          crashes,    \* history
          manager     \* whose initialize_restart this program has

mainVars == <<main_n, main_rec, main_flag, main_buf, main_pc, main_call>>
failedVars == <<failed_n, failed_rec, failed_flag, failed_buf, failed_pc, failed_call>>
allVars == <<all_n, all_rec, all_flag, all_buf, all_pc, all_call>>
vars == <<mainVars, failedVars, allVars, step, run, crashes, manager>>

Main == INSTANCE RunStorage WITH
  n <- main_n, rec <- main_rec, flag <- main_flag, buf <- main_buf, pc <- main_pc,
  call <- main_call, Ops <- {"update", "fail"}, MaxRuns <- NRuns, Failing <- 0 .. MaxRunFail
Failed == INSTANCE RunStorage WITH
  n <- failed_n, rec <- failed_rec, flag <- failed_flag, buf <- failed_buf, pc <- failed_pc,
  call <- failed_call, Ops <- {"add", "set_nfailed"}, MaxRuns <- 2 * NRuns,
  Failing <- 0 .. MaxRunFail
All == INSTANCE RunStorage WITH
  n <- all_n, rec <- all_rec, flag <- all_flag, buf <- all_buf, pc <- all_pc,
  call <- all_call, Ops <- {"add", "update_obs", "set_nfailed"}, MaxRuns <- 3 * NRuns,
  Failing <- 0 .. MaxRunFail

Status(r) == main_rec[r].st
Busy == {"record", "newflag", "setflag", "status", "par", "obs", "clearflag"}
Quiet == {main_pc, failed_pc, all_pc} \cap Busy = {}
At(s) == step = s /\ Quiet
Continue(s) == step' = s /\ UNCHANGED <<run, crashes, manager>>
OnMain == UNCHANGED <<failedVars, allVars>>
OnFailed == UNCHANGED <<mainVars, allVars>>
OnAll == UNCHANGED <<mainVars, failedVars>>

-----------------------------------------------------------------------------
(* get_outstanding_run_ids. *)
Outstanding(r) == Status(r) < 1 /\ Status(r) > -MaxRunFail

(* A mutant: every failure counts as the last. *)
EveryFailure(r) == Status(r) < 0

(* n_run_failures_exceeded: -100 and below are reserved for cancelled runs. *)
TooMany(st) == st <= -MaxRunFail /\ st > -100
Exceeded(r) == TooMany(Status(r))

RecordAll == IF SaveAllRuns THEN "all" ELSE "idle"

(* A mutant: the result of a copy is stored although another has answered. *)
FinishAgain(r) ==
  /\ At("idle")
  /\ Main!UpdateRun(r, main_rec[r].par) /\ OnMain
  /\ step' = RecordAll /\ run' = r /\ UNCHANGED <<crashes, manager>>

(* A result, also one that comes after the run was given up: update_run on the  *)
(* storage, then record_all_run.                                               *)
Finish(r) ==
  /\ At("idle") /\ Status(r) < 1
  /\ Main!UpdateRun(r, main_rec[r].par) /\ OnMain
  /\ step' = RecordAll /\ run' = r /\ UNCHANGED <<crashes, manager>>

(* update_run_failed.  The master of PANTHER may hear of a failure after it has *)
(* given the run up (bound: Failing of Main).                                  *)
Fail(r) ==
  /\ At("idle") /\ (Outstanding(r) \/ manager = "panther")
  /\ Main!UpdateFailed(r) /\ OnMain
  /\ step' = (IF Exceeded(r)' THEN "failed" ELSE "idle") /\ run' = r /\ UNCHANGED <<crashes, manager>>

AddFailed ==
  /\ At("failed") /\ Continue("failed count")
  /\ Failed!AddRun(main_rec[run].par) /\ OnFailed

(* A mutant: the all-runs file is left out. *)
CountOnly ==
  /\ At("failed count") /\ Continue("idle")
  /\ Failed!SetFailed(failed_n - 1, -Status(run)) /\ OnFailed

CountFailures ==
  /\ At("failed count") /\ Continue(RecordAll)
  /\ Failed!SetFailed(failed_n - 1, -Status(run)) /\ OnFailed

(* record_all_run. *)
AddToAll ==
  /\ At("all") /\ Continue("all status")
  /\ All!AddRun(main_rec[run].par) /\ OnAll

RecordStatus ==
  /\ At("all status") /\ Continue("idle") /\ OnAll
  /\ IF Status(run) > 0 THEN All!UpdateObs(all_n - 1)
     ELSE All!SetFailed(all_n - 1, -Status(run))

(* A file whose stream was never opened: add_run throws, and nothing in run_until *)
(* catches it.                                                                 *)
Closed ==
  \/ step = "failed" /\ failed_pc = "down"
  \/ step = "all" /\ all_pc = "down"
Abort == Quiet /\ Closed /\ Continue("aborted") /\ UNCHANGED <<mainVars, failedVars, allVars>>

-----------------------------------------------------------------------------
(* The writes of the operation that is under way.                             *)
Write ==
  /\ UNCHANGED <<step, run, crashes, manager>>
  /\ \/ (Main!SetFlag \/ Main!WriteStatus \/ Main!WritePar \/ Main!WriteObs \/ Main!ClearFlag)
        /\ OnMain
     \/ (Failed!WriteRecord \/ Failed!WriteNewFlag) /\ OnFailed
     \/ (All!WriteRecord \/ All!WriteNewFlag \/ All!SetFlag \/ All!WriteStatus \/ All!WritePar
           \/ All!WriteObs \/ All!ClearFlag) /\ OnAll

(* The whole program dies. *)
Crash ==
  /\ step \notin {"down", "aborted"} /\ crashes < MaxCrashes
  /\ main_pc' = "down" /\ failed_pc' = "down" /\ all_pc' = "down"
  /\ step' = "down" /\ crashes' = crashes + 1
  /\ UNCHANGED <<main_n, main_rec, main_flag, main_buf, main_call,
                 failed_n, failed_rec, failed_flag, failed_buf, failed_call,
                 all_n, all_rec, all_flag, all_buf, all_call, run, manager>>

(* initialize_restart; PANTHER's own opens the storage alone. *)
OpenMain ==
  /\ At("down") /\ Continue(IF manager = "abstract" THEN "open failed" ELSE "idle")
  /\ Main!Restart /\ OnMain

OpenFailed ==
  /\ At("open failed") /\ Failed!Restart /\ OnFailed
  /\ Continue(IF failed_pc' = "refused" THEN "aborted"
              ELSE IF SaveAllRuns THEN "open all" ELSE "idle")

OpenAll ==
  /\ At("open all") /\ All!Restart /\ OnAll
  /\ Continue(IF all_pc' = "refused" THEN "aborted" ELSE "idle")

Empty(N) == [i \in 0 .. N - 1 |-> Main!NoRecord]
Unwritten == [id |-> 0, par |-> Zero, obs |-> Zero]
NoCall == [id |-> 0, par |-> Blank, obs |-> Blank, op |-> "add"]

Init ==
  /\ main_n = NRuns /\ main_rec = [r \in Runs |-> [st |-> 0, par |-> ParOf[r], obs |-> Blank]]
  /\ failed_n = 0 /\ failed_rec = Empty(2 * NRuns)
  /\ all_n = 0 /\ all_rec = Empty(3 * NRuns)
  /\ main_flag = "clear" /\ failed_flag = "clear" /\ all_flag = "clear"
  /\ main_buf = Unwritten /\ failed_buf = Unwritten /\ all_buf = Unwritten
  /\ main_pc = "idle" /\ failed_pc = "idle" /\ all_pc = "idle"
  /\ main_call = NoCall /\ failed_call = NoCall /\ all_call = NoCall
  /\ step = "idle" /\ run = 0 /\ crashes = 0 /\ manager \in Managers

Settle ==
  \/ (\E r \in Runs : Finish(r) \/ Fail(r))
  \/ AddFailed \/ CountFailures \/ AddToAll \/ RecordStatus \/ Abort
Reopen == OpenMain \/ OpenFailed \/ OpenAll

Next == Settle \/ Write \/ Crash \/ Reopen
Spec == Init /\ [][Next]_vars

-----------------------------------------------------------------------------
(* Records of run r: those of a file whose restart was refused or that is being *)
(* written included.                                                           *)
In(file, n, r) == {i \in 0 .. n - 1 : file[i].par = ParOf[r]}
Finished(r) == {i \in In(all_rec, all_n, r) : all_rec[i].st > 0}
GivenUp(r) == {i \in In(all_rec, all_n, r) : all_rec[i].st < 0}
Listed(r) == {i \in In(failed_rec, failed_n, r) : failed_rec[i].st < 0}

Settling == step \in {"failed", "failed count", "all", "all status"} \/ ~Quiet

Differ(file, recs) == \A i, j \in recs : file[i].st = file[j].st => i = j

(* RecordedOnce: however often the program dies and is restarted, a run is not   *)
(* recorded twice with the same outcome, in the all-runs file or among the      *)
(* failed runs: the storage is written first, so a run that is made again after *)
(* a crash was not recorded.  (A failure that comes after the run was given up  *)
(* is an outcome of its own: it has another number of failures.)               *)
RecordedOnce ==
  \A r \in Runs : Differ(all_rec, Finished(r) \cup GivenUp(r)) /\ Differ(failed_rec, Listed(r))

Missing ==
  Cardinality({r \in Runs : Status(r) > 0 /\ Finished(r) = {}})
    + Cardinality({r \in Runs : Exceeded(r) /\ (Listed(r) = {} \/ GivenUp(r) = {})})

(* OneRunPerCrash: the all-runs and failed run files lack no more settled runs  *)
(* than the program has died times.                                            *)
OneRunPerCrash == SaveAllRuns /\ ~Settling /\ step = "idle" => Missing <= crashes

(* FilesAgree: a record among the failed runs, or of a failed run in the         *)
(* all-runs file, is of a run that was given up, and has no more failures than  *)
(* the storage, unless a result came late; a finished run of the all-runs file  *)
(* is finished in the storage.  Crashes and restarts included.                  *)
GaveUp(r, st) == st <= -MaxRunFail /\ (Status(r) > 0 \/ Status(r) <= st)
FilesAgree ==
  \A r \in Runs :
    /\ \A i \in Listed(r) : GaveUp(r, failed_rec[i].st)
    /\ \A i \in GivenUp(r) : GaveUp(r, all_rec[i].st)
    /\ Finished(r) # {} => Status(r) > 0

(* AllRunsHaveResults: a finished run of the all-runs file has observations.    *)
AllRunsHaveResults == All!FinishedRunsHaveResults

(* What a restart of the program would take each run for. *)
OutcomeOf(st) == IF st > 0 THEN "done" ELSE IF TooMany(st) THEN "failed" ELSE "todo"
Contract == INSTANCE RunManager WITH
  outcome <- [r \in Runs |-> OutcomeOf(Main!Recovered(r).st)], phase <- "running", stopped <- FALSE

(* OutcomesAreKept: through crashes, and restarts that crash in turn, the        *)
(* outcome of a run only moves forward, as RunManager promises of a program that *)
(* does not die: no result and no run that was given up is forgotten.          *)
OutcomesAreKept == [][Contract!Settle]_(Contract!vars)

(* RestartGoesOn: the files "facilitate restart of an interrupted PEST++ run"    *)
(* (users' manual, Run Storage Files): a program that has been restarted makes  *)
(* the remaining runs.                                                         *)
RestartGoesOn == step # "aborted"
=============================================================================
