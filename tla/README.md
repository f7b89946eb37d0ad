# A verification project for the PEST++ run managers

PEST++ runs a model many times with different parameters: in parallel on many
machines, for days, with models that crash or hang and machines that come and
go. Everything the programs (pestpp-glm, -ies, -da, -mou, -opt, -sqp, -swp,
-sen) compute from those runs is sequential numerics; what is hard to get right
and hard to test is that every run is done, that a result is stored with the
parameters it was computed from, and that the program hears about it once. That
is the work of `src/src/libs/run_managers` and of the sockets under it, and this
project specifies that part of the code.

## 1. Inventory

Paths are below `src/src/libs`.

| component | code | state it keeps | operations |
|---|---|---|---|
| PANTHER run manager, "the master" | `run_managers/yamr/RunManagerPanther.cpp` | `waiting_runs`, `active_runid_to_iterset_map`, `agent_info_set`, `failure_map`, `cur_group_id` | `reinitialize`, `add_run`, `update_run`, `run_until`, and inside it `all_runs_complete`, `init_agents`, `schedule_runs`, `listen`, `process_message`, `kill_run(s)`, `close_agent` |
| PANTHER agent | `run_managers/yamr/PantherAgent.cpp` | the connection, the current run | `start_impl` (a message loop), `run_model`, `transfer_files` |
| sockets | `common/network_package.cpp`, `network_wrapper.cpp` | bytes on their way | `NetPackage::send`, `recv`, `select` |
| contract of a run manager | `run_managers/abstract_base/RunManagerAbstract.cpp` | three run storage files | `run_finished`, `n_run_failures_exceeded`, `run_requried`, `update_run_failed`, `record_all_run`, `initialize_restart` |
| run storage file | `run_managers/abstract_base/RunStorage.cpp` | header, records, a buffer behind the last record | `reset`, `add_run`, `update_run` (two of them), `update_run_failed`, `set_run_nfailed`, `init_restart` |
| idle thread | `run_idle_async`, `pause_idle`, `resume_idle`, `start_run_idle_async`, `end_run_idle_async` in `RunManagerPanther.cpp` | the flags `currently_idle`, `idling`, `terminate_idle_thread`, `idle_thread_finished` | pings, initialises and listens to agents between two runs |
| ping | `RunManagerPanther::ping`, `PANTHERAgent::run_model` | last ping, failed pings of each agent | notices agents that have gone silent |
| file transfer | `process_message`, `run_until`, `close_agent`, `PANTHERAgent::transfer_files` | `open_file_trans_streams` by name, `open_file_socket_map` by socket | START, CONT and FINISH_FILE_WRKR2MSTR, the drain loop of `run_until` |
| model interface | `abstract_base/model_interface.cpp` | template and instruction indices, exceptions of the worker threads, the model's process | `run`: `remove_existing`, `write_input_files`, the commands, `read_output_files` |
| serial run manager | `run_managers/serial/RunManagerSerial.cpp` | the runs of a pass, a run thread and its flags | `run` |
| external and Condor run managers | `run_managers/external`, end of `RunManagerPanther.cpp` | none | start commands and wait for them |
| serialization, wrappers, utilities | `Serialization.cpp`, `wrappers`, `common` | none that outlives a call | parsing, formatting |
| algorithms and programs | `pestpp_common`, `src/src/programs` | matrices, ensembles | sequential numerics |
| vendored | `opt`, `propack`, `mio`, `Eigen` | | |

How they interact. A program calls `reinitialize`, then `add_run` for each run,
then `run`, and reads results and failures from the run storage file. Inside
`run` the master is one thread that alternates between starting waiting runs on
free agents, deciding what to do about overdue ones, and reading one message
from each readable socket. Each agent is a process on some machine; it reads one
order, obeys it, and answers; while its model runs, in a thread of its own that
starts more threads, it goes on listening. Between two calls of `run` a second
thread of the master does the reading. When a run is settled up to three files
are written, one after the other. The serial run manager makes the model runs
itself, with the same model interface as an agent. The user can create a file
`pest.stp` at any moment.

What is hard, and what makes each component correct:

- *Master*. A run may be queued, running on several agents at once, killed and
  answered late, all together, and whether it goes back to the queue is decided
  at four places from what is running at that moment. Correct means: no run is
  lost (`NoRunLost`), the map of active runs agrees with what agents do
  (`ActiveMapMatches`, `EveryCopyAnswers`), a finished run has no copy left
  (`FinishedRunsStop`), failures in memory and on disk agree
  (`FailuresRecorded`), failures stay clear of the reserved status bytes
  (`FailureBytesBounded`), `run` keeps the contract (`KeepsContract`) and returns
  (`RunReturns`), and what a stop leaves unmarked was on an agent
  (`StopLeavesOnlyCutRuns`).
- *Agent and messages*. A kill request names no run; results name a run id that
  is used again in the next group. Correct means: no order but a kill reaches a
  busy agent (`OnlyKillsReachABusyAgent`), an answer counts for the group it
  belongs to (`ResultsAreOfThisGroup`), an agent is free again after any kill
  (`AgentRecovers`).
- *Model runs*. A run thread, its worker threads and the model's process end in
  any order, and whoever watches them looks at three flags that are set one
  after the other. Correct means: no command of the model is started before
  every input file is written (`ModelHasItsInputs`), a run counts as finished
  only when every output of this run's model was read
  (`OnlyCompleteRunsFinish`), a thread that has ended left no model behind
  (`NoModelLeftBehind`), whoever waits for it gets it back (`JoinReturns`).
- *Serial run manager*. It promises what the master promises
  (`ModelRun!KeepsContract`), and returns with `pest.stp` although the model
  hangs (`StopReturns`).
- *Run storage*. The program may die between two writes, also while a restart
  repairs the file. Correct means: every operation is atomic (`KeepsRecords`),
  results stay with their parameters (`ResultsMatchParameters`), nothing but a
  result makes a run finished (`OnlyResultsFinish`).
- *Three files*. They are written one after the other, and a restart goes on with
  all of them. Correct means: nothing is recorded twice (`RecordedOnce`), no more
  is missing than crashes explain (`OneRunPerCrash`), they do not contradict
  each other (`FilesAgree`), a finished run of the all-runs file has a result
  (`AllRunsHaveResults`), and what became of a run stays so (`OutcomesAreKept`).
- *Failure lists*. The failed run file, `get_failed_run_ids` and the counts of
  the master must agree (`FailedRunsAreKept`, `AttemptsBoundFailures`).
- *Idle thread*. Two threads use the agents by turns, and `pause_idle` may give up
  waiting. Correct means: the idle thread begins at most one pass inside a
  `run_until` (`AtMostOneLeftoverPass`), pausing is answered
  (`PauseIsAnswered`), the thread can be ended (`ShutdownEnds`) and takes up its
  work again (`IdleWorkResumes`).
- *File transfer*. Files are open over many messages, by name and by socket, while
  agents vanish and come back, and `run_until` clears and closes both maps.
  Correct means: a file that is closed by its agent's FINISH is whole
  (`WholeFiles`), an open stream belongs to a connected agent
  (`StreamsHaveOwners`), waiting for files ends (`DrainEnds`).
- *Ping*. An agent that hangs is closed after `MAX_FAILED_PINGS`
  (`SilentAgentIsDropped`), which it is not (section 6).

`PROJECT.json` lists the hazards line by line, with the properties that would
catch each.

## 2. Modules

```
PantherNet            connections and messages (NetPackage on TCP)
 |- RunManagerPanther   the master
 |- PantherAgent        the agents
     \ Panther          both together; properties; refinement of RunManager
        |- PantherHistory   + what happened so far, + the failed run file
        \- PantherProofs
            \- PantherProtocolProofs   the invariant of the protocol
                \- PantherContractProofs  the refinement of RunManager, how often a run fails
                    \- PantherHistoryProofs  (also extends PantherHistory)
RunManager            abstract: what any run manager promises a program

IdleThread            the master's two threads and their flags
 \- FileTransfer        + streams, agents that send files
     \- FileTransferProofs
PantherPing           pings of one agent

ModelInterface        the run thread, its workers, the model's process
 |- AgentRun            run_model of an agent
 |- RunManagerSerial    run of the serial run manager; refinement of RunManager
     \ ModelRun         either of them with the run thread
        \- ModelRunProofs

RunRecords            abstract: what the run storage file promises
RunStorage            the file, write by write, with crashes; refines RunRecords
 |- RunStorageProofs
 \- RunFiles            three instances of RunStorage, written in turn; outcomes as RunManager
     \- RunFilesProofs    (uses RunStorageProofs for two of the instances)

MCPanther, MCPantherHistory, MCFileTransfer, MCModelRun, MCRunFiles,
MCRunStorage           instances for TLC
```

The modules meet in what they leave to one another. The step of PantherAgent from
`running` to `sent` is what AgentRun does in detail. RunFiles writes, as separate
steps, the three files of which Panther has the status byte and PantherHistory
the failed run file. The steps `IdleInit` and `IdleRead` of RunManagerPanther are
a pass of IdleThread, there between whole calls of the program, here flag by
flag. FileTransfer has the messages that Panther leaves out.

### PantherNet

An element of `Agents` is a *socket descriptor of the master*, not a process:
after `close_agent` the descriptor is free, and the next agent that connects may
get it. `failure_map` holds descriptors, so this matters. `link` is `none`,
`pending` (not accepted yet), `up` or `down` (the peer has gone, the master does
not know). `toAgent` and `toMaster` are FIFO. When a peer goes the master still
reads some prefix of what was sent, then `EOF`; a send to it may fail or appear
to succeed (`SendOk`). `EOF` also stands for the messages and errors whose only
effect is `close_agent`.

### RunManagerPanther

`pc` is the call the master makes next, and a step is one iteration of one loop:

| pc | code | actions |
|---|---|---|
| `top` | head of `run_until`, `all_runs_complete` | `AllRunsComplete`, `StopBeforePass`, `StartPass` |
| `assign` | `schedule_runs`, waiting runs | `AssignNotNeeded`, `AssignStart`, `AssignLater`, `AssignDone` |
| `overdue`, `resched` | `schedule_runs`, overdue loop | `GiveUpRun`, `RestartRun`, `KillOverdue`, `LeaveOrDuplicate`, `Reschedule`, `OverdueDone` |
| `surplus` | `schedule_runs`, agents that are not persistent | `CloseSurplus` |
| `listen`, `read` | `listen`, `process_message` | `Listen`, `ReadOne` |
| `killall` | `kill_all_active_runs` | `KillRound` |
| `stopped`, `init` | rest of `all_runs_complete`, start of a pass after pest.stp | `MarkWaitingFailed`, `StartPass` |
| `drain`, `drained`, `return` | end of `run_until` | `Drain`, `DrainCheckStop`, `Return` |
| `client`, `queued` | between two calls | `NewGroup`, `UpdateRun`, `RunUntil`, `RemoveStop`, `IdleInit`, `IdleRead` |

`killRet` and `listenRet` are the return addresses of the two calls that are
made from several places. `waiting`, `active`, `astate`, `arun` and
`failure_map` are the members of the same name; `status` is the status byte of
each run (its width is the subject of RunStorage). `active` is a set of pairs
where the code has a multimap from run to agent.

Clocks are not modelled. Each time the overdue loop starts, `late` is an
arbitrary set of running agents, and duplication of a slow run is allowed
whenever an average run time exists (`timed`). The loop runs only after a pass
in which nothing was heard (`quiet`, the counter `n_no_ops`), as in the code. The
counter outlives a call: the last pass of the drain loop leaves it at zero or
above, depending on pings, so `Drain` leaves `quiet` open when that loop ends.
Lists of agents are visited in any order, where the code uses the order of
connection.

### PantherAgent

`proc[a]` is what the process behind socket `a` does: `idle` (in
`recv_message`), `running` (in `run_model`) or `sent` (the result is sent, files
may be on their way, `READY` is not sent). A model ends well, ends badly, is
killed by a request, or the agent disappears; a killed model may also be
reported as failed, since `run_model` gives an exception of its run thread
precedence over the kill.

### Panther and RunManager

`Panther` is the interleaving of both. `RunManager` is the contract: the program
queues a group, calls `run`, and `run` returns when each run is done or failed,
or earlier when the user asked for a stop; outcomes only move forward; once the
next group is queued nothing but the program changes its outcomes. `Contract`
in Panther maps `outcome` to the status byte as `run_finished` and
`n_run_failures_exceeded` read it.

### PantherHistory

Adds `started` (how often a run was sent to an agent), `computed` (which group
and run some model has finished), `kept` (records of each run in the failed
run file, which the program only writes) and `cut` (runs that
`kill_all_active_runs` took off an agent because of pest.stp). No step of the
program depends on them.

### RunRecords and RunStorage

`RunRecords` is a list of records with atomic `Reset`, `Add`, `Finish`,
`Fail`, `SetFailed`.
`RunStorage` has one action for each write to the file; `Crash` may come before
any of them, and `Restart` is `init_restart`, whose repair consists of the same
writes and may crash in turn. A value stands both for a set of parameters and
for the observations computed from it, so that a result beside the wrong
parameters can be told. `Ops` is the set of operations used on a file: the
storage of a group sees `add`, `update`, `fail`; the failed run file, which
`update_run_failed` appends to, `add` and `set_nfailed`; the all-runs file of
`record_all_run` also `update_obs`. The mapping shows a record as a restart would
recover it, and observations only where the status is positive.

### IdleThread and FileTransfer

`idler` is the next statement of `run_idle_async` and `main` the stage of the
program's thread: between calls (`program`), in `pause_idle`, in the stages of
`run_until` that matter to files (`clearing`, `running`, `draining`, `killing`),
in `resume_idle`, or in the destructor (`ending`, `closed`). A `thread_flag` is a
Boolean behind a mutex, so one access is one step. `TimedOut` is the ten-second
limit of `pause_idle`, possible whenever `idling` is up. An element of `Agents`
is an agent with its socket here, since the master's name of a copy has the
agent's host and directory, the run and the file, and an agent that comes back
means the same copy. `snd` is the progress of `transfer_files`; `streams` and
`sockmap` are the two maps of the master; a stream is the list of pieces written
to it. `process_message` for a file happens in whichever thread is listening.
The drain loop has two branches that close streams, `NoAgentsLeft` and
`DrainFindsStop`; only the first clears `sockmap`, as in the code.

### PantherPing

One agent, since agents are pinged independently. `NotHeard` translates the test
of `ping` as it is written: `FD_ISSET` on a copy of the set of all sockets, not on
the result of a `select`. When a ping is due is left open.

### ModelInterface, AgentRun, RunManagerSerial and ModelRun

`thread` is the next statement of the run thread. `Fork` starts the workers of
`write_input_files` or `read_output_files`; a worker takes the next index, works
on that file, or stores an exception and ends. The run thread looks for an
exception, joins, and looks again, worker by worker. `model` is the process of the
current command, which writes outputs in any order, may hang and may end at any
moment; `outputs` tells a file of this run from one that an earlier run left.
A run thread that is told to `terminate` notices while it waits for the model.

AgentRun is `run_model`, one look at a flag per step: exception, finished, then a
message or a time-out. When finished is up a last message is waited for. After
the join the exception is looked at once more. RunManagerSerial is `run`:
passes over the outstanding runs, the same flags, and two joins, of which the
second throws when the first has been made; that is how a stopped run fails.
ModelRun is one run thread with one of the two callers.

### RunFiles

Three instances of RunStorage. `step` is what `update_run`, `update_run_failed` or
`initialize_restart` does next; a file is only turned to when no write of another
is under way. `manager` chooses whose `initialize_restart` the program has: that
of RunManagerAbstract opens all three files, that of RunManagerPanther the first.
Parameters are different for each run, so that a record tells whose it is.
`Contract` maps what a restart would find of a run to the outcomes of RunManager.

## 3. Runs

Deadlock is checked in PantherTwoRuns, PantherRejoin, PantherGroups, PantherLive
and RunStorageMain. It is not in the others, because those programs do stop: the
destructor ends the master and an agent makes a bounded number of runs
(FileTransfer), an agent exits (ModelRun), a restart is refused or the program
aborts (RunFiles, PantherRestart), an agent has been closed (PantherPing). The
first three and RunStorageMain use symmetry, of agents and of values; runs with
liveness properties of their own do not.

| run | instance | shows |
|---|---|---|
| PantherTwoRuns | 2 runs, 2 agents that may vanish, 2 failures allowed | TypeOK, NoRunLost, ActiveMapMatches, FinishedRunsStop, EveryCopyAnswers, OnlyKillsReachABusyAgent, FailuresRecorded |
| PantherRejoin | 1 run, 2 sockets, 3 connections made during the run, agents not persistent | FailureBytesBounded, KeepsContract, with handshakes, surplus agents that are closed, and reused descriptors |
| PantherGroups | 2 groups, 2 agents, pest.stp at any moment, history | ResultsAreOfThisGroup, AttemptsBoundFailures, FailedRunsAreKept, StopLeavesOnlyCutRuns, KeepsContract |
| PantherLive | 1 run, 2 agents of which one stays, fairness | RunReturns, AgentRecovers |
| RunStorageMain | 3 records, 2 values, a file of whole updates, first and last failures of a byte | TypeOK, ResultsMatchParameters, KeepsRecords, OnlyResultsFinish |
| RunFiles | 2 runs, 3 crashes, both restarts, SAVE_ALL_RUNS | RecordedOnce, OneRunPerCrash, FilesAgree, AllRunsHaveResults, OutcomesAreKept |
| ModelRun | 2 inputs, outputs, worker threads, commands and runs; both callers; fairness | TypeOK, ModelHasItsInputs, NoModelLeftBehind, OnlyCompleteRunsFinish, JoinReturns, StopReturns, KeepsContract |
| FileTransfer | 1 agent, 1 run, 2 files of at most one piece, 3 turns; fairness | TypeOK, AtMostOneLeftoverPass, StreamsHaveOwners, WholeFiles, PauseIsAnswered, DrainEnds, ShutdownEnds, IdleWorkResumes |
| PantherPing, PantherRestart, AgentRestart, FileTransferStop | the instance of the module's other run, or a smaller one | one finding each (section 6) |

The bounds and why they are enough.

- *Two agents* give a copy and a duplicate, an agent that failed a run and one
  that did not, a kill on one while the other answers.
- *Two runs* let a kill or an answer meant for one meet the other on the same
  agent. With one run and two groups the same happens between groups.
- `MaxRunFail = 2` has a first failure, after which a run is withheld from the
  agent that failed it, and a last one. Larger values repeat the first.
- `MaxQueue` stops duplicates of a slow run from being added to the queue for
  ever (the code adds one for each pass without a free agent). With 2 a run can
  be queued twice, and queued while it runs.
- `MaxKillTries` is 100 in the code. With 2 `kill_all_active_runs` runs its loop
  again, and can give up with agents still busy, which is what leads to answers
  of old groups.
- `MaxJoin` and `MaxGroup` bound connections and groups; 3 connections on 2
  sockets reuse a descriptor, 2 groups use each run id twice.
- *Storage*. Three records give one before, one after and the one behind which the
  buffer lies; two values tell a result from another one. A status byte has its
  width (`Byte`), and `Failing`, the numbers of failures after which a run may fail
  again, are 0, 1, 126 and 127: the first failures, and by `set_run_nfailed` the last
  two a byte can count. With 128 among them TLC finds the wrap to a finished run.
- `FailureBytesBounded` is sharp in PantherRejoin: with `max_run_fail` 2 and two agents
  a run does get 5 failures, 1 that leaves it to be tried and 2 of each agent.
- *Three files* (RunFiles). Two runs let one be settled while the other is
  missing from a list; three crashes let a repair crash and a restart be lost
  in turn; `Failing` of the storage reaches `MaxRunFail`, so that the master
  hears of one failure after it has given a run up.
- *Model runs*. Two files and two workers let one worker end with an exception
  while the other is at work, or take both files; two commands let a model be
  killed before, between and in them; with two runs the outputs of one are there
  when the other starts.
- *Files*. Two files let an agent vanish inside one and between two; three turns
  let it come back and repeat the run; two messages in flight let the start of a
  file be read in one `run_until`, or by the idle thread, and its end in the next.
  Names contain the agent, so that agents do not meet in the maps: one agent and
  one run suffice, and the names that can collide are those of the same agent.
- `MaxFailedPings = 2`, so that counting and closing differ.

*Fairness*. PantherLive (`FairSpec` of Panther): weak fairness of the thread
that executes `run_until`; of the program that calls `run` once it has queued a
group; of the idle thread, which loops as long as it exists; and of each agent
that is there: it blocks in `recv` until something arrives and its model ends.
A model that hangs for ever is killed by the user's overdue settings, which are
optional, so a model that ends is an assumption. Nothing is assumed of agents
that connect or vanish, of the user, or of what the clock calls overdue: a run
may be killed as overdue each time, and then it is given up after `MaxRunFail`.
One agent is `Reliable`: with none the master does wait for ever, as it should.

FileTransfer: weak fairness of the idle thread, of the stages of `run_until`, of
reading the messages of each agent, and of an agent that is sending a file. Nothing
is assumed of new runs, of agents that vanish or come back, of the program that
calls `run` again, and `pause_idle` need not time out, so that `PauseIsAnswered`
does not rest on the limit.

ModelRun: weak fairness of the run thread, of each worker and of the caller. The
model may hang and the master may be silent; `JoinReturns` and `StopReturns`
hold because a thread that waits for a model looks at `terminate`.

## 4. Proofs

TLAPS proves the following for every value of the constants, with only the named
assumptions on them (`AgentsAssumption`: finitely many sockets;
`MaxRunFailAssumption`, `ThreadsAssumption`, `ModelFilesAssumption`: positive
numbers; `ParAssumption`, `BytesAssumption`: no two runs have the same parameters, and
none those of an unwritten record; the bounds are natural numbers).

| theorem | states |
|---|---|
| `PantherProofs!TypeCorrect` | `TypeOK` |
| `PantherProofs!FailuresAreRecorded` | `FailuresRecorded` |
| `PantherProofs!GivenUpRunsSettled` | `GivenUpRunsAreSettled`: no run that was given up is one to do again. No run checks it, since it follows from `FailuresRecorded` |
| `PantherProofs!RunsAreNeverStartedOver` | no step is `RestartRun`: one branch of the overdue loop is never taken |
| `PantherProtocolProofs!MapMatchesAgents` | `ActiveMapMatches` |
| `PantherProtocolProofs!FinishedRunsHaveNoCopy` | `FinishedRunsStop` |
| `PantherProtocolProofs!CopiesAnswer` | `EveryCopyAnswers` |
| `PantherProtocolProofs!BusyAgentsSeeOnlyKills` | `OnlyKillsReachABusyAgent` |
| `PantherProtocolProofs!NoRunIsLost` | `NoRunLost` |
| `PantherContractProofs!PantherKeepsContract` | `KeepsContract`, the refinement of RunManager by the PANTHER run manager, while no status byte reaches -100 (`NoneReserved`) |
| `PantherContractProofs!FailuresAreBounded` | `failure_map` counts at most `MaxRunFail - 1 + 2 * Cardinality(Agents)` failures of a run |
| `PantherContractProofs!FailureBytesAreBounded` | `FailureBytesBounded`, without pest.stp |
| `PantherContractProofs!PantherKeepsContractUnstopped` | `KeepsContract`, without pest.stp and with `MaxRunFail + 2 * Cardinality(Agents) <= 100`: nothing is assumed of status bytes |
| `PantherHistoryProofs!ResultsBelongToTheirGroup` | `ResultsAreOfThisGroup` |
| `PantherHistoryProofs!FailedRunsAreListed` | `FailedRunsAreKept` |
| `PantherHistoryProofs!StopCutsOnlyRunning` | `StopLeavesOnlyCutRuns` |
| `PantherHistoryProofs!AttemptsAreBounded` | `AttemptsBoundFailures` |
| `RunStorageProofs!TypeCorrect` | `TypeOK`, for any number of failures |
| `RunStorageProofs!OnlyResultsAreFinished` | `OnlyResultsFinish`, while no run fails more than 128 times |
| `RunStorageProofs!ResultsStayWithParameters` | `ResultsMatchParameters`, for whole updates (`WholeUpdates`) |
| `RunStorageProofs!UpdatesAreAtomic` | `KeepsRecords`, the refinement of RunRecords, for whole updates |
| `RunFilesProofs!ListsAgreeWithStorage` | `FilesAgree`; this theorem and the others of the module for `MaxRunFail <= 98` |
| `RunFilesProofs!OutcomesAreRecordedOnce` | `RecordedOnce` |
| `RunFilesProofs!RecordedRunsHaveResults` | `AllRunsHaveResults` |
| `RunFilesProofs!CrashesCostOneRunEach` | `OneRunPerCrash` |
| `RunFilesProofs!FilesAreStorage` | each file is written as RunStorage allows: `Failed!Spec`, `All!Spec`, `[][Main!Next]` |
| `RunFilesProofs!StorageIsAtomic`, `FailedRunFileIsAtomic` | the step of RunRecords for the storage, `KeepsRecords` for the failed run file |
| `RunFilesProofs!StorageKeepsResults` | `ResultsMatchParameters` for the storage |
| `RunFilesProofs!CrashesKeepOutcomes` | `OutcomesAreKept` |
| `FileTransferProofs!TypeCorrect` | `TypeOK` |
| `FileTransferProofs!LeftoverPassBound` | `AtMostOneLeftoverPass` |
| `FileTransferProofs!OpenStreamsHaveOwners` | `StreamsHaveOwners` |
| `FileTransferProofs!FilesArriveWhole` | `WholeFiles` |
| `ModelRunProofs!TypeCorrect` | `TypeOK`, for any `MaxRunFail` |
| `ModelRunProofs!InputsBeforeModel` | `ModelHasItsInputs` |
| `ModelRunProofs!ModelEndsWithRun` | `NoModelLeftBehind` |
| `ModelRunProofs!FinishedMeansComplete` | `OnlyCompleteRunsFinish`, while `MaxRunFail <= 128` |
| `ModelRunProofs!SerialKeepsContract` | `KeepsContract`, the refinement of RunManager by the serial run manager, while `MaxRunFail < 100` |

*PantherProofs.* Type correctness has one lemma per group of actions. Two
clauses make it inductive: an agent in state ACTIVE has a run, because the
overdue loop indexes `failure_map` by it, and a call in progress has a return
address. `FailuresRecorded` is inductive with the type invariant: `Charge` is the
only operation that adds to `failure_map`, and it lowers the status byte by as
much unless the run is finished; `RunUntil` and `NewGroup` empty the map; pest.stp
only lowers the byte. `GivenUpRunsSettled` follows from it without a further
induction. `RunsAreNeverStartedOver` needs the type invariant alone:
`max_concurrent_runs` is `max(1, max_run_fail)`, so that with more copies overdue
the failures and the overdue copies together are more than `max_run_fail`, and
the branch above has given the run up.

*PantherProtocolProofs.* What master and agents know of each other is one
predicate, `AgentOK`, of seven values that belong to one agent: its connection,
the state and the run the master has noted, the messages in both directions, what
the agent is doing, and the group whose run the master expects of it (`Expected`,
which is `Nobody` when the map has no entry for the agent). For
a connection that is up it is a disjunction of the stages an agent goes through:
connecting; free; told to start; running; answered; ready again, with READY on its
way; a connection that went down leaves what was sent before. In each stage it says which
messages may be on their way and in which order, and that a result on its way is
of the expected group, or of no later group than the last one whose runs were
sent (`LastPast`). `ProtocolInv` says it of every agent, that the map has entries
of active agents for unfinished runs only, and that it is empty between
`reinitialize` and `run`. As the predicate takes values and no variables, a step
is proved once for the agent that moves and once for those that stay. Four
theorems are consequences. For `NoRunLost` there is a second invariant,
`RunsInv`: a run that is neither finished nor given up is in the queue, has a
copy in the map, or is the one `should_schedule` is about, unless pest.stp is
there; and once `run_until` sets out to return every run is settled. It rests on an
argument about the overdue loop: an agent that is killed for an overdue run which
is not given up always leaves the run to be rescheduled, since
`n + |Overdue| < MaxRunFail` before the kill.

*PantherContractProofs.* The steps of the master map to those of RunManager:
`NewGroup` to `Queue`, `UpdateRun` to `Supply`, `RunUntil` to `Start`, `Return` to
`Return`, `CreateStop` and `StopBeforePass` to `Stop`, `RemoveStop` to `Resume`; a
step that stores a result or charges a failure maps to `Settle`, everything else
to a stutter. The return is where `RunsInv` is needed: no run may be unsettled. A
run that was given up is one whose status says so (`FailuresRecorded`), but only
above -100: from there on `n_run_failures_exceeded` takes the value for that of a
cancelled run, and the contract would not hold. That is the condition of the
theorem, and an option `max_run_fail` of usual size meets it, as the next
theorems show. They bound how often a run can fail. For a run let `n` be the failures
counted, `Held` the agents that are ACTIVE for it and `Owing` those that have, run
or report an attempt at it; each charge comes from one of the two sets: a kill of
an overdue run takes the agents it charges from `Held`, a reported failure takes its
agent from `Owing`. So `n + |Held| + |Owing|` rises only when an attempt is begun, and
then `n < MaxRunFail` (`BeginsRun`), while either set has at most every agent; hence
the bound. Without pest.stp the status byte of a run that has no result is exactly
`-n` (`CountInv`). With it the bound of `n` still holds but not that of the byte:
`MarkWaitingFailed` lowers it for each entry of the queue, whose length the
code does not bound (section 6).

*PantherHistoryProofs.* `ResultsAreOfThisGroup` alone is not inductive: it says
nothing of results on their way. The strengthening says that every message
`RUN_FINISHED` in `toMaster` names a group and run in `computed`, and that every
finished run of the current group is in `computed`. A step of an agent adds to
both at once; the master stores a result only when its group is the current one;
`computed` never shrinks; and a new group starts with no finished run.
`FailedRunsAreKept` is inductive once two things are known of a step: within a
group a status byte only falls, or becomes 1 with a result (`StatusFalls`); and a
byte that falls to `-MaxRunFail` or below is itself one of the values for which
the step writes a record, so that the count of records rises (`KeptNowCounts`).
`AttemptsBoundFailures` rests on the same count of what is still to come: the
failures of a run, `Held` and `Owing` are together at most twice the attempts begun
(`Counted`), since an attempt that begins adds one to each set and no other step
enlarges them. That an agent owes one answer and no second, and none of a group
that has not begun, is `ProtocolInv`; that a new group begins with no agent ACTIVE
is the third conjunct of `AttemptsInv`, because `kill_all_active_runs` ends every call
of `run_until`, and a round of it leaves no agent ACTIVE. `StopLeavesOnlyCutRuns` uses that
again. A run is *accounted for* while it is finished, given up, queued, in the map or
about to be rescheduled. `StepsAccount`, beside `RunsInv`, says that no step but a kill
round and `MarkWaitingFailed` ends this; the first puts the runs it takes out of the map
into `cut`, the second marks what the queue holds. `StopInv` therefore says of every run
that it is marked or cut or, before `run_until` begins to settle, accounted for, and from
then on (`Settling`) finished or given up: when settling begins without a stop, by
`RunsInv`, and when it begins with one, because the queue has been marked and the map
has been empty since the kill round.

*RunStorageProofs.* For a file of whole updates (`WholeUpdates`: as the storage of
a group and the failed run file are used, without `update_obs`; and no run fails
more than 128 times (`Failing` within `0 .. 127`), since the int8 that
`update_run_failed` decrements would wrap and show a finished run) the invariant `FileInv` relates
the point an operation has reached to the contents of the buffer: from `setflag`
on the buffer holds the call's run, parameters and observations; while the flag
is set every part of the record that has been written already is equal to the
buffer; when it is clear every finished record has the observations of its
parameters. The refinement then has one step per write: setting the flag is the
abstract `Finish`, the flag behind a new record is `Add`, the status byte alone
is `Fail` or `SetFailed`; the other writes, a crash and a restart are stutters.

*RunFilesProofs.* The storage is always written first, so a list can lag behind it
but never be ahead. `LogOK` says of each list that its records agree with the
storage and that no run has the same outcome in two of them. It survives every
change of the storage, since a status only falls, or becomes 1 (`Moves`). What has to be known
when a record is written is that it is news: `SettleInv` carries from the write of
the storage to that of the list the outcome of the run being settled, and that no
record has it yet, which holds at first because the storage had not reached it. An
update of the all-runs file takes five writes and may be finished by a restart;
`Finishing` says of the record in its buffer that its run is finished in the
storage and in no other record, and `ResultsInv` that it is the only finished
record which may lack its observations. A restart goes by the buffer alone and
writes `Zero` in place of parameters, after which the record is nobody's.
The condition of the theorems, `StatusFits`, is that `max_run_failures` is at most 98,
so that also the one failure after it (the bound of `Fail`) leaves a status above
-100, which `n_run_failures_exceeded` reports.
`OneRunPerCrash` needs to know which run a crash costs. `Lost` are the runs that the
lists lack and that are not being settled: while one is (`Fresh`) it is excused, and a
crash is what ends the excuse. A result that waits in a buffer is replayed by the restart
for the run that was interrupted, which has been counted already (`Replay`; the all-runs
file loses the parameters then, so its record is nobody's). `CrashInv` says whose the
buffers, the flags and the records under way are, and `LostInv` that the runs lost are at
most as many as the crashes.
`FilesAreStorage` is the composition: each step of the three files together is a step
of each, or leaves it alone. What is to be shown is that the calls are ones RunStorage
knows: parameters of a run, a record that exists, a number of failures that
is one of `FailureCounts`, no crash of a file that was refused. With it the theorems of
RunStorageProofs hold of the storage and of the failed run file (`MainFile`,
`FailedFile`), whose invariant the queued group of runs satisfies too. The
all-runs file is not a file of whole updates. `OutcomesAreKept` follows from the
invariant of the storage: while the flag is set the run in the buffer is finished
for a restart, and it is cleared only when the record says so too.

*FileTransferProofs.* Between `pause_idle` and `resume_idle` `currently_idle` is
down; the idle thread reaches a pass only if it had read the flag before, and it
can have read it only once. The invariant says so in four conjuncts; nothing is
assumed about time-outs. For the files there are two more invariants. `SendInv`:
on each wire a file that has been begun goes on with its next piece, its end or
the loss of its agent, and the sender stands behind the last message, so that a
file is never abandoned silently. `StreamInv` ties the master to it (`Owned`):
either the socket has no name and no stream of the agent is open, or its name is
the agent's only open stream, which holds the first pieces of the file while the
next one is what the wire, or the sender, comes with. Clearing the maps returns
to the first case, and the messages of a file that was cleared find no open
stream. `StreamsHaveOwners` and `WholeFiles` are consequences.

*ModelRunProofs.* The heart is the pool of workers. While they are being joined,
every file has been processed, or is still to be taken, or some worker is at it,
unless a worker has raised an exception (`NoFileLost`); a worker that ended
without one left no file to take (`WorkersEnd`); and a worker that has been joined
has ended, with its exception counted (`JoinedWorkers`: looking after the join is
what makes this hold). When all are joined and no exception was counted, all
files are processed. From there on the invariant follows the run thread: inputs
are complete from `start` on, outputs are fresh once the last command ended
well, a thread whose finished flag is up without an exception has read them.
The invariants of the two callers say what they have seen of the flags. The
refinement maps the storing of a result to `Settle`, a pass that finds nothing
outstanding to the return, everything else to a stutter; it rests on how far
the status can fall. `CountInv` says that it stays at `-MaxRunFail` or above and that
a run which is in hand, or still in the pass, has a failure left. It holds while
`MaxRunFail` fits into the status byte (`FailuresFit`, at most 128), as the last failure
would otherwise wrap it to a finished run, which is why `FinishedMeansComplete` has this
condition. The contract asks for more: `Exceeded` wants a status above -100, so
`SerialKeepsContract` is for `MaxRunFail < 100`. Both conditions are sharp: with one
run, TLC finds `OnlyCompleteRunsFinish` violated at 129 and `KeepsContract` at 100, and
neither at 128 and 99. For the ranges in `TypeOK` a second invariant, `Bounds`, follows
each counter: the files left, the worker that is joined and the command never pass
their ends; the status is a byte whatever `MaxRunFail` is.

What these proofs do not say. Liveness is outside TLAPS, which has no rules for
fairness and ENABLED, so `RunReturns`, `AgentRecovers`, `JoinReturns`,
`StopReturns`, `PauseIsAnswered`, `DrainEnds`, `ShutdownEnds` and
`IdleWorkResumes` are model-checked only. Every other property of the runs
that pass has a theorem. No module uses RECURSIVE, and no theorem needs an
induction over data.

## 5. Not modelled

- *Durations*: averages, overdue factors, when a ping is due and time-outs are
  nondeterministic choices (section 2).
- *Two threads inside one list or file at once*. The idle thread may still be in
  its last pass when `run_until` begins (`AtMostOneLeftoverPass`); that both then
  use the same lists is a data race, and what it would do to them is not modelled.
- *An agent that comes back while its old connection is half open* (FileTransfer).
  `Rejoin` waits until the master has read the end of the old one. The code accepts the
  new socket at once (`RunManagerPanther.cpp:1926`); the START of a copy that is still
  open is then refused, and two connections could write to one copy.
- *Who removes pest.stp*. `RemoveStop` is `try_remove_quit_file`, which the programs call
  at points of their own; it may happen at any moment between two calls.
- *Exceptions out of the idle thread*, which end the program; security codes;
  corrupt messages other than as EOF.
- *`RUN_UNTIL_COND`* other than NORMAL: only callers of the Fortran and C
  wrappers can ask for NO_OPS or TIME.
- *What template and instruction files say*, checks before the first run, the
  Windows branch of the model interface.
- *A crash of the machine*, which may reorder writes the operating system holds.
- *External and Condor run managers*: they start commands and wait, and keep no
  state that could be wrong.
- *The algorithms and the vendored libraries*: well over nine tenths of the lines
  of the repository. They are mostly sequential floating-point computations
  without shared state, events or failures of their own; what could be wrong in
  them is numerical, and a model of the control would say little about it. Some of
  them have discrete parts that a model could follow, the nondominated sorting of
  pestpp-mou and the steps at which pestpp-glm restarts among them; they are left
  out because they meet none of the hazards of section 1. The share of the
  repository that the specifications cover is small for this reason.
- Everything marked `not_modelled` in `PROJECT.json`, with reasons there.

## 6. Findings

Each of these is shown by a run that ends in a counterexample; `PROJECT.json`
quotes the lines.

1. PantherPing: a silent agent is never closed. `ping` tests a set of sockets that
   has not been through `select`, so no unanswered request is ever counted.
2. PantherRestart: a PANTHER master that was restarted dies at the first run that
   fails for good, because its `initialize_restart` did not open the failed run
   file.
3. AgentRestart: with `restart_on_error`, losing the master while a model runs ends
   the agent, since the exception destroys a run thread that was not joined.
4. FileTransferStop: with pest.stp found while a file arrives, `run_until` can wait
   for ever for a file whose agent has gone, because one of two branches leaves
   `open_file_socket_map` as it was.

Further disagreements that were met while modelling, and that the models contain;
no run is devoted to them.

- More copies of a run than `max_run_fail` can be running (manual, line 2485): the
  limit is tested by the overdue loop alone (`RunManagerPanther.cpp:1531`), while
  the queue may hold a run twice.
- With pest.stp, runs that are being run are killed but not marked as failed
  (manual, line 2516; `RunManagerPanther.cpp:2450`). `StopLeavesOnlyCutRuns` says that
  these are the only ones: every other run is finished, given up or marked.
- An attempt killed as overdue and then reported as failed counts twice, so a run
  may be given up before `max_run_fail` attempts (manual, line 2542;
  `RunManagerPanther.cpp:1519`). `AttemptsBoundFailures` says twice and no more.
- The failed run file gets a further record for every failure after the threshold
  (`RunManagerAbstract.cpp:581-582`).
- A restart after a crash inside `record_all_run` overwrites the parameters of the
  record in the all-runs file with those of the buffer's last user, or zeros
  (`RunStorage.cpp:534`). `AllRunsHaveResults` speaks of observations only.
- A crash inside `add_run` leaves a file that `init_restart` refuses
  (`RunStorage.cpp:344`); RunManagerAbstract then refuses to restart although the
  file concerned may be one of the two lists. No property is about this: `KeepsRecords`
  takes the complete records of a refused file as still there.
- `run_until` clears the maps of file transfers while an agent may be in the middle
  of a file (`RunManagerPanther.cpp:733`); the rest of the file is dropped and the
  copy ends short, where the manual (line 2521) describes whole files.
- A command that cannot be executed is not noticed as such but as a model that
  wrote nothing (`common/system_variables.cpp:212-225`).
- An agent that exits on losing its master may leave the model's process running.
- A run that was killed on request is reported as failed when the run thread stored
  an exception at that moment.

- The branch of the overdue loop that means to restart a run of which too many copies
  are overdue (`RunManagerPanther.cpp:1500`) is never taken
  (`RunsAreNeverStartedOver`).

Limits that need an unusual option or a large number: `max_run_fail` has no upper
bound, but at -100 and below a run that was given up is not reported as failed
(`n_run_failures_exceeded` wants a status above -100), and at the 129th failure the
status byte wraps and the run counts as finished. The models have both, and the theorems
of section 4 state the bounds below which neither happens; `max_run_failures` is small in
the runs, and RunStorageMain alone goes to the 128th failure. As `FailureBytesBounded` is sharp, `max_run_fail`
is not the whole story: failures can go on to `max_run_fail - 1` and two for each
agent, so that with fifty agents a master may get to -100 with any `max_run_fail`.
And `waiting_runs` can grow without end: a run whose agent is ACTIVE but has no entry in
the map any more (its failure is reported, READY is still to come) is queued
again in every quiet pass without a free agent (`RunManagerPanther.cpp:1561`); with
pest.stp each of these entries lowers the status byte of the run by one.

## 7. Plan

Done: every module of section 2, and the proofs of section 4. Left:

1. **AgentRun as a refinement** of the step of PantherAgent from `running` to
   `sent`, with the messages of PantherNet in place of a status. It would say little
   that `FinishedMeansComplete` does not.
2. **Shared use of lists** by the idle thread's leftover pass and `run_until`, which is
   a data race: a model would have to say what the containers do.
