------------------------------ MODULE ModelRun ------------------------------
(***************************************************************************)
(* Model runs as they are made by an agent and by the serial run manager:   *)
(* ModelInterface's run thread composed with each of its two callers.  A    *)
(* behaviour is that of one program, an agent or a serial run.              *)
(***************************************************************************)
EXTENDS AgentRun, RunManagerSerial

VARIABLE caller     \* which program this is

vars == <<caller, runVars, agentVars, serialVars>>

Init ==
  /\ caller \in {"agent", "serial"}
  /\ RunInit /\ AgentInit /\ SerialInit

RunThreadStep == RunThread /\ Alive /\ UNCHANGED <<caller, agentVars, serialVars>>
Worker(w) == WorkerStep(w) /\ Alive /\ UNCHANGED <<caller, agentVars, serialVars>>
ModelStep ==
  /\ ModelEnds \/ \E o \in Outs : ModelWrites(o)
  /\ UNCHANGED <<caller, agentVars, serialVars>>

Next ==
  \/ RunThreadStep \/ (\E w \in Workers : Worker(w)) \/ ModelStep
  \/ caller = "agent" /\ AgentNext /\ UNCHANGED <<caller, serialVars>>
  \/ caller = "serial" /\ SerialNext /\ UNCHANGED <<caller, agentVars>>

(* Threads keep running and both callers keep watching.  The model may hang, a  *)
(* master may say nothing, and nobody has to ask for another run.              *)
Fairness ==
  /\ WF_vars(RunThreadStep) /\ \A w \in Workers : WF_vars(Worker(w))
  /\ WF_vars(caller = "agent" /\ AgentStep /\ UNCHANGED <<caller, serialVars>>)
  /\ WF_vars(caller = "serial" /\ SerialStep /\ UNCHANGED <<caller, agentVars>>)

Spec == Init /\ [][Next]_vars /\ Fairness

-----------------------------------------------------------------------------
Threads == {"none", "remove", "write", "look write", "join write", "start", "wait",
            "read", "look read", "join read", "throwing", "ended"}

TypeOK ==
  /\ thread \in Threads /\ flags \in BOOLEAN \X BOOLEAN \X BOOLEAN
  /\ inputs \subseteq AllInputs /\ outputs \in [Outs -> {"absent", "stale", "fresh"}]
  /\ model \in {"none", "running", "ok", "bad"} /\ command \in 1 .. NCommands + 1
  /\ left \in 0 .. NInputs + NOutputs
  /\ worker \in [Workers -> [st : {"none", "take", "work", "ended"}, file : Nat]]
  /\ raised \in [Workers -> BOOLEAN] /\ joining \in 1 .. NThreads + 1 /\ errors \in BOOLEAN
  /\ got \subseteq Outs \X {"stale", "fresh"}
  /\ status \in [Runs -> -128 .. 127] /\ cur \subseteq Runs /\ pass \subseteq Runs

(* ModelHasItsInputs: no command of the model runs unless every input file of   *)
(* this run has been written, whichever worker raised an exception when.       *)
ModelHasItsInputs == model # "none" => inputs = AllInputs

(* OnlyCompleteRunsFinish: an agent reports a run as finished, and the serial   *)
(* run manager stores its result, only when every command ended well and every  *)
(* output file was read as this run's model left it: no stale file, no          *)
(* exception that came after the finished flag, no run that was stopped, no run *)
(* that has failed until its status byte wraps (max_run_failures <= 128).      *)
OnlyCompleteRunsFinish ==
  [][/\ agent # "reported" /\ agent' = "reported" /\ result' = "RUN_FINISHED" => Complete
     /\ \A r \in Runs : status[r] < 1 /\ status'[r] > 0 => Complete]_vars

(* NoModelLeftBehind: a run thread that has ended, by itself or because it was   *)
(* asked to, has left no process of the model behind to write into the next run. *)
NoModelLeftBehind == thread \in {"throwing", "ended", "none", "remove", "write"} => model = "none"

(* JoinReturns: whoever waits for the run thread gets it back although the       *)
(* model hangs.                                                                *)
Joining == agent = "join" \/ manager \in {"join", "join early"}
JoinReturns == Joining ~> ~Joining

(* StopReturns: with pest.stp the serial run manager returns although the model  *)
(* hangs.                                                                      *)
StopReturns == stop /\ manager \notin {"open", "queued"} ~> manager = "open"

(* KeepsContract: the serial run manager keeps the contract of RunManager; in    *)
(* particular run returns only when every run is finished or given up, with or  *)
(* without pest.stp.  That holds for max_run_failures < 100: from there on the  *)
(* byte of a run that has failed often enough is in the range of cancelled runs, *)
(* and run returns with a run that get_failed_run_ids does not list.            *)
KeepsContract == Contract!Spec

(* RestartsOnError: with restart_on_error "agents can optionally be restarted in *)
(* the case that communication errors still occur" (users' manual, PANTHER).    *)
RestartsOnError == agent # "aborted"
=============================================================================
