------------------------------- MODULE Panther -------------------------------
(***************************************************************************)
(* The run manager and its agents together.                                *)
(***************************************************************************)
EXTENDS RunManagerPanther, PantherAgent

vars == <<masterVars, netVars, agentVars>>

Init ==
  /\ MasterInit /\ AgentInit
  /\ link = [a \in Agents |-> IF a \in Handshaken THEN "up" ELSE "none"]
  /\ toAgent = [a \in Agents |-> <<>>]
  /\ toMaster = [a \in Agents |-> <<>>]

Next == (MasterNext /\ UNCHANGED agentVars) \/ (AgentNext /\ UNCHANGED masterVars)

Spec == Init /\ [][Next]_vars

TypeOK == NetTypeOK /\ MasterTypeOK /\ AgentTypeOK

-----------------------------------------------------------------------------
(* Safety.                                                                  *)

Queued(r) == \E i \in DOMAIN waiting : waiting[i] = r

(* NoRunLost: whenever run_until asks all_runs_complete, every run that is     *)
(* neither finished nor failed max_n_failure times is waiting in the queue or  *)
(* running on an agent.  Runs move between the queue, the map of active runs   *)
(* and agents that vanish, are killed as overdue or answer late; a run dropped *)
(* on the way would make run_until return without its result.                  *)
NoRunLost ==
  pc = "top" /\ ~stop =>
    \A r \in Runs : NotNeeded(r) \/ Queued(r) \/ NConcurrent(r) > 0

(* ActiveMapMatches: inside run_until each entry of the map of active runs     *)
(* names an agent that is in state ACTIVE for that very run.  get_n_concurrent *)
(* and kill_runs decide by this map alone.                                     *)
ActiveMapMatches ==
  pc # "queued" => \A p \in active : astate[p[2]] = "ACTIVE" /\ arun[p[2]] = p[1]

(* FailuresRecorded: the master decides by failure_map, which lives in memory   *)
(* and is emptied by run_until; the program sees the status byte in the run     *)
(* storage, which the stop file, results and failures change too.  The byte     *)
(* never shows fewer failures than the master has counted.                      *)
FailuresRecorded ==
  \A r \in Runs : status[r] <= 1 /\ (status[r] < 1 => failure_map[r].n <= -status[r])

(* FailureBytesBounded: a run that has failed max_n_failure times is begun no   *)
(* more, but copies of it may be under way, and one copy counts twice when the  *)
(* master kills it as overdue and its agent still reports that it failed.  The   *)
(* byte must stay above -100, from which on it would say that the run was        *)
(* cancelled, and above -128; failures alone take it no further down than this.  *)
FailureBytesBounded ==
  \A r \in Runs : status[r] > -(MaxRunFail + 2 * Cardinality(Agents))

(* GivenUpRunsAreSettled: so a run the master has given up is not one that      *)
(* get_outstanding_run_ids, from which a restarted program takes the runs it    *)
(* has to do, still offers.                                                     *)
GivenUpRunsAreSettled == \A r \in Runs : GivenUp(r) => ~RunRequired(r)

(* FinishedRunsStop: a run whose result is stored has no copy left that the    *)
(* master counts as running, whatever duplicates of it were queued or started. *)
FinishedRunsStop == \A r \in Runs : Finished(r) => NConcurrent(r) = 0

InboxHas(a, t) == \E i \in DOMAIN toAgent[a] : toAgent[a][i].type = t
ResultOnItsWay(a, r) ==
  \E i \in DOMAIN toMaster[a] :
    LET m == toMaster[a][i] IN m.type \in ResultType /\ m.run = r /\ m.grp = group

(* EveryCopyAnswers: an agent the master counts as running r either is gone,   *)
(* which the master will notice, or has r's parameters before it or is running *)
(* r with no kill request on its way to it, or has sent a result of r.  A kill *)
(* request names no run: one meant for an earlier run must never reach a copy  *)
(* that is still wanted.                                                       *)
EveryCopyAnswers ==
  \A p \in active :
    LET r == p[1]
        a == p[2]
        n == Len(toAgent[a])
    IN  \/ link[a] = "down"
        \/ n > 0 /\ toAgent[a][n] = Msg("START_RUN", r, group)
        \/ proc[a] = [st |-> "running", run |-> r, grp |-> group] /\ ~InboxHas(a, "REQ_KILL")
        \/ ResultOnItsWay(a, r)

(* OnlyKillsReachABusyAgent: run_model refuses everything but PING, REQ_KILL   *)
(* and TERMINATE and gives up its run over it, so no START_RUN or handshake    *)
(* message may be on its way to an agent that runs a model or has not sent     *)
(* READY yet, and never more than one START_RUN to any agent.                  *)
OnlyKillsReachABusyAgent ==
  \A a \in Agents :
    /\ proc[a].st # "idle" => \A i \in DOMAIN toAgent[a] : toAgent[a][i].type = "REQ_KILL"
    /\ \A i, j \in DOMAIN toAgent[a] :
         toAgent[a][i].type = "START_RUN" /\ toAgent[a][j].type = "START_RUN" => i = j

(* The contract of a run manager, as the program sees it through the status    *)
(* bytes of the run storage: run_finished and n_run_failures_exceeded.         *)
OutcomeOf(r) == CASE status[r] = 1 -> "done"
                  [] FailuresExceeded(r) -> "failed"
                  [] OTHER -> "todo"
Contract == INSTANCE RunManager WITH
  outcome <- [r \in Runs |-> OutcomeOf(r)],
  phase <- CASE pc = "client" -> "open" [] pc = "queued" -> "queued" [] OTHER -> "running",
  stopped <- stop

(* KeepsContract: run_until returns only when every run is finished or has     *)
(* failed max_n_failure times, or pest.stp was found; a stored result stays;   *)
(* and what agents still say about an earlier group changes no run of a group  *)
(* that has been queued since.                                                 *)
KeepsContract == Contract!Spec

-----------------------------------------------------------------------------
(* Liveness.  The master's thread keeps running; an agent that is there reads   *)
(* its socket, its model ends sooner or later and it sends what it has to send. *)
(* Nothing is assumed of agents that connect or vanish, of the user, and of     *)
(* which runs the clock calls overdue.                                         *)
Fairness ==
  /\ WF_vars(RunStep /\ UNCHANGED agentVars)
  /\ WF_vars(RunUntil /\ UNCHANGED agentVars)
  /\ WF_vars(IdleStep /\ UNCHANGED agentVars)
  /\ \A a \in Agents : WF_vars(AgentStep(a) /\ UNCHANGED masterVars)

FairSpec == Spec /\ Fairness

(* RunReturns: a call of run_until returns, provided one agent stays.  The     *)
(* hard part is a run that has failed on some agents: it is withheld from      *)
(* agents that failed it, and run_until must not wait for an agent that will   *)
(* never be offered it, nor for a queue entry nobody will take.                *)
RunReturns == pc = "top" ~> pc = "client"

(* AgentRecovers: an agent that was sent a kill request, or delivered a        *)
(* result, becomes available again or is dropped, whichever of the kill        *)
(* request and the end of the model came first.                                *)
AgentRecovers ==
  \A a \in Agents : astate[a] \in {"KILLED", "KILLED_FAILED", "COMPLETE"}
                      ~> astate[a] \in {"WAITING", "NONE"}
=============================================================================
